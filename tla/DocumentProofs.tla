--------------------------- MODULE DocumentProofs ---------------------------
(***************************************************************************)
(* Lemmas about the operators of Document.tla and DocumentQueries.tla.     *)
(*                                                                         *)
(* The main one about the first, ApplyStep, says that applying an          *)
(* operation to the document of a set of operations gives the document of  *)
(* the larger set.                                                         *)
(*                                                                         *)
(* For the queries, a document is a tree whose lists of children are       *)
(* sorted.  The walk visits it in pre-order, and UpTo(d, x) is what the    *)
(* walk has visited when it reaches x, x included.  The recursions that    *)
(* climb, descend and skip end because each of their steps makes this set  *)
(* smaller or larger.                                                      *)
(***************************************************************************)
EXTENDS DocumentQueries, FunctionTheorems, FiniteSetTheorems,
        WellFoundedInduction, SequenceTheorems, TLAPS

-----------------------------------------------------------------------------
(***************************************************************************)
(* Induction.                                                              *)
(***************************************************************************)

\* A set with 0 that is closed under the successor holds every number.
LEMMA NatSetInduction ==
    ASSUME NEW T, 0 \in T, \A n \in Nat : n \in T => n + 1 \in T
    PROVE  Nat \subseteq T
<1> DEFINE missing == {n \in Nat : n \notin T}
<1> SUFFICES ASSUME missing # {}
             PROVE  FALSE
  OBVIOUS
<1>0. missing \subseteq Nat /\ missing # {}
  OBVIOUS
<1>1. PICK k \in missing : \A j \in missing : ~(<<j, k>> \in OpToRel(<, Nat))
  BY <1>0, WFMin, NatLessThanWellFounded
<1>2. k \in Nat /\ k \notin T /\ \A j \in missing : ~(j < k)
  BY <1>1 DEF OpToRel
<1>3. k # 0 /\ k - 1 \in Nat /\ k - 1 < k
  BY <1>2
<1>4. k - 1 \in T
  BY <1>2, <1>3
<1>5. (k - 1) + 1 \in T
  BY <1>3, <1>4
<1> QED  BY <1>2, <1>5

\* Some element of a set has the least measure.
LEMMA LeastMeasure ==
    ASSUME NEW S, S # {}, NEW m, \A x \in S : m[x] \in Nat
    PROVE  \E x \in S : \A y \in S : m[x] <= m[y]
<1> DEFINE T == {m[x] : x \in S}
<1>1. T # {} /\ T \subseteq Nat
  OBVIOUS
<1>2. PICK k \in T : \A j \in T : ~(<<j, k>> \in OpToRel(<, Nat))
  BY <1>1, WFMin, NatLessThanWellFounded
<1>3. k \in Nat /\ \A j \in T : ~(j < k)
  BY <1>1, <1>2 DEF OpToRel
<1>4. PICK x \in S : m[x] = k
  BY <1>2 DEF T
<1>5. ASSUME NEW y \in S PROVE m[x] <= m[y]
  <2>1. m[y] \in T /\ m[y] \in Nat
    BY DEF T
  <2> QED  BY <1>3, <1>4, <2>1
<1> QED  BY <1>5

-----------------------------------------------------------------------------
LEMMA IdParts ==
    ASSUME NEW a \in ElementID
    PROVE  a = <<a[1], a[2]>> /\ a[1] \in Nat /\ a[2] \in Nat
<1>1. CASE a = ROOT_ID
  BY <1>1 DEF ROOT_ID
<1>2. CASE a \in GeneratedID
  <2>1. PICK l \in Nat, s \in Site : a = <<l, s>>
    BY <1>2 DEF GeneratedID
  <2> QED  BY <2>1, SiteAssumption
<1> QED  BY <1>1, <1>2 DEF ElementID

\* The order of identifiers is a strict total order.
LEMMA GreaterIrreflexive ==
    ASSUME NEW a \in ElementID
    PROVE  ~Greater(a, a)
BY IdParts DEF Greater

LEMMA GreaterTransitive ==
    ASSUME NEW a \in ElementID, NEW b \in ElementID, NEW c \in ElementID,
           Greater(a, b), Greater(b, c)
    PROVE  Greater(a, c)
<1>1. /\ a[1] \in Nat /\ a[2] \in Nat
      /\ b[1] \in Nat /\ b[2] \in Nat
      /\ c[1] \in Nat /\ c[2] \in Nat
  BY IdParts
<1> QED  BY <1>1 DEF Greater

LEMMA GreaterTotal ==
    ASSUME NEW a \in ElementID, NEW b \in ElementID, a # b
    PROVE  Greater(a, b) \/ Greater(b, a)
<1>1. /\ a = <<a[1], a[2]>> /\ a[1] \in Nat /\ a[2] \in Nat
      /\ b = <<b[1], b[2]>> /\ b[1] \in Nat /\ b[2] \in Nat
  BY IdParts
<1>2. a[1] # b[1] \/ a[2] # b[2]
  BY <1>1
<1> QED  BY <1>1, <1>2 DEF Greater

(***************************************************************************)
(* Descending lists a finite set of identifiers: its values are exactly    *)
(* the elements of the set.                                                *)
(***************************************************************************)
LEMMA DescendingLists ==
    ASSUME NEW S \in SUBSET ElementID, IsFiniteSet(S)
    PROVE  /\ Descending(S) \in Seq(S)
           /\ Elems(Descending(S)) = S
           /\ Len(Descending(S)) = Cardinality(S)
           /\ \A i \in 1..Cardinality(S) :
                 Cardinality({y \in S : Greater(y, Descending(S)[i])}) = i - 1
<1> DEFINE above(x) == {y \in S : Greater(y, x)}
           n == Cardinality(S)
           count == [x \in S |-> Cardinality(above(x))]
           rank == [x \in S |-> count[x] + 1]
<1>1. n \in Nat
  BY FS_CardinalityType
<1>2. ASSUME NEW x \in S
      PROVE  IsFiniteSet(above(x)) /\ Cardinality(above(x)) \in 0..n - 1
  <2>1. IsFiniteSet(above(x)) /\ Cardinality(above(x)) <= n
        /\ (Cardinality(above(x)) = n => above(x) = S)
    BY FS_Subset
  <2>2. x \notin above(x)
    BY GreaterIrreflexive
  <2> QED  BY <1>1, <2>1, <2>2, FS_CardinalityType
<1>3. ASSUME NEW x \in S, NEW y \in S, x # y
      PROVE  Cardinality(above(x)) # Cardinality(above(y))
  <2>1. ASSUME NEW u \in S, NEW v \in S, Greater(u, v)
        PROVE  Cardinality(above(u)) # Cardinality(above(v))
    <3>1. above(u) \subseteq above(v)
      BY <2>1, GreaterTransitive
    <3>2. u \in above(v) /\ u \notin above(u)
      BY <2>1, GreaterIrreflexive
    <3>3. IsFiniteSet(above(v))
      BY <1>2
    <3>4. Cardinality(above(v)) = Cardinality(above(u)) => above(v) = above(u)
      BY <3>1, <3>3, FS_Subset
    <3> QED  BY <3>2, <3>4
  <2> QED  BY <1>3, <2>1, GreaterTotal
<1>4. /\ \A x \in S : count[x] \in 0..n - 1
      /\ \A x, y \in S : count[x] = count[y] => x = y
  BY <1>2, <1>3
<1>5. rank \in Surjection(S, 1..n)
  <2> HIDE DEF count
  <2>1. rank \in [S -> 1..n]
    BY <1>1, <1>4
  <2>2. \A x, y \in S : rank[x] = rank[y] => x = y
    BY <1>1, <1>4
  <2>3. rank \in Injection(S, 1..n)
    BY <2>1, <2>2, Fun_IsInj
  <2>4. IsFiniteSet(1..n) /\ Cardinality(1..n) = n
    BY <1>1, FS_Interval
  <2> QED  BY <2>3, <2>4, FS_Injection
<1>6. ASSUME NEW i \in 1..n
      PROVE  Descending(S)[i] \in S /\ count[Descending(S)[i]] = i - 1
  <2>1. PICK x \in S : rank[x] = i
    BY <1>5 DEF Surjection
  <2>2. count[x] = i - 1
    <3> HIDE DEF count
    <3> QED  BY <1>1, <1>4, <2>1
  <2>3. Cardinality(above(x)) = i - 1
    BY <2>2
  <2>4. Descending(S)[i] = CHOOSE y \in S : Cardinality(above(y)) = i - 1
    BY DEF Descending
  <2>5. Descending(S)[i] \in S
        /\ Cardinality(above(Descending(S)[i])) = i - 1
    BY <2>3, <2>4
  <2> QED  BY <2>5
<1>7. Descending(S) \in [1..n -> S]
  <2> DEFINE pick(i) == CHOOSE x \in S : Cardinality(above(x)) = i - 1
  <2>1. Descending(S) = [i \in 1..n |-> pick(i)]
    BY DEF Descending
  <2> HIDE DEF pick
  <2>2. \A i \in 1..n : Descending(S)[i] = pick(i)
    BY <2>1
  <2> QED  BY <1>6, <2>1, <2>2
<1>8. ASSUME NEW x \in S
      PROVE  \E i \in 1..n : Descending(S)[i] = x
  <2> HIDE DEF count
  <2>1. count[x] + 1 \in 1..n
    BY <1>1, <1>4
  <2>2. count[Descending(S)[count[x] + 1]] = count[x]
    BY <1>1, <1>4, <1>6, <2>1
  <2> QED  BY <1>4, <1>6, <2>1, <2>2
<1>9. Descending(S) \in Seq(S) /\ Len(Descending(S)) = n
  BY <1>1, <1>7
<1>10. Elems(Descending(S)) = S
  BY <1>7, <1>8 DEF Elems
<1>11. ASSUME NEW i \in 1..n
       PROVE  Cardinality(above(Descending(S)[i])) = i - 1
  BY <1>6
<1> QED  BY <1>9, <1>10, <1>11

-----------------------------------------------------------------------------
(***************************************************************************)
(* Rooted(O) is the least set that holds the root and, with a parent, the  *)
(* elements inserted under it.                                             *)
(***************************************************************************)
LEMMA RootedLeast ==
    ASSUME NEW O
    PROVE  /\ Rooted(O) \subseteq {ROOT_ID} \cup Ids(Inserts(O))
           /\ ChainClosed(Inserts(O), Rooted(O))
           /\ \A S : ChainClosed(Inserts(O), S) => Rooted(O) \subseteq S
<1> DEFINE I == Inserts(O)
           known == {ROOT_ID} \cup Ids(I)
<1>1. Rooted(O) = {x \in known :
                      \A S \in SUBSET known : ChainClosed(I, S) => x \in S}
  BY DEF Rooted
<1>2. \A S \in SUBSET known : ChainClosed(I, S) => Rooted(O) \subseteq S
  BY <1>1
<1>3. ChainClosed(I, Rooted(O))
  <2>1. ROOT_ID \in Rooted(O)
    BY <1>1 DEF ChainClosed
  <2>2. ASSUME NEW o \in I, o.parent \in Rooted(O)
        PROVE  o.id \in Rooted(O)
    <3>1. o.id \in known
      BY DEF Ids
    <3>2. ASSUME NEW S \in SUBSET known, ChainClosed(I, S)
          PROVE  o.id \in S
      BY <1>2, <2>2, <3>2 DEF ChainClosed
    <3> QED  BY <1>1, <3>1, <3>2
  <2> QED  BY <2>1, <2>2 DEF ChainClosed
<1>4. ASSUME NEW S, ChainClosed(I, S)
      PROVE  Rooted(O) \subseteq S
  <2>1. ChainClosed(I, S \cap known)
    BY <1>4 DEF ChainClosed, Ids
  <2>2. S \cap known \in SUBSET known
    OBVIOUS
  <2> QED  BY <1>2, <2>1, <2>2
<1> QED  BY <1>1, <1>3, <1>4

(***************************************************************************)
(* A rooted element other than the root was inserted under a rooted one.   *)
(***************************************************************************)
LEMMA RootedParent ==
    ASSUME NEW O, NEW x \in Rooted(O), x # ROOT_ID
    PROVE  \E o \in Inserts(O) : o.id = x /\ o.parent \in Rooted(O)
<1> DEFINE S == {ROOT_ID} \cup
                  {o.id : o \in {i \in Inserts(O) : i.parent \in Rooted(O)}}
<1>1. S \subseteq Rooted(O)
  BY RootedLeast DEF ChainClosed
<1>2. ChainClosed(Inserts(O), S)
  BY <1>1 DEF ChainClosed
<1> QED  BY <1>2, RootedLeast

(***************************************************************************)
(* Cascade(d, id) is the least set of waiting operations that holds those  *)
(* waiting for id and those waiting for an element it inserts.             *)
(***************************************************************************)
LEMMA CascadeLeast ==
    ASSUME NEW d, NEW id
    PROVE  /\ Cascade(d, id) \subseteq d.buffered_inserts
           /\ IsCascade(d, id, Cascade(d, id))
           /\ \A S \in SUBSET d.buffered_inserts :
                 IsCascade(d, id, S) => Cascade(d, id) \subseteq S
<1>1. \A S \in SUBSET d.buffered_inserts :
         IsCascade(d, id, S) => Cascade(d, id) \subseteq S
  BY DEF Cascade
<1>2. ASSUME NEW b \in d.buffered_inserts,
             b.parent = id \/ \E c \in Cascade(d, id) : b.parent = c.id
      PROVE  b \in Cascade(d, id)
  <2>1. ASSUME NEW S \in SUBSET d.buffered_inserts, IsCascade(d, id, S)
        PROVE  b \in S
    BY <1>1, <1>2, <2>1 DEF IsCascade
  <2> QED  BY <2>1 DEF Cascade
<1>3. IsCascade(d, id, Cascade(d, id))
  BY <1>2 DEF IsCascade
<1> QED  BY <1>1, <1>3 DEF Cascade

-----------------------------------------------------------------------------
LEMMA OperationFields ==
    /\ \A o \in InsertOperation :
          /\ IsInsert(o)
          /\ o.id \in GeneratedID
          /\ o.parent \in ElementID
          /\ o.char \in Char
    /\ \A o \in RemoveOperation : ~IsInsert(o) /\ o.target \in ElementID
    /\ \A O \in SUBSET Operation :
          Inserts(O) \subseteq InsertOperation /\ RemovedBy(O) \subseteq ElementID
<1>1. \A o \in InsertOperation :
          /\ IsInsert(o)
          /\ o.id \in GeneratedID
          /\ o.parent \in ElementID
          /\ o.char \in Char
  BY DEF InsertOperation, IsInsert
<1>2. \A o \in RemoveOperation : ~IsInsert(o) /\ o.target \in ElementID
  BY DEF RemoveOperation, IsInsert
<1> QED  BY <1>1, <1>2 DEF Operation, Inserts, RemovedBy

LEMMA GeneratedIsNotRoot ==
    ROOT_ID \notin GeneratedID
BY DEF ROOT_ID, GeneratedID

\* InsertOf finds the insertion that carries an identifier.
LEMMA InsertOfIs ==
    ASSUME NEW I, \A o, p \in I : o.id = p.id => o = p, NEW o \in I
    PROVE  InsertOf(I, o.id) = o
BY DEF InsertOf

\* How one more operation changes the sets that DocumentOf speaks of.
LEMMA AddInsert ==
    ASSUME NEW O, NEW op, IsInsert(op)
    PROVE  /\ Inserts(O \cup {op}) = Inserts(O) \cup {op}
           /\ RemovedBy(O \cup {op}) = RemovedBy(O)
BY DEF Inserts, RemovedBy

LEMMA AddRemove ==
    ASSUME NEW O, NEW op, ~IsInsert(op)
    PROVE  /\ Inserts(O \cup {op}) = Inserts(O)
           /\ RemovedBy(O \cup {op}) = RemovedBy(O) \cup {op.target}
BY DEF Inserts, RemovedBy

(***************************************************************************)
(* An identifier of a new insertion is in neither the document nor its     *)
(* buffers.                                                                *)
(***************************************************************************)
LEMMA FreshId ==
    ASSUME NEW O, NEW op \in InsertOperation, op \notin O, Legal(O \cup {op})
    PROVE  /\ op.id \notin Rooted(O)
           /\ \A o \in Inserts(O) : o.id # op.id
<1>1. Inserts(O \cup {op}) = Inserts(O) \cup {op} /\ op \notin Inserts(O)
  BY AddInsert, OperationFields DEF Inserts
<1>2. \A o \in Inserts(O) : o.id # op.id
  BY <1>1 DEF Legal
<1> QED  BY <1>2, RootedLeast, OperationFields, GeneratedIsNotRoot DEF Ids

(***************************************************************************)
(* An insertion under an element that is not rooted roots nothing.         *)
(***************************************************************************)
LEMMA RootedWhenBuffered ==
    ASSUME NEW O, NEW op \in InsertOperation, op.parent \notin Rooted(O)
    PROVE  Rooted(O \cup {op}) = Rooted(O)
<1>1. Inserts(O \cup {op}) = Inserts(O) \cup {op}
  BY AddInsert, OperationFields
<1>2. ChainClosed(Inserts(O \cup {op}), Rooted(O))
  BY <1>1, RootedLeast DEF ChainClosed
<1>3. ChainClosed(Inserts(O), Rooted(O \cup {op}))
  BY <1>1, RootedLeast DEF ChainClosed
<1> QED  BY <1>2, <1>3, RootedLeast

(***************************************************************************)
(* An insertion under a rooted element roots its own element and those of  *)
(* the operations the cascade takes out of the buffer.                     *)
(***************************************************************************)
LEMMA RootedWhenAttached ==
    ASSUME NEW O, NEW d, d.buffered_inserts = Waiting(O),
           NEW op \in InsertOperation, op.parent \in Rooted(O)
    PROVE  Rooted(O \cup {op}) =
              Rooted(O) \cup {op.id} \cup {b.id : b \in Cascade(d, op.id)}
<1> DEFINE P == O \cup {op}
           R == Cascade(d, op.id)
           T == Rooted(O) \cup {op.id} \cup {b.id : b \in R}
<1>1. Inserts(P) = Inserts(O) \cup {op}
  BY AddInsert, OperationFields
<1>2. R \subseteq Waiting(O)
  BY CascadeLeast
<1>3. ChainClosed(Inserts(P), T)
  <2>1. ROOT_ID \in T
    BY RootedLeast DEF ChainClosed
  <2>2. ASSUME NEW o \in Inserts(O), o.parent \in T, o.id \notin Rooted(O)
        PROVE  o.id \in T
    <3>1. o \in d.buffered_inserts
      BY <2>2 DEF Waiting
    <3>2. o.parent \notin Rooted(O)
      BY <2>2, RootedLeast DEF ChainClosed
    <3>3. o \in R
      BY <2>2, <3>1, <3>2, CascadeLeast DEF IsCascade
    <3> QED  BY <3>3
  <2> QED  BY <1>1, <2>1, <2>2 DEF ChainClosed
<1>4. T \subseteq Rooted(P)
  <2>1. ChainClosed(Inserts(O), Rooted(P))
    BY <1>1, RootedLeast DEF ChainClosed
  <2>2. Rooted(O) \subseteq Rooted(P)
    BY <2>1, RootedLeast
  <2>3. op.id \in Rooted(P)
    BY <1>1, <2>2, RootedLeast DEF ChainClosed
  <2> DEFINE S == {b \in d.buffered_inserts : b.id \in Rooted(P)}
  <2>4. IsCascade(d, op.id, S)
    <3>1. \A b \in d.buffered_inserts : b \in Inserts(P)
      BY <1>1 DEF Waiting
    <3> QED  BY <2>3, <3>1, RootedLeast DEF IsCascade, ChainClosed
  <2>5. R \subseteq S
    BY <2>4, CascadeLeast
  <2> QED  BY <2>2, <2>3, <2>5
<1> QED  BY <1>3, <1>4, RootedLeast

-----------------------------------------------------------------------------
LEMMA DocumentFields ==
    ASSUME NEW O
    PROVE  /\ Present(DocumentOf(O)) = Rooted(O)
           /\ DocumentOf(O).elements = RootedElements(O)
           /\ DocumentOf(O).tombstones = RemovedBy(O) \cap Rooted(O)
           /\ DocumentOf(O).parent_of = RootedParents(O)
           /\ DocumentOf(O).children = RootedChildren(O)
           /\ DocumentOf(O).buffered_inserts = Waiting(O)
           /\ DocumentOf(O).buffered_insert_ids = Ids(Waiting(O))
           /\ DocumentOf(O).buffered_deletes = RemovedBy(O) \ Rooted(O)
BY DEF DocumentOf, Present, RootedElements

(***************************************************************************)
(* An operation applied before changes nothing (design.md, "idempotent").  *)
(***************************************************************************)
LEMMA ApplyRepeated ==
    ASSUME NEW O, Legal(O), NEW op \in O
    PROVE  Apply(DocumentOf(O), op) = DocumentOf(O)
<1> DEFINE d == DocumentOf(O)
<1>1. CASE IsInsert(op)
  <2>1. op \in Inserts(O)
    BY <1>1 DEF Inserts
  <2>2. CASE op.id \in Rooted(O)
    BY <1>1, <2>2, DocumentFields DEF Apply, ApplyInsert
  <2>3. CASE op.id \notin Rooted(O)
    <3>1. op.parent \notin Rooted(O)
      BY <2>1, <2>3, RootedLeast DEF ChainClosed
    <3>2. op.id \in d.buffered_insert_ids
      BY <2>1, <2>3, DocumentFields DEF Waiting, Ids
    <3> QED  BY <1>1, <2>3, <3>1, <3>2, DocumentFields
             DEF Apply, ApplyInsert, BufferInsert
  <2> QED  BY <2>2, <2>3
<1>2. CASE ~IsInsert(op)
  <2>1. op.target \in RemovedBy(O)
    BY <1>2 DEF RemovedBy
  <2>2. CASE op.target \in Rooted(O)
    <3>1. d.tombstones \cup {op.target} = d.tombstones
      BY <2>1, <2>2, DocumentFields
    <3>2. [d EXCEPT !.tombstones = @ \cup {op.target}] = d
      BY <3>1 DEF DocumentOf
    <3> QED  BY <1>2, <2>2, <3>2, DocumentFields DEF Apply, ApplyDelete
  <2>3. CASE op.target \notin Rooted(O)
    <3>1. d.buffered_deletes \cup {op.target} = d.buffered_deletes
      BY <2>1, <2>3, DocumentFields
    <3>2. [d EXCEPT !.buffered_deletes = @ \cup {op.target}] = d
      BY <3>1 DEF DocumentOf
    <3> QED  BY <1>2, <2>3, <3>2, DocumentFields DEF Apply, ApplyDelete
  <2> QED  BY <2>2, <2>3
<1> QED  BY <1>1, <1>2

(***************************************************************************)
(* A removal marks its target, or waits for it.                            *)
(***************************************************************************)
LEMMA ApplyRemove ==
    ASSUME NEW O, NEW op, ~IsInsert(op)
    PROVE  Apply(DocumentOf(O), op) = DocumentOf(O \cup {op})
<1> DEFINE d == DocumentOf(O)
           P == O \cup {op}
<1>1. Inserts(P) = Inserts(O) /\ RemovedBy(P) = RemovedBy(O) \cup {op.target}
  BY AddRemove
<1>2. Rooted(P) = Rooted(O)
  BY <1>1 DEF Rooted
<1>3. /\ RootedElements(P) = RootedElements(O)
      /\ RootedParents(P) = RootedParents(O)
      /\ RootedChildren(P) = RootedChildren(O)
      /\ Waiting(P) = Waiting(O)
  BY <1>1, <1>2 DEF RootedElements, RootedParents, RootedChildren, Waiting
<1>4. DocumentOf(P) =
        [elements            |-> RootedElements(O),
         tombstones          |-> RemovedBy(P) \cap Rooted(P),
         parent_of           |-> RootedParents(O),
         children            |-> RootedChildren(O),
         buffered_inserts    |-> Waiting(O),
         buffered_insert_ids |-> Ids(Waiting(O)),
         buffered_deletes    |-> RemovedBy(P) \ Rooted(P)]
  BY <1>3 DEF DocumentOf
<1>5. CASE op.target \in Rooted(O)
  <2>1. /\ RemovedBy(P) \cap Rooted(P)
              = (RemovedBy(O) \cap Rooted(O)) \cup {op.target}
        /\ RemovedBy(P) \ Rooted(P) = RemovedBy(O) \ Rooted(O)
    BY <1>1, <1>2, <1>5
  <2>2. DocumentOf(P) = [d EXCEPT !.tombstones = @ \cup {op.target}]
    BY <1>4, <2>1, Z3 DEF DocumentOf
  <2> QED  BY <1>5, <2>2, DocumentFields DEF Apply, ApplyDelete
<1>6. CASE op.target \notin Rooted(O)
  <2>1. /\ RemovedBy(P) \cap Rooted(P) = RemovedBy(O) \cap Rooted(O)
        /\ RemovedBy(P) \ Rooted(P)
              = (RemovedBy(O) \ Rooted(O)) \cup {op.target}
    BY <1>1, <1>2, <1>6
  <2>2. DocumentOf(P) = [d EXCEPT !.buffered_deletes = @ \cup {op.target}]
    BY <1>4, <2>1, Z3 DEF DocumentOf
  <2> QED  BY <1>6, <2>2, DocumentFields DEF Apply, ApplyDelete
<1> QED  BY <1>5, <1>6

LEMMA LegalSubset ==
    ASSUME NEW P, Legal(P), NEW O \in SUBSET P
    PROVE  /\ Legal(O)
           /\ Inserts(O) \subseteq Inserts(P)
           /\ Inserts(O) \subseteq InsertOperation
           /\ \A o \in Inserts(O) : /\ InsertOf(Inserts(P), o.id) = o
                                    /\ InsertOf(Inserts(O), o.id) = o
<1>1. Inserts(O) \subseteq Inserts(P)
  BY DEF Inserts
<1>2. Legal(O)
  BY <1>1, FS_Subset DEF Legal
<1>3. \A o, p \in Inserts(P) : o.id = p.id => o = p
  BY DEF Legal
<1>4. \A o, p \in Inserts(O) : o.id = p.id => o = p
  BY <1>2 DEF Legal
<1>5. \A o \in Inserts(O) : /\ InsertOf(Inserts(P), o.id) = o
                            /\ InsertOf(Inserts(O), o.id) = o
  BY <1>1, <1>3, <1>4, InsertOfIs
<1>6. Inserts(O) \subseteq InsertOperation
  BY <1>2, OperationFields DEF Legal
<1> QED  BY <1>1, <1>2, <1>5, <1>6

(***************************************************************************)
(* The list of children that DocumentOf sorts holds exactly the children.  *)
(***************************************************************************)
LEMMA ChildIdsListed ==
    ASSUME NEW O, Legal(O), NEW p
    PROVE  /\ ChildIds(Inserts(O), p) \in SUBSET GeneratedID
           /\ IsFiniteSet(ChildIds(Inserts(O), p))
           /\ Descending(ChildIds(Inserts(O), p)) \in Seq(GeneratedID)
           /\ Elems(Descending(ChildIds(Inserts(O), p))) =
                 ChildIds(Inserts(O), p)
<1> DEFINE C == ChildIds(Inserts(O), p)
<1>1. C \subseteq GeneratedID
  BY LegalSubset, OperationFields DEF ChildIds, Ids
<1>2. IsFiniteSet(C)
  <2> DEFINE Q == {o \in Inserts(O) : o.parent = p}
             f == [o \in Q |-> o.id]
  <2>1. IsFiniteSet(Q)
    BY FS_Subset DEF Legal, Inserts
  <2>2. f \in Surjection(Q, C)
    BY DEF Surjection, ChildIds, Ids
  <2> QED  BY <2>1, <2>2, FS_Surjection
<1>3. C \in SUBSET ElementID
  BY <1>1 DEF ElementID
<1>4. Elems(Descending(C)) = C /\ Descending(C) \in Seq(C)
  BY <1>2, <1>3, DescendingLists
<1> QED  BY <1>1, <1>2, <1>4

(***************************************************************************)
(* What a smaller set of operations says of an element it roots, a larger  *)
(* one says too.                                                           *)
(***************************************************************************)
LEMMA RootedStable ==
    ASSUME NEW P, Legal(P), NEW O \in SUBSET P, NEW x \in Rooted(O)
    PROVE  /\ x \in Rooted(P)
           /\ RootedElements(P)[x] = RootedElements(O)[x]
           /\ RootedParents(P)[x] = RootedParents(O)[x]
<1>1. Inserts(O) \subseteq Inserts(P)
  BY LegalSubset
<1>2. x \in Rooted(P)
  <2>1. ChainClosed(Inserts(O), Rooted(P))
    BY <1>1, RootedLeast DEF ChainClosed
  <2> QED  BY <2>1, RootedLeast
<1>3. CASE x = ROOT_ID
  BY <1>2, <1>3 DEF RootedElements, RootedParents
<1>4. CASE x # ROOT_ID
  <2>1. PICK o \in Inserts(O) : o.id = x
    BY <1>4, RootedParent
  <2>2. InsertOf(Inserts(P), x) = InsertOf(Inserts(O), x)
    BY <2>1, LegalSubset
  <2> QED  BY <1>2, <1>4, <2>2 DEF RootedElements, RootedParents
<1> QED  BY <1>2, <1>3, <1>4

\* Replacing a field of a document record.
LEMMA ReplaceBufferedIds ==
    ASSUME NEW e, NEW t, NEW p, NEW c, NEW bi, NEW ids, NEW bd, NEW new
    PROVE  [[elements |-> e, tombstones |-> t, parent_of |-> p, children |-> c,
             buffered_inserts |-> bi, buffered_insert_ids |-> ids,
             buffered_deletes |-> bd] EXCEPT !.buffered_insert_ids = new]
           = [elements |-> e, tombstones |-> t, parent_of |-> p, children |-> c,
              buffered_inserts |-> bi, buffered_insert_ids |-> new,
              buffered_deletes |-> bd]
BY Z3

LEMMA ReplaceBufferedInserts ==
    ASSUME NEW e, NEW t, NEW p, NEW c, NEW bi, NEW ids, NEW bd, NEW new
    PROVE  [[elements |-> e, tombstones |-> t, parent_of |-> p, children |-> c,
             buffered_inserts |-> bi, buffered_insert_ids |-> ids,
             buffered_deletes |-> bd] EXCEPT !.buffered_inserts = new]
           = [elements |-> e, tombstones |-> t, parent_of |-> p, children |-> c,
              buffered_inserts |-> new, buffered_insert_ids |-> ids,
              buffered_deletes |-> bd]
BY Z3

(***************************************************************************)
(* An insertion whose parent is missing waits.                             *)
(***************************************************************************)
LEMMA ApplyBuffer ==
    ASSUME NEW O, NEW op \in InsertOperation, op \notin O, Legal(O \cup {op}),
           op.parent \notin Rooted(O)
    PROVE  Apply(DocumentOf(O), op) = DocumentOf(O \cup {op})
<1> DEFINE d == DocumentOf(O)
           P == O \cup {op}
<1>1. /\ Inserts(P) = Inserts(O) \cup {op}
      /\ RemovedBy(P) = RemovedBy(O)
      /\ IsInsert(op)
  BY AddInsert, OperationFields
<1>2. op.id \notin Rooted(O) /\ \A o \in Inserts(O) : o.id # op.id
  BY FreshId
<1>3. Rooted(P) = Rooted(O)
  BY RootedWhenBuffered
<1>4. RootedElements(P) = RootedElements(O)
  <2>1. \A x \in Rooted(O) : RootedElements(P)[x] = RootedElements(O)[x]
    BY RootedStable
  <2>2. /\ RootedElements(P) = [x \in Rooted(O) |-> RootedElements(P)[x]]
        /\ RootedElements(O) = [x \in Rooted(O) |-> RootedElements(O)[x]]
    BY <1>3 DEF RootedElements
  <2> QED  BY <2>1, <2>2
<1>5. RootedParents(P) = RootedParents(O)
  <2>1. \A x \in Rooted(O) : RootedParents(P)[x] = RootedParents(O)[x]
    BY RootedStable
  <2>2. /\ RootedParents(P) = [x \in Rooted(O) |-> RootedParents(P)[x]]
        /\ RootedParents(O) = [x \in Rooted(O) |-> RootedParents(O)[x]]
    BY <1>3 DEF RootedParents
  <2> QED  BY <2>1, <2>2
<1>6. RootedChildren(P) = RootedChildren(O)
  <2>1. \A p \in Rooted(O) :
           ChildIds(Inserts(P), p) = ChildIds(Inserts(O), p)
    BY <1>1 DEF ChildIds, Ids
  <2> QED  BY <1>3, <2>1 DEF RootedChildren
<1>7. /\ Waiting(P) = Waiting(O) \cup {op}
      /\ Ids(Waiting(P)) = Ids(Waiting(O)) \cup {op.id}
  BY <1>1, <1>2, <1>3 DEF Waiting, Ids
<1>8. op.id \notin d.buffered_insert_ids
  BY <1>2, DocumentFields DEF Waiting, Ids
<1> DEFINE half == [d EXCEPT !.buffered_inserts = Waiting(O) \cup {op}]
<1>9. Apply(d, op) =
         [half EXCEPT !.buffered_insert_ids = Ids(Waiting(O)) \cup {op.id}]
  BY <1>1, <1>2, <1>8, DocumentFields DEF Apply, ApplyInsert, BufferInsert
<1>10. DocumentOf(P) =
          [elements            |-> RootedElements(O),
           tombstones          |-> RemovedBy(O) \cap Rooted(O),
           parent_of           |-> RootedParents(O),
           children            |-> RootedChildren(O),
           buffered_inserts    |-> Waiting(O) \cup {op},
           buffered_insert_ids |-> Ids(Waiting(O)) \cup {op.id},
           buffered_deletes    |-> RemovedBy(O) \ Rooted(O)]
  BY <1>1, <1>3, <1>4, <1>5, <1>6, <1>7 DEF DocumentOf
<1>11. half =
          [elements            |-> RootedElements(O),
           tombstones          |-> RemovedBy(O) \cap Rooted(O),
           parent_of           |-> RootedParents(O),
           children            |-> RootedChildren(O),
           buffered_inserts    |-> Waiting(O) \cup {op},
           buffered_insert_ids |-> Ids(Waiting(O)),
           buffered_deletes    |-> RemovedBy(O) \ Rooted(O)]
  <2> DEFINE e == RootedElements(O)
             t == RemovedBy(O) \cap Rooted(O)
             p == RootedParents(O)
             c == RootedChildren(O)
             w == Waiting(O)
             ids == Ids(Waiting(O))
             bd == RemovedBy(O) \ Rooted(O)
             new == w \cup {op}
  <2>1. d = [elements |-> e, tombstones |-> t, parent_of |-> p, children |-> c,
             buffered_inserts |-> w, buffered_insert_ids |-> ids,
             buffered_deletes |-> bd]
    BY DEF DocumentOf
  <2> HIDE DEF d, e, t, p, c, w, ids, bd, new
  <2>2. [d EXCEPT !.buffered_inserts = new]
          = [elements |-> e, tombstones |-> t, parent_of |-> p, children |-> c,
             buffered_inserts |-> new, buffered_insert_ids |-> ids,
             buffered_deletes |-> bd]
    BY ONLY <2>1, ReplaceBufferedInserts
  <2> QED  BY <2>2 DEF e, t, p, c, w, ids, bd, new
<1>12. Apply(d, op) =
          [[elements            |-> RootedElements(O),
            tombstones          |-> RemovedBy(O) \cap Rooted(O),
            parent_of           |-> RootedParents(O),
            children            |-> RootedChildren(O),
            buffered_inserts    |-> Waiting(O) \cup {op},
            buffered_insert_ids |-> Ids(Waiting(O)),
            buffered_deletes    |-> RemovedBy(O) \ Rooted(O)]
           EXCEPT !.buffered_insert_ids = Ids(Waiting(O)) \cup {op.id}]
  <2> HIDE DEF half, d
  <2> QED  BY <1>9, <1>11
<1> QED  BY <1>10, <1>12, ReplaceBufferedIds

(***************************************************************************)
(* An insertion under an element of the document takes effect, and so do   *)
(* the operations it releases.                                             *)
(***************************************************************************)
LEMMA ApplyAttach ==
    ASSUME NEW O, NEW op \in InsertOperation, op \notin O, Legal(O \cup {op}),
           op.parent \in Rooted(O)
    PROVE  Apply(DocumentOf(O), op) = DocumentOf(O \cup {op})
<1> DEFINE d == DocumentOf(O)
           P == O \cup {op}
           R == Cascade(d, op.id)
           new == {op} \cup R
           newIds == Ids(new)
<1>1. /\ Inserts(P) = Inserts(O) \cup {op}
      /\ RemovedBy(P) = RemovedBy(O)
      /\ IsInsert(op)
  BY AddInsert, OperationFields
<1>2. op.id \notin Rooted(O) /\ \A o \in Inserts(O) : o.id # op.id
  BY FreshId
<1>3. /\ R \subseteq Waiting(O)
      /\ new \subseteq Inserts(P)
      /\ new \cap Rooted(O) = new \cap Rooted(O)
  BY <1>1, CascadeLeast, DocumentFields DEF Waiting
<1>4. /\ Rooted(P) = Rooted(O) \cup newIds
      /\ newIds \cap Rooted(O) = {}
  <2>1. Rooted(P) = Rooted(O) \cup {op.id} \cup {b.id : b \in R}
    BY RootedWhenAttached, DocumentFields
  <2>2. newIds = {op.id} \cup {b.id : b \in R}
    BY DEF Ids
  <2> QED  BY <1>2, <1>3, <2>1, <2>2 DEF Waiting
<1>5. new = {op} \cup {b \in R : b.id \notin Present(d) \cup {op.id}}
  BY <1>2, <1>3, DocumentFields DEF Waiting
<1>6. ASSUME NEW o \in new
      PROVE  InsertOf(new, o.id) = o /\ InsertOf(Inserts(P), o.id) = o
  <2>1. \A p, q \in new : p.id = q.id => p = q
    BY <1>3 DEF Legal
  <2>2. InsertOf(new, o.id) = o
    BY <2>1, InsertOfIs
  <2>3. o \in Inserts(P)
    BY <1>3
  <2> QED  BY <2>2, <2>3, LegalSubset
<1>7. /\ Waiting(P) = Waiting(O) \ R
      /\ Ids(Waiting(P)) = Ids(Waiting(O)) \ newIds
  <2>1. \A o \in Waiting(O) : o.id \in newIds <=> o \in R
    BY <1>1, <1>2, <1>3 DEF Waiting, Ids, Legal
  <2>2. Waiting(P) = Waiting(O) \ R
    BY <1>1, <1>4, <2>1 DEF Waiting, Ids
  <2> QED  BY <2>1, <2>2 DEF Ids
<1>8. RemovedBy(P) \cap Rooted(P) =
         (RemovedBy(O) \cap Rooted(O))
            \cup (newIds \cap (RemovedBy(O) \ Rooted(O)))
  BY <1>1, <1>4
<1>9. RemovedBy(P) \ Rooted(P) = (RemovedBy(O) \ Rooted(O)) \ newIds
  BY <1>1, <1>4
<1>10. RootedElements(P) =
          [x \in Rooted(O) \cup newIds |->
              IF x \in newIds THEN InsertOf(new, x).char
              ELSE RootedElements(O)[x]]
  <2>1. ASSUME NEW x \in Rooted(O)
        PROVE  RootedElements(P)[x] = RootedElements(O)[x]
    BY RootedStable
  <2>2. ASSUME NEW x \in newIds
        PROVE  RootedElements(P)[x] = InsertOf(new, x).char
    <3>1. x # ROOT_ID
      <4>1. ROOT_ID \in Rooted(O)
        BY RootedLeast DEF ChainClosed
      <4> HIDE DEF newIds
      <4> QED  BY <1>4, <4>1
    <3>2. InsertOf(new, x) = InsertOf(Inserts(P), x)
      BY <1>6 DEF Ids
    <3> QED  BY <1>4, <3>1, <3>2 DEF RootedElements
  <2>3. RootedElements(P) = [x \in Rooted(P) |-> RootedElements(P)[x]]
    BY DEF RootedElements
  <2> QED  BY <1>4, <2>1, <2>2, <2>3
<1>11. RootedParents(P) =
          [x \in Rooted(O) \cup newIds |->
              IF x \in newIds THEN InsertOf(new, x).parent
              ELSE RootedParents(O)[x]]
  <2>1. ASSUME NEW x \in Rooted(O)
        PROVE  RootedParents(P)[x] = RootedParents(O)[x]
    BY RootedStable
  <2>2. ASSUME NEW x \in newIds
        PROVE  RootedParents(P)[x] = InsertOf(new, x).parent
    <3>1. x # ROOT_ID
      <4>1. ROOT_ID \in Rooted(O)
        BY RootedLeast DEF ChainClosed
      <4> HIDE DEF newIds
      <4> QED  BY <1>4, <4>1
    <3>2. InsertOf(new, x) = InsertOf(Inserts(P), x)
      BY <1>6 DEF Ids
    <3> QED  BY <1>4, <3>1, <3>2 DEF RootedParents
  <2>3. RootedParents(P) = [x \in Rooted(P) |-> RootedParents(P)[x]]
    BY DEF RootedParents
  <2> QED  BY <1>4, <2>1, <2>2, <2>3
<1>12. ASSUME NEW p \in Rooted(P)
       PROVE  ChildIds(Inserts(P), p) =
                 (IF p \in Rooted(O) THEN Elems(RootedChildren(O)[p]) ELSE {})
                    \cup ChildIds(new, p)
  <2>1. CASE p \in Rooted(O)
    <3>1. Elems(RootedChildren(O)[p]) = ChildIds(Inserts(O), p)
      BY <2>1, ChildIdsListed, LegalSubset DEF RootedChildren
    <3>2. ChildIds(Inserts(P), p) =
             ChildIds(Inserts(O), p) \cup ChildIds(new, p)
      BY <1>1, <1>3 DEF ChildIds, Ids
    <3> QED  BY <2>1, <3>1, <3>2
  <2>2. CASE p \notin Rooted(O)
    <3>1. ASSUME NEW o \in Inserts(P), o.parent = p
          PROVE  o \in new
      <4>1. o \in Inserts(O)
        BY <1>1, <2>2, <3>1
      <4>2. o.id \notin Rooted(O)
        <5>1. ASSUME o.id \in Rooted(O)
              PROVE  FALSE
          <6>1. o.id # ROOT_ID
            BY <4>1, LegalSubset, OperationFields, GeneratedIsNotRoot
          <6>2. PICK q \in Inserts(O) : q.id = o.id /\ q.parent \in Rooted(O)
            BY <5>1, <6>1, RootedParent
          <6>3. q = o
            BY <1>1, <4>1, <6>2 DEF Legal
          <6> QED  BY <2>2, <3>1, <6>2, <6>3
        <5> QED  BY <5>1
      <4>3. o \in d.buffered_inserts
        BY <4>1, <4>2, DocumentFields DEF Waiting
      <4>4. p \in newIds
        BY <1>4, <2>2
      <4> QED  BY <3>1, <4>3, <4>4, CascadeLeast DEF IsCascade, Ids
    <3> QED  BY <1>3, <2>2, <3>1 DEF ChildIds, Ids
  <2> QED  BY <2>1, <2>2
<1>13. RootedChildren(P) =
          [p \in Rooted(O) \cup newIds |->
              Descending(
                 (IF p \in Rooted(O) THEN Elems(RootedChildren(O)[p]) ELSE {})
                    \cup ChildIds(new, p))]
  BY <1>4, <1>12 DEF RootedChildren
<1>14. Apply(d, op) = Attach(d, op)
  BY <1>1, <1>2, DocumentFields DEF Apply, ApplyInsert
<1>15. Attach(d, op) =
          [elements            |-> RootedElements(P),
           tombstones          |-> RemovedBy(P) \cap Rooted(P),
           parent_of           |-> RootedParents(P),
           children            |-> RootedChildren(P),
           buffered_inserts    |-> Waiting(P),
           buffered_insert_ids |-> Ids(Waiting(P)),
           buffered_deletes    |-> RemovedBy(P) \ Rooted(P)]
  <2>1. Attach(d, op) =
          [elements |->
              [x \in Present(d) \cup newIds |->
                  IF x \in newIds THEN InsertOf(new, x).char
                  ELSE d.elements[x]],
           tombstones |-> d.tombstones \cup (newIds \cap d.buffered_deletes),
           parent_of |->
              [x \in Present(d) \cup newIds |->
                  IF x \in newIds THEN InsertOf(new, x).parent
                  ELSE d.parent_of[x]],
           children |->
              [p \in Present(d) \cup newIds |->
                  Descending((IF p \in Present(d) THEN Elems(d.children[p])
                              ELSE {}) \cup ChildIds(new, p))],
           buffered_inserts    |-> d.buffered_inserts \ R,
           buffered_insert_ids |-> d.buffered_insert_ids \ newIds,
           buffered_deletes    |-> d.buffered_deletes \ newIds]
    <3> HIDE DEF d
    <3> QED  BY <1>5 DEF Attach
  <2>2. /\ Present(d) = Rooted(O)
        /\ d.elements = RootedElements(O)
        /\ d.tombstones = RemovedBy(O) \cap Rooted(O)
        /\ d.parent_of = RootedParents(O)
        /\ d.children = RootedChildren(O)
        /\ d.buffered_inserts = Waiting(O)
        /\ d.buffered_insert_ids = Ids(Waiting(O))
        /\ d.buffered_deletes = RemovedBy(O) \ Rooted(O)
    BY DocumentFields
  <2> HIDE DEF d, new, newIds, R, P
  <2>3. RootedElements(P) =
           [x \in Present(d) \cup newIds |->
               IF x \in newIds THEN InsertOf(new, x).char ELSE d.elements[x]]
    BY <1>10, <2>2
  <2>4. RootedParents(P) =
           [x \in Present(d) \cup newIds |->
               IF x \in newIds THEN InsertOf(new, x).parent
               ELSE d.parent_of[x]]
    BY <1>11, <2>2
  <2>5. RootedChildren(P) =
           [p \in Present(d) \cup newIds |->
               Descending((IF p \in Present(d) THEN Elems(d.children[p])
                           ELSE {}) \cup ChildIds(new, p))]
    BY <1>13, <2>2
  <2>6. /\ RemovedBy(P) \cap Rooted(P) =
              d.tombstones \cup (newIds \cap d.buffered_deletes)
        /\ Waiting(P) = d.buffered_inserts \ R
        /\ Ids(Waiting(P)) = d.buffered_insert_ids \ newIds
        /\ RemovedBy(P) \ Rooted(P) = d.buffered_deletes \ newIds
    BY <1>7, <1>8, <1>9, <2>2
  <2> QED  BY <2>1, <2>3, <2>4, <2>5, <2>6
<1> QED  BY <1>14, <1>15 DEF DocumentOf

-----------------------------------------------------------------------------
(***************************************************************************)
(* The main lemma: a document that is a function of the operations applied *)
(* to it remains so, whichever legal operation is applied next.            *)
(***************************************************************************)
LEMMA ApplyStep ==
    ASSUME NEW O, NEW op, Legal(O \cup {op})
    PROVE  Apply(DocumentOf(O), op) = DocumentOf(O \cup {op})
<1>1. CASE op \in O
  <2>1. O \cup {op} = O
    BY <1>1
  <2> QED  BY <1>1, <2>1, ApplyRepeated
<1>2. CASE op \notin O /\ IsInsert(op)
  <2>1. op \in InsertOperation
    BY <1>2, OperationFields DEF Legal, Operation
  <2> QED  BY <1>2, <2>1, ApplyBuffer, ApplyAttach
<1>3. CASE ~IsInsert(op)
  BY <1>3, ApplyRemove
<1> QED  BY <1>1, <1>2, <1>3

LEMMA EmptyDocumentOf ==
    DocumentOf({}) = EmptyDocument
<1>1. Inserts({}) = {} /\ RemovedBy({}) = {}
  BY DEF Inserts, RemovedBy
<1>2. Rooted({}) = {ROOT_ID}
  BY <1>1, RootedLeast DEF ChainClosed, Ids
<1>3. ChildIds({}, ROOT_ID) = {}
  BY DEF ChildIds, Ids
<1>4. Descending({}) = <<>>
  BY FS_EmptySet DEF Descending
<1>5. RootedElements({}) = [x \in {ROOT_ID} |-> NUL]
  BY <1>2 DEF RootedElements
<1>6. RootedParents({}) = [x \in {ROOT_ID} |-> ROOT_ID]
  BY <1>2 DEF RootedParents
<1>7. RootedChildren({}) = [x \in {ROOT_ID} |-> <<>>]
  BY <1>1, <1>2, <1>3, <1>4 DEF RootedChildren
<1>8. Waiting({}) = {} /\ Ids({}) = {}
  BY <1>1 DEF Waiting, Ids
<1> QED  BY <1>1, <1>2, <1>5, <1>6, <1>7, <1>8 DEF DocumentOf, EmptyDocument

(***************************************************************************)
(* A document of legal operations is well-typed, and passes the checks of  *)
(* Document::validate and of applyInsert.                                  *)
(***************************************************************************)
LEMMA DocumentOfType ==
    ASSUME NEW O, Legal(O)
    PROVE  IsDocument(DocumentOf(O))
<1> DEFINE d == DocumentOf(O)
<1>1. Inserts(O) \subseteq InsertOperation /\ RemovedBy(O) \subseteq ElementID
  BY OperationFields DEF Legal
<1>2. Rooted(O) \subseteq ElementID
  BY <1>1, RootedLeast, OperationFields DEF Ids, ElementID
<1>3. ASSUME NEW x \in Rooted(O), x # ROOT_ID
      PROVE  /\ InsertOf(Inserts(O), x).char \in Char
             /\ InsertOf(Inserts(O), x).parent \in Rooted(O)
  <2>1. PICK o \in Inserts(O) : o.id = x /\ o.parent \in Rooted(O)
    BY <1>3, RootedParent
  <2>2. InsertOf(Inserts(O), x) = o
    BY <2>1, LegalSubset
  <2> QED  BY <1>1, <2>1, <2>2, OperationFields
<1>4. RootedElements(O) \in [Rooted(O) -> Char \cup {NUL}]
  BY <1>3 DEF RootedElements
<1>5. RootedParents(O) \in [Rooted(O) -> Rooted(O)]
  BY <1>3 DEF RootedParents
<1>6. RootedChildren(O) \in [Rooted(O) -> Seq(Rooted(O))]
  <2>1. ASSUME NEW p \in Rooted(O)
        PROVE  Descending(ChildIds(Inserts(O), p)) \in Seq(Rooted(O))
    <3>1. ChildIds(Inserts(O), p) \subseteq Rooted(O)
      BY <2>1, RootedLeast DEF ChildIds, Ids, ChainClosed
    <3>2. /\ ChildIds(Inserts(O), p) \in SUBSET ElementID
          /\ IsFiniteSet(ChildIds(Inserts(O), p))
      BY ChildIdsListed DEF ElementID
    <3>3. Descending(ChildIds(Inserts(O), p)) \in
             Seq(ChildIds(Inserts(O), p))
      BY <3>2, DescendingLists
    <3> QED  BY <3>1, <3>3
  <2> QED  BY <2>1 DEF RootedChildren
<1>7. Waiting(O) \subseteq InsertOperation /\ Ids(Waiting(O)) \subseteq GeneratedID
  BY <1>1, OperationFields DEF Waiting, Ids
<1>8. d = [elements            |-> d.elements,
           tombstones          |-> d.tombstones,
           parent_of           |-> d.parent_of,
           children            |-> d.children,
           buffered_inserts    |-> d.buffered_inserts,
           buffered_insert_ids |-> d.buffered_insert_ids,
           buffered_deletes    |-> d.buffered_deletes]
  BY DEF DocumentOf
<1> QED  BY <1>1, <1>2, <1>4, <1>5, <1>6, <1>7, <1>8, DocumentFields
         DEF IsDocument

LEMMA DocumentOfIsValid ==
    ASSUME NEW O, Legal(O)
    PROVE  TreeIsValid(DocumentOf(O)) /\ BuffersAreValid(DocumentOf(O))
<1> DEFINE d == DocumentOf(O)
<1>1. /\ DOMAIN d.children = Rooted(O)
      /\ DOMAIN d.parent_of = Rooted(O)
      /\ ROOT_ID \in Rooted(O)
  BY DocumentFields, RootedLeast DEF RootedChildren, RootedParents, ChainClosed
<1>2. ASSUME NEW p \in Rooted(O), NEW x \in Elems(d.children[p])
      PROVE  x \in Rooted(O) /\ d.parent_of[x] = p
  <2>1. x \in ChildIds(Inserts(O), p)
    BY <1>2, DocumentFields, ChildIdsListed DEF RootedChildren
  <2>2. PICK o \in Inserts(O) : o.id = x /\ o.parent = p
    BY <2>1 DEF ChildIds, Ids
  <2>3. x \in Rooted(O) /\ x # ROOT_ID
    BY <1>2, <2>2, RootedLeast, LegalSubset, OperationFields,
       GeneratedIsNotRoot DEF ChainClosed
  <2>4. InsertOf(Inserts(O), x) = o
    BY <2>2, LegalSubset
  <2>5. RootedParents(O)[x] = p
    BY <2>2, <2>3, <2>4 DEF RootedParents
  <2> QED  BY <2>3, <2>5, DocumentFields
<1>3. TreeIsValid(d)
  BY <1>1, <1>2, DocumentFields DEF TreeIsValid
<1>4. BuffersAreValid(d)
  <2>1. \A b \in Waiting(O) : b.parent \notin Rooted(O) /\ b.id \notin Rooted(O)
    BY RootedLeast DEF Waiting, ChainClosed
  <2> QED  BY <2>1, DocumentFields DEF BuffersAreValid
<1> QED  BY <1>3, <1>4

(***************************************************************************)
(* Operations that name only elements issued with them, each insertion a   *)
(* parent older than itself, leave nothing waiting.                        *)
(***************************************************************************)
LEMMA CausalRooted ==
    ASSUME NEW O, Legal(O), Causal(O)
    PROVE  /\ Rooted(O) = {ROOT_ID} \cup Ids(Inserts(O))
           /\ Waiting(O) = {}
           /\ RemovedBy(O) \subseteq Rooted(O)
<1> DEFINE T == {o.id[1] : o \in Waiting(O)}
<1>1. Inserts(O) \subseteq InsertOperation
  BY OperationFields DEF Legal
<1>2. T \subseteq Nat
  <2>1. \A o \in Waiting(O) : o.id \in ElementID
    BY <1>1, OperationFields DEF Waiting, ElementID
  <2> QED  BY <2>1, IdParts
<1>3. Waiting(O) = {}
  <2> SUFFICES ASSUME Waiting(O) # {}
               PROVE  FALSE
    OBVIOUS
  <2>1. T # {}
    OBVIOUS
  <2>2. PICK m \in T : \A n \in T : ~(<<n, m>> \in OpToRel(<, Nat))
    BY <1>2, <2>1, WFMin, NatLessThanWellFounded
  <2>3. \A n \in T : ~(n < m)
    BY <1>2, <2>2 DEF OpToRel
  <2>4. PICK o \in Waiting(O) : o.id[1] = m
    OBVIOUS
  <2>5. o \in Inserts(O) /\ o.parent \notin Rooted(O)
    BY RootedLeast DEF Waiting, ChainClosed
  <2>6. PICK q \in Inserts(O) : q.id = o.parent
    BY <2>5, RootedLeast DEF Causal, Ids, ChainClosed
  <2>7. q \in Waiting(O) /\ q.id[1] < o.id[1]
    BY <2>5, <2>6 DEF Causal, Waiting
  <2> QED  BY <2>3, <2>4, <2>7
<1>4. Ids(Inserts(O)) \subseteq Rooted(O)
  BY <1>3 DEF Ids, Waiting
<1> QED  BY <1>3, <1>4, RootedLeast DEF Causal, ChainClosed

-----------------------------------------------------------------------------
(***************************************************************************)
(* Induction and recursion.                                                *)
(***************************************************************************)

(***************************************************************************)
(* A function that calls itself on the next element, where that is         *)
(* smaller by some measure, exists.                                        *)
(***************************************************************************)
Descends(S, more, next, m, N) ==
    /\ \A x \in S : m[x] \in 0..N
    /\ \A x \in S : x \in more => next[x] \in S /\ m[next[x]] < m[x]

HasLimit(S, more, next, val) ==
    \E f : \A x \in S : f[x] = IF x \in more THEN f[next[x]] ELSE val[x]

LEMMA Iterates ==
    ASSUME NEW S, NEW more, NEW next, NEW val, NEW m, NEW N \in Nat,
           Descends(S, more, next, m, N)
    PROVE  HasLimit(S, more, next, val)
<1> USE DEF Descends, HasLimit
<1> DEFINE below(n) == {x \in S : m[x] < n}
           Good(n) == \E f : f = [x \in below(n) |->
                                    IF x \in more THEN f[next[x]] ELSE val[x]]
           T == {n \in Nat : Good(n)}
<1>1. 0 \in T
  <2> DEFINE f0 == [x \in below(0) |-> val[x]]
  <2>1. f0 = [x \in below(0) |-> IF x \in more THEN f0[next[x]] ELSE val[x]]
    OBVIOUS
  <2> QED  BY <2>1
<1>2. ASSUME NEW n \in Nat, n \in T
      PROVE  n + 1 \in T
  <2>1. PICK f : f = [x \in below(n) |->
                         IF x \in more THEN f[next[x]] ELSE val[x]]
    BY <1>2
  <2> DEFINE g == [x \in below(n + 1) |->
                      IF x \in more THEN f[next[x]] ELSE val[x]]
  <2>2. ASSUME NEW x \in below(n + 1), x \in more
        PROVE  f[next[x]] = g[next[x]]
    <3>1. next[x] \in below(n) /\ next[x] \in below(n + 1)
      BY <2>2
    <3>2. f[next[x]] = IF next[x] \in more THEN f[next[next[x]]]
                       ELSE val[next[x]]
      BY <2>1, <3>1
    <3> QED  BY <3>1, <3>2
  <2>3. g = [x \in below(n + 1) |->
                IF x \in more THEN g[next[x]] ELSE val[x]]
    BY <2>2
  <2>4. Good(n + 1)
    BY <2>3
  <2> QED  BY <2>4
<1>3. N + 1 \in T
  BY <1>1, <1>2, NatSetInduction
<1>4. below(N + 1) = S
  OBVIOUS
<1> QED  BY <1>3, <1>4

-----------------------------------------------------------------------------
(***************************************************************************)
(* The tree of a document.                                                 *)
(***************************************************************************)
IsTree(d) ==
    LET present == Present(d)
    IN  /\ IsFiniteSet(present)
        /\ present \subseteq ElementID
        /\ ROOT_ID \in present
        /\ d.parent_of \in [present -> present]
        /\ d.parent_of[ROOT_ID] = ROOT_ID
        /\ \A x \in present \ {ROOT_ID} : d.parent_of[x][1] < x[1]
        /\ d.children \in [present -> Seq(present)]
        /\ \A p \in present : Elems(d.children[p]) =
              {x \in present \ {ROOT_ID} : d.parent_of[x] = p}
        /\ \A p \in present : \A i, j \in DOMAIN d.children[p] :
              i < j => Greater(d.children[p][i], d.children[p][j])
        /\ d.tombstones \subseteq present

\* A set of elements that holds the parent of each of its elements.
ParentClosed(d, S) == \A x \in S : d.parent_of[x] \in S

\* The element, its parent, and so on up to the root.
Ancestors(d, x) ==
    {y \in Present(d) : \A S \in SUBSET Present(d) :
        x \in S /\ ParentClosed(d, S) => y \in S}

\* Siblings, the first of which stands before the second.
LeftOf(d, a, b) ==
    /\ ROOT_ID \notin {a, b}
    /\ d.parent_of[a] = d.parent_of[b]
    /\ Greater(a, b)

\* What the walk has visited when it reaches x.
UpTo(d, x) ==
    {y \in Present(d) :
        \/ y \in Ancestors(d, x)
        \/ \E a \in Ancestors(d, y), b \in Ancestors(d, x) : LeftOf(d, a, b)}

\* Whatever holds of the root, and of an element when it holds of its parent,
\* holds of every element of a tree.
LEMMA TreeInduction ==
    ASSUME NEW d, IsTree(d), NEW S, ROOT_ID \in S,
           \A x \in Present(d) \ {ROOT_ID} : d.parent_of[x] \in S => x \in S
    PROVE  Present(d) \subseteq S
<1> DEFINE missing == Present(d) \ S
           m == [x \in missing |-> x[1]]
<1> SUFFICES ASSUME missing # {}
             PROVE  FALSE
  OBVIOUS
<1>1. \A x \in Present(d) : x[1] \in Nat
  BY IdParts DEF IsTree
<1>2. \A x \in missing : m[x] \in Nat
  BY <1>1
<1> HIDE DEF m
<1>3. PICK x \in missing : \A y \in missing : m[x] <= m[y]
  BY <1>2, LeastMeasure
<1>4. x \in Present(d) \ {ROOT_ID} /\ d.parent_of[x] \in missing
  BY <1>3 DEF IsTree
<1>5. d.parent_of[x][1] < x[1] /\ x[1] <= d.parent_of[x][1]
  BY <1>3, <1>4 DEF m, IsTree
<1> QED  BY <1>1, <1>4, <1>5

LEMMA AncestorsOf ==
    ASSUME NEW d, IsTree(d), NEW x \in Present(d)
    PROVE  /\ x \in Ancestors(d, x)
           /\ Ancestors(d, x) \subseteq Present(d)
           /\ ParentClosed(d, Ancestors(d, x))
           /\ \A S \in SUBSET Present(d) :
                 x \in S /\ ParentClosed(d, S) => Ancestors(d, x) \subseteq S
BY DEF Ancestors, ParentClosed, IsTree

LEMMA AncestorsOfRoot ==
    ASSUME NEW d, IsTree(d)
    PROVE  Ancestors(d, ROOT_ID) = {ROOT_ID}
<1>1. ParentClosed(d, {ROOT_ID}) /\ {ROOT_ID} \subseteq Present(d)
  BY DEF IsTree, ParentClosed
<1>2. ROOT_ID \in Present(d)
  BY DEF IsTree
<1> QED  BY <1>1, <1>2, AncestorsOf

LEMMA AncestorsOfChild ==
    ASSUME NEW d, IsTree(d), NEW x \in Present(d), x # ROOT_ID
    PROVE  Ancestors(d, x) = {x} \cup Ancestors(d, d.parent_of[x])
<1> DEFINE p == d.parent_of[x]
           S == {x} \cup Ancestors(d, p)
<1>1. p \in Present(d)
  BY DEF IsTree
<1>2. Ancestors(d, x) \subseteq S
  <2>1. ParentClosed(d, S) /\ S \in SUBSET Present(d)
    BY <1>1, AncestorsOf DEF ParentClosed
  <2> QED  BY <2>1, AncestorsOf
<1>3. Ancestors(d, p) \subseteq Ancestors(d, x)
  <2>1. p \in Ancestors(d, x)
    BY AncestorsOf DEF ParentClosed
  <2> QED  BY <1>1, <2>1, AncestorsOf
<1> QED  BY <1>2, <1>3, AncestorsOf

\* The ancestors of an ancestor are ancestors, and older.
LEMMA AncestorsWithin ==
    ASSUME NEW d, IsTree(d), NEW x \in Present(d), NEW a \in Ancestors(d, x)
    PROVE  /\ a \in Present(d)
           /\ Ancestors(d, a) \subseteq Ancestors(d, x)
           /\ a = x \/ a[1] < x[1]
<1>1. a \in Present(d)
  BY AncestorsOf
<1>2. Ancestors(d, a) \subseteq Ancestors(d, x)
  BY <1>1, AncestorsOf
<1>3. a = x \/ a[1] < x[1]
  <2> DEFINE S == {y \in Present(d) : y = x \/ y[1] < x[1]}
  <2>1. \A y \in Present(d) : y[1] \in Nat
    BY IdParts DEF IsTree
  <2>2. ASSUME NEW y \in S PROVE d.parent_of[y] \in S
    <3>1. d.parent_of[y] \in Present(d)
      BY DEF IsTree
    <3>2. CASE y = ROOT_ID
      BY <3>2 DEF IsTree
    <3>3. CASE y # ROOT_ID
      <4>1. d.parent_of[y][1] < y[1]
        BY <3>3 DEF IsTree
      <4> QED  BY <2>1, <3>1, <4>1
    <3> QED  BY <3>2, <3>3
  <2>3. ParentClosed(d, S) /\ S \in SUBSET Present(d) /\ x \in S
    BY <2>2 DEF ParentClosed
  <2> QED  BY <2>3, AncestorsOf
<1> QED  BY <1>1, <1>2, <1>3

\* Of two ancestors of an element, one is an ancestor of the other.
LEMMA AncestorsAreAChain ==
    ASSUME NEW d, IsTree(d), NEW x \in Present(d),
           NEW a \in Ancestors(d, x), NEW b \in Ancestors(d, x)
    PROVE  a \in Ancestors(d, b) \/ b \in Ancestors(d, a)
<1> DEFINE Chain(y) == \A u, v \in Ancestors(d, y) :
                          u \in Ancestors(d, v) \/ v \in Ancestors(d, u)
           S == {y \in Present(d) : Chain(y)}
<1>1. ROOT_ID \in S
  <2>1. ROOT_ID \in Present(d)
    BY DEF IsTree
  <2> QED  BY <2>1, AncestorsOfRoot
<1>2. ASSUME NEW y \in Present(d) \ {ROOT_ID}, d.parent_of[y] \in S
      PROVE  y \in S
  <2>1. Ancestors(d, y) = {y} \cup Ancestors(d, d.parent_of[y])
    BY AncestorsOfChild
  <2>2. y \in Ancestors(d, y)
    BY AncestorsOf
  <2> QED  BY <1>2, <2>1, <2>2
<1> HIDE DEF S
<1>3. Present(d) \subseteq S
  BY <1>1, <1>2, TreeInduction
<1> QED  BY <1>3 DEF S

\* The elements of a tree have sane clocks, and their parents are there.
LEMMA TreeParts ==
    ASSUME NEW d, IsTree(d), NEW x \in Present(d)
    PROVE  /\ x \in ElementID /\ x[1] \in Nat
           /\ d.parent_of[x] \in Present(d)
           /\ x # ROOT_ID => d.parent_of[x][1] < x[1]
           /\ Ancestors(d, d.parent_of[x]) \subseteq Ancestors(d, x)
<1>1. x \in ElementID /\ x[1] \in Nat
  BY IdParts DEF IsTree
<1>2. d.parent_of[x] \in Present(d) /\ (x # ROOT_ID => d.parent_of[x][1] < x[1])
  BY DEF IsTree
<1>3. Ancestors(d, d.parent_of[x]) \subseteq Ancestors(d, x)
  <2>1. d.parent_of[x] \in Ancestors(d, x)
    BY AncestorsOf DEF ParentClosed
  <2> QED  BY <2>1, AncestorsWithin
<1> QED  BY <1>1, <1>2, <1>3

\* Siblings have no descendant in common.
LEMMA SiblingsPart ==
    ASSUME NEW d, IsTree(d), NEW x \in Present(d),
           NEW a \in Ancestors(d, x), NEW b \in Ancestors(d, x),
           a # ROOT_ID, b # ROOT_ID, d.parent_of[a] = d.parent_of[b]
    PROVE  a = b
<1> SUFFICES ASSUME NEW u \in {a, b}, NEW v \in {a, b}, u \in Ancestors(d, v),
                    u # v
             PROVE  FALSE
  BY AncestorsAreAChain
<1>1. /\ u \in Present(d) /\ v \in Present(d) /\ v # ROOT_ID /\ u # ROOT_ID
      /\ d.parent_of[u] = d.parent_of[v]
  BY AncestorsWithin
<1>2. u \in Ancestors(d, d.parent_of[v])
  BY <1>1, AncestorsOfChild
<1>3. u = d.parent_of[v] \/ u[1] < d.parent_of[v][1]
  BY <1>1, <1>2, TreeParts, AncestorsWithin
<1>4. d.parent_of[u][1] < u[1] /\ u[1] \in Nat /\ d.parent_of[v][1] \in Nat
  BY <1>1, TreeParts
<1> QED  BY <1>1, <1>3, <1>4

\* The walk reaches the parent first, having visited less.
LEMMA UpToParent ==
    ASSUME NEW d, IsTree(d), NEW x \in Present(d), x # ROOT_ID
    PROVE  /\ UpTo(d, d.parent_of[x]) \subseteq UpTo(d, x)
           /\ x \in UpTo(d, x)
           /\ x \notin UpTo(d, d.parent_of[x])
<1> DEFINE p == d.parent_of[x]
<1>1. p \in Present(d) /\ Ancestors(d, p) \subseteq Ancestors(d, x)
  BY TreeParts
<1>2. UpTo(d, p) \subseteq UpTo(d, x)
  BY <1>1 DEF UpTo
<1>3. x \in UpTo(d, x)
  BY AncestorsOf DEF UpTo
<1>4. x \notin Ancestors(d, p)
  <2> SUFFICES ASSUME x \in Ancestors(d, p) PROVE FALSE
    OBVIOUS
  <2>1. x = p \/ x[1] < p[1]
    BY <1>1, AncestorsWithin
  <2> QED  BY <1>1, <2>1, TreeParts
<1>5. ASSUME NEW a \in Ancestors(d, x), NEW b \in Ancestors(d, p),
             LeftOf(d, a, b)
      PROVE  FALSE
  <2>1. b \in Ancestors(d, x) /\ a # ROOT_ID /\ b # ROOT_ID
    BY <1>1, <1>5 DEF LeftOf
  <2>2. a = b
    BY <1>5, <2>1, SiblingsPart DEF LeftOf
  <2>3. a \in ElementID
    BY AncestorsWithin, TreeParts
  <2> QED  BY <1>5, <2>2, <2>3, GreaterIrreflexive DEF LeftOf
<1> QED  BY <1>2, <1>3, <1>4, <1>5 DEF UpTo

\* LeftOf is a strict order on siblings.
LEMMA LeftOfOrders ==
    ASSUME NEW d, IsTree(d), NEW a \in Present(d), NEW b \in Present(d)
    PROVE  /\ ~LeftOf(d, a, a)
           /\ ~(LeftOf(d, a, b) /\ LeftOf(d, b, a))
           /\ \A c \in Present(d) :
                 LeftOf(d, a, b) /\ LeftOf(d, b, c) => LeftOf(d, a, c)
<1>1. \A x \in Present(d) : x \in ElementID
  BY TreeParts
<1> QED  BY <1>1, GreaterIrreflexive, GreaterTransitive DEF LeftOf

\* Before it reaches an element, the walk has been everywhere below the
\* siblings on its left.
LEMMA UpToSibling ==
    ASSUME NEW d, IsTree(d), NEW x \in Present(d), NEW z \in Present(d),
           NEW a \in Ancestors(d, x), LeftOf(d, a, z)
    PROVE  /\ UpTo(d, x) \subseteq UpTo(d, z)
           /\ z \in UpTo(d, z)
           /\ z \notin UpTo(d, x)
<1> DEFINE q == d.parent_of[z]
<1>1. /\ a \in Present(d) /\ a # ROOT_ID /\ z # ROOT_ID /\ d.parent_of[a] = q
      /\ q \in Present(d)
  BY AncestorsWithin, TreeParts DEF LeftOf
<1>2. /\ Ancestors(d, a) = {a} \cup Ancestors(d, q)
      /\ Ancestors(d, z) = {z} \cup Ancestors(d, q)
      /\ Ancestors(d, a) \subseteq Ancestors(d, x)
      /\ z \in Ancestors(d, z) /\ a \in Ancestors(d, a)
  BY <1>1, AncestorsOfChild, AncestorsOf, AncestorsWithin
<1>3. ASSUME NEW y \in UpTo(d, x)
      PROVE  y \in UpTo(d, z)
  <2>0. y \in Present(d)
    BY DEF UpTo
  <2>1. CASE y \in Ancestors(d, x)
    <3>1. y \in Ancestors(d, a) \/ a \in Ancestors(d, y)
      BY <2>1, AncestorsAreAChain
    <3> QED  BY <1>1, <1>2, <2>0, <3>1 DEF UpTo
  <2>2. ASSUME NEW c \in Ancestors(d, y), NEW e \in Ancestors(d, x),
               LeftOf(d, c, e)
        PROVE  y \in UpTo(d, z)
    <3>1. /\ c \in Present(d) /\ e \in Present(d)
          /\ c # ROOT_ID /\ e # ROOT_ID /\ d.parent_of[c] = d.parent_of[e]
      BY <2>0, <2>2, AncestorsWithin DEF LeftOf
    <3>2. CASE e = a
      <4>1. LeftOf(d, c, z)
        BY <1>1, <2>2, <3>1, <3>2, LeftOfOrders
      <4> QED  BY <1>2, <2>0, <2>2, <4>1 DEF UpTo
    <3>3. CASE e # a /\ e \in Ancestors(d, a)
      BY <1>2, <2>0, <2>2, <3>3 DEF UpTo
    <3>4. CASE e # a /\ a \in Ancestors(d, e)
      <4>1. Ancestors(d, e) = {e} \cup Ancestors(d, d.parent_of[e])
        BY <3>1, AncestorsOfChild
      <4>2. a \in Ancestors(d, d.parent_of[c])
        BY <3>1, <3>4, <4>1
      <4>3. a \in Ancestors(d, y)
        BY <2>0, <3>1, <4>2, TreeParts, AncestorsWithin
      <4> QED  BY <1>2, <2>0, <4>3 DEF UpTo
    <3> QED  BY <3>2, <3>3, <3>4, AncestorsAreAChain
  <2> QED  BY <2>1, <2>2 DEF UpTo
<1>4. z \in UpTo(d, z)
  BY <1>2 DEF UpTo
<1>5. z \notin Ancestors(d, x)
  <2> SUFFICES ASSUME z \in Ancestors(d, x) PROVE FALSE
    OBVIOUS
  <2>1. a = z
    BY <1>1, SiblingsPart
  <2> QED  BY <1>1, <2>1, LeftOfOrders
<1>6. ASSUME NEW c \in Ancestors(d, z), NEW e \in Ancestors(d, x),
             LeftOf(d, c, e)
      PROVE  FALSE
  <2>1. c \in Present(d) /\ e \in Present(d)
    BY AncestorsWithin
  <2>2. c # ROOT_ID /\ e # ROOT_ID /\ d.parent_of[c] = d.parent_of[e]
    BY <1>6 DEF LeftOf
  <2>3. CASE c = z
    <3>1. e = a
      BY <1>1, <2>2, <2>3, SiblingsPart
    <3> QED  BY <1>1, <1>6, <2>3, <3>1, LeftOfOrders
  <2>4. CASE c \in Ancestors(d, q)
    <3>1. c \in Ancestors(d, x)
      BY <1>2, <2>4
    <3>2. c = e
      BY <2>2, <3>1, SiblingsPart
    <3> QED  BY <1>6, <2>1, <3>2, LeftOfOrders
  <2> QED  BY <1>2, <2>3, <2>4
<1> QED  BY <1>3, <1>4, <1>5, <1>6 DEF UpTo

-----------------------------------------------------------------------------
(***************************************************************************)
(* The order in which the walk visits the elements: y is visited no later  *)
(* than x when it is in UpTo(d, x).  It is a total order.                  *)
(***************************************************************************)
LEMMA UpToTransitive ==
    ASSUME NEW d, IsTree(d), NEW x \in Present(d), NEW y \in UpTo(d, x)
    PROVE  y \in Present(d) /\ UpTo(d, y) \subseteq UpTo(d, x)
<1>1. y \in Present(d)
  BY DEF UpTo
<1>2. ASSUME NEW b \in Ancestors(d, x) PROVE UpTo(d, b) \subseteq UpTo(d, x)
  <2>1. Ancestors(d, b) \subseteq Ancestors(d, x)
    BY AncestorsWithin
  <2> QED  BY <2>1 DEF UpTo
<1>3. ASSUME NEW a \in Ancestors(d, y), NEW b \in Ancestors(d, x),
             LeftOf(d, a, b)
      PROVE  UpTo(d, y) \subseteq UpTo(d, x)
  <2>1. b \in Present(d)
    BY AncestorsWithin
  <2>2. UpTo(d, y) \subseteq UpTo(d, b)
    BY <1>1, <1>3, <2>1, UpToSibling
  <2> QED  BY <1>2, <2>2
<1> QED  BY <1>1, <1>2, <1>3 DEF UpTo

LEMMA UpToAntisymmetric ==
    ASSUME NEW d, IsTree(d), NEW x \in Present(d), NEW y \in UpTo(d, x),
           y # x
    PROVE  x \notin UpTo(d, y)
<1>1. y \in Present(d)
  BY DEF UpTo
<1>2. CASE y \in Ancestors(d, x)
  <2>1. x # ROOT_ID
    BY <1>2, AncestorsOfRoot
  <2>2. y \in Ancestors(d, d.parent_of[x])
    BY <1>2, <2>1, AncestorsOfChild
  <2>3. y \in UpTo(d, d.parent_of[x]) /\ d.parent_of[x] \in Present(d)
    BY <1>1, <2>2, TreeParts DEF UpTo
  <2>4. UpTo(d, y) \subseteq UpTo(d, d.parent_of[x])
    BY <2>3, UpToTransitive
  <2> QED  BY <2>1, <2>4, UpToParent
<1>3. ASSUME NEW a \in Ancestors(d, y), NEW b \in Ancestors(d, x),
             LeftOf(d, a, b), x \in UpTo(d, y)
      PROVE  FALSE
  <2>1. b \in Present(d)
    BY AncestorsWithin
  <2>2. b \notin UpTo(d, y)
    BY <1>1, <1>3, <2>1, UpToSibling
  <2>3. b \in UpTo(d, x) /\ UpTo(d, x) \subseteq UpTo(d, y)
    BY <1>1, <1>3, <2>1, UpToTransitive DEF UpTo
  <2> QED  BY <2>2, <2>3
<1> QED  BY <1>2, <1>3 DEF UpTo

\* Below an element lies one of its children.
LEMMA ChildOnTheWay ==
    ASSUME NEW d, IsTree(d), NEW x \in Present(d), NEW a \in Ancestors(d, x),
           x # a
    PROVE  \E c \in Present(d) \ {ROOT_ID} :
              d.parent_of[c] = a /\ c \in Ancestors(d, x)
<1> DEFINE Found(y) == \E c \in Present(d) \ {ROOT_ID} :
                          d.parent_of[c] = a /\ c \in Ancestors(d, y)
           S == {y \in Present(d) : a \in Ancestors(d, y) /\ y # a => Found(y)}
<1>1. ROOT_ID \in S
  <2>1. ROOT_ID \in Present(d)
    BY DEF IsTree
  <2> QED  BY <2>1, AncestorsOfRoot
<1>2. ASSUME NEW y \in Present(d) \ {ROOT_ID}, d.parent_of[y] \in S
      PROVE  y \in S
  <2> SUFFICES ASSUME a \in Ancestors(d, y), y # a
               PROVE  Found(y)
    OBVIOUS
  <2>1. /\ Ancestors(d, y) = {y} \cup Ancestors(d, d.parent_of[y])
        /\ y \in Ancestors(d, y)
    BY AncestorsOfChild, AncestorsOf
  <2>2. CASE d.parent_of[y] = a
    BY <2>1, <2>2
  <2>3. CASE d.parent_of[y] # a
    BY <1>2, <2>1, <2>3
  <2> QED  BY <2>2, <2>3
<1> HIDE DEF S
<1>3. Present(d) \subseteq S
  BY <1>1, <1>2, TreeInduction
<1> QED  BY <1>3 DEF S

LEMMA UpToTotal ==
    ASSUME NEW d, IsTree(d), NEW x \in Present(d), NEW y \in Present(d)
    PROVE  x \in UpTo(d, y) \/ y \in UpTo(d, x)
<1> DEFINE S == {u \in Present(d) :
                    \A v \in Present(d) : u \in UpTo(d, v) \/ v \in UpTo(d, u)}
<1>1. ROOT_ID \in S
  <2> DEFINE R == {v \in Present(d) : ROOT_ID \in Ancestors(d, v)}
  <2>1. ROOT_ID \in Present(d)
    BY DEF IsTree
  <2>2. ROOT_ID \in R
    BY <2>1, AncestorsOf
  <2>3. ASSUME NEW v \in Present(d) \ {ROOT_ID}, d.parent_of[v] \in R
        PROVE  v \in R
    BY <2>3, AncestorsOfChild
  <2> HIDE DEF R
  <2>4. Present(d) \subseteq R
    BY <2>2, <2>3, TreeInduction
  <2> QED  BY <2>1, <2>4 DEF R, UpTo
<1>2. ASSUME NEW u \in Present(d) \ {ROOT_ID}, d.parent_of[u] \in S
      PROVE  u \in S
  <2> DEFINE p == d.parent_of[u]
  <2> SUFFICES ASSUME NEW v \in Present(d)
               PROVE  u \in UpTo(d, v) \/ v \in UpTo(d, u)
    OBVIOUS
  <2>1. /\ p \in Present(d) /\ Ancestors(d, p) \subseteq Ancestors(d, u)
        /\ UpTo(d, p) \subseteq UpTo(d, u)
        /\ u \in Ancestors(d, u)
    BY TreeParts, UpToParent, AncestorsOf
  <2>2. CASE v \in UpTo(d, p)
    BY <2>1, <2>2
  <2>3. CASE \E a \in Ancestors(d, p), b \in Ancestors(d, v) : LeftOf(d, a, b)
    BY <2>1, <2>3 DEF UpTo
  <2>4. CASE v = p
    BY <2>1, <2>4, AncestorsOf DEF UpTo
  <2>5. CASE p \in Ancestors(d, v) /\ v # p
    <3>1. PICK c \in Present(d) \ {ROOT_ID} :
             d.parent_of[c] = p /\ c \in Ancestors(d, v)
      BY <2>5, ChildOnTheWay
    <3>2. c = u \/ LeftOf(d, c, u) \/ LeftOf(d, u, c)
      <4>1. c \in ElementID /\ u \in ElementID
        BY TreeParts
      <4> QED  BY <3>1, <4>1, GreaterTotal DEF LeftOf
    <3> QED  BY <2>1, <3>1, <3>2 DEF UpTo
  <2>6. v \in UpTo(d, p) \/ p \in UpTo(d, v)
    BY <1>2
  <2> QED  BY <2>2, <2>3, <2>4, <2>5, <2>6 DEF UpTo
<1> HIDE DEF S
<1>3. Present(d) \subseteq S
  BY <1>1, <1>2, TreeInduction
<1> QED  BY <1>3 DEF S

-----------------------------------------------------------------------------
(***************************************************************************)
(* The place of an element in the walk, the measure of the recursions.     *)
(***************************************************************************)
Rank(d) == [x \in Present(d) |-> Cardinality(UpTo(d, x))]

LEMMA RankType ==
    ASSUME NEW d, IsTree(d)
    PROVE  /\ Cardinality(Present(d)) \in Nat
           /\ \A x \in Present(d) : /\ IsFiniteSet(UpTo(d, x))
                                    /\ Rank(d)[x] = Cardinality(UpTo(d, x))
                                    /\ Rank(d)[x] \in 0..Cardinality(Present(d))
<1>1. IsFiniteSet(Present(d))
  BY DEF IsTree
<1>2. Cardinality(Present(d)) \in Nat
  BY <1>1, FS_CardinalityType
<1>3. ASSUME NEW x \in Present(d)
      PROVE  /\ IsFiniteSet(UpTo(d, x))
             /\ Cardinality(UpTo(d, x)) \in 0..Cardinality(Present(d))
  <2>1. UpTo(d, x) \subseteq Present(d)
    BY DEF UpTo
  <2>2. /\ IsFiniteSet(UpTo(d, x))
        /\ Cardinality(UpTo(d, x)) <= Cardinality(Present(d))
    BY <1>1, <2>1, FS_Subset
  <2> QED  BY <1>2, <2>2, FS_CardinalityType
<1> QED  BY <1>2, <1>3 DEF Rank

LEMMA RankGrows ==
    ASSUME NEW d, IsTree(d), NEW x \in Present(d), NEW y \in UpTo(d, x), y # x
    PROVE  Rank(d)[y] < Rank(d)[x]
<1>1. y \in Present(d) /\ UpTo(d, y) \subseteq UpTo(d, x)
  BY UpToTransitive
<1>2. x \in UpTo(d, x) /\ x \notin UpTo(d, y)
  BY UpToAntisymmetric, AncestorsOf DEF UpTo
<1>3. IsFiniteSet(UpTo(d, x)) /\ IsFiniteSet(UpTo(d, y))
  BY <1>1, RankType
<1>4. Cardinality(UpTo(d, y)) < Cardinality(UpTo(d, x))
  BY <1>1, <1>2, <1>3, FS_Subset, FS_CardinalityType
<1> QED  BY <1>1, <1>4, RankType

-----------------------------------------------------------------------------
(***************************************************************************)
(* The neighbours of an element.                                           *)
(***************************************************************************)
LEMMA ChildList ==
    ASSUME NEW d, IsTree(d), NEW p \in Present(d)
    PROVE  LET c == d.children[p]
           IN  /\ c \in Seq(Present(d))
               /\ Len(c) \in Nat
               /\ \A j \in 1..Len(c) : /\ c[j] \in Present(d) \ {ROOT_ID}
                                       /\ d.parent_of[c[j]] = p
               /\ \A j, k \in 1..Len(c) : j < k => LeftOf(d, c[j], c[k])
               /\ \A x \in Present(d) \ {ROOT_ID} :
                     d.parent_of[x] = p => \E j \in 1..Len(c) : c[j] = x
<1> DEFINE c == d.children[p]
<1>1. c \in Seq(Present(d))
  BY DEF IsTree
<1>2. Elems(c) = {x \in Present(d) \ {ROOT_ID} : d.parent_of[x] = p}
  BY DEF IsTree
<1>3. \A i, j \in DOMAIN c : i < j => Greater(c[i], c[j])
  BY DEF IsTree
<1> HIDE DEF c
<1>4. Len(c) \in Nat /\ DOMAIN c = 1..Len(c)
  BY <1>1
<1>5. \A j \in 1..Len(c) : c[j] \in Present(d) \ {ROOT_ID} /\ d.parent_of[c[j]] = p
  BY <1>2, <1>4 DEF Elems
<1>6. \A x \in Present(d) \ {ROOT_ID} :
         d.parent_of[x] = p => \E j \in 1..Len(c) : c[j] = x
  BY <1>2, <1>4 DEF Elems
<1>7. \A j, k \in 1..Len(c) : j < k => LeftOf(d, c[j], c[k])
  BY <1>3, <1>4, <1>5 DEF LeftOf
<1> QED  BY <1>1, <1>4, <1>5, <1>6, <1>7 DEF c

LEMMA PlaceAmongSiblings ==
    ASSUME NEW d, IsTree(d), NEW x \in Present(d), x # ROOT_ID
    PROVE  LET c == d.children[d.parent_of[x]]
           IN  IndexIn(c, x) \in 1..Len(c) /\ c[IndexIn(c, x)] = x
<1> DEFINE c == d.children[d.parent_of[x]]
<1>1. d.parent_of[x] \in Present(d)
  BY TreeParts
<1>2. /\ c \in Seq(Present(d))
      /\ \E j \in 1..Len(c) : c[j] = x
  BY <1>1, ChildList
<1> HIDE DEF c
<1>3. \E j \in DOMAIN c : c[j] = x
  BY <1>2
<1>4. IndexIn(c, x) \in DOMAIN c /\ c[IndexIn(c, x)] = x
  BY <1>3 DEF IndexIn
<1>5. DOMAIN c = 1..Len(c)
  BY <1>2
<1> QED  BY <1>4, <1>5 DEF c

\* Where the walk of an element and of what is below it ends.
LastBelow(d) ==
    CHOOSE f : f = [x \in Present(d) |->
                       IF d.children[x] = <<>> THEN x
                       ELSE f[d.children[x][Len(d.children[x])]]]

LEMMA LastBelowDef ==
    ASSUME NEW d, IsTree(d)
    PROVE  \A x \in Present(d) :
              LastBelow(d)[x] =
                 IF d.children[x] = <<>> THEN x
                 ELSE LastBelow(d)[d.children[x][Len(d.children[x])]]
<1> DEFINE more == {x \in Present(d) : d.children[x] # <<>>}
           next == [x \in Present(d) |-> d.children[x][Len(d.children[x])]]
           val  == [x \in Present(d) |-> x]
           N    == Cardinality(Present(d))
           m    == [x \in Present(d) |-> N - Rank(d)[x]]
<1>1. N \in Nat /\ \A x \in Present(d) : Rank(d)[x] \in 0..N
  BY RankType
<1>2. \A x \in Present(d) : m[x] \in 0..N
  BY <1>1
<1>3. ASSUME NEW x \in Present(d), x \in more
      PROVE  next[x] \in Present(d) /\ m[next[x]] < m[x]
  <2> DEFINE c == d.children[x]
             y == c[Len(c)]
  <2>1. /\ c \in Seq(Present(d)) /\ Len(c) \in Nat
        /\ \A j \in 1..Len(c) : /\ c[j] \in Present(d) \ {ROOT_ID}
                                /\ d.parent_of[c[j]] = x
    BY ChildList
  <2>2. c # <<>>
    BY <1>3
  <2> HIDE DEF c
  <2>3. Len(c) \in 1..Len(c)
    BY <2>1, <2>2
  <2>4. y \in Present(d) \ {ROOT_ID} /\ d.parent_of[y] = x
    BY <2>1, <2>3
  <2>5. x \in UpTo(d, y) /\ x # y
    <3>1. x \in UpTo(d, x)
      BY AncestorsOf DEF UpTo
    <3> QED  BY <2>4, <3>1, UpToParent
  <2>6. Rank(d)[x] < Rank(d)[y]
    BY <2>4, <2>5, RankGrows
  <2>7. next[x] = y
    BY DEF c
  <2>8. m[y] = N - Rank(d)[y] /\ m[x] = N - Rank(d)[x]
    BY <2>4
  <2> HIDE DEF m, y, next, N
  <2> QED  BY <1>1, <2>4, <2>6, <2>7, <2>8
<1>4. Descends(Present(d), more, next, m, N)
  BY <1>2, <1>3 DEF Descends
<1>5. PICK f : \A x \in Present(d) :
                  f[x] = IF x \in more THEN f[next[x]] ELSE val[x]
  <2> HIDE DEF more, next, val, N, m
  <2>1. HasLimit(Present(d), more, next, val)
    BY <1>1, <1>4, Iterates
  <2> QED  BY <2>1 DEF HasLimit
<1> DEFINE g == [x \in Present(d) |->
                    IF d.children[x] = <<>> THEN x
                    ELSE f[d.children[x][Len(d.children[x])]]]
<1>6. g = [x \in Present(d) |-> IF d.children[x] = <<>> THEN x
                                ELSE g[d.children[x][Len(d.children[x])]]]
  <2>1. ASSUME NEW x \in Present(d), d.children[x] # <<>>
        PROVE  g[next[x]] = f[next[x]]
    <3>1. next[x] \in Present(d)
      BY <1>3, <2>1
    <3> HIDE DEF next
    <3> QED  BY <1>5, <3>1 DEF next
  <2> QED  BY <2>1
<1>7. LastBelow(d) =
         [x \in Present(d) |-> IF d.children[x] = <<>> THEN x
                               ELSE LastBelow(d)[d.children[x][Len(d.children[x])]]]
  BY <1>6 DEF LastBelow
<1> QED  BY <1>7

LEMMA LastBelowIs ==
    ASSUME NEW d, IsTree(d), NEW x \in Present(d)
    PROVE  /\ LastBelow(d)[x] \in Present(d)
           /\ x \in Ancestors(d, LastBelow(d)[x])
           /\ \A y \in Present(d) :
                 x \in Ancestors(d, y) => y \in UpTo(d, LastBelow(d)[x])
<1> DEFINE Good(u) == /\ LastBelow(d)[u] \in Present(d)
                      /\ u \in Ancestors(d, LastBelow(d)[u])
                      /\ \A y \in Present(d) : u \in Ancestors(d, y) =>
                            y \in UpTo(d, LastBelow(d)[u])
           bad == {u \in Present(d) : ~Good(u)}
           N   == Cardinality(Present(d))
           m   == [u \in Present(d) |-> N - Rank(d)[u]]
<1> SUFFICES ASSUME bad # {} PROVE FALSE
  OBVIOUS
<1>1. N \in Nat /\ \A u \in Present(d) : Rank(d)[u] \in 0..N
  BY RankType
<1>2. \A u \in bad : m[u] \in Nat
  BY <1>1
<1>3. PICK u \in bad : \A v \in bad : m[u] <= m[v]
  <2> HIDE DEF m, bad
  <2> QED  BY <1>2, LeastMeasure
<1>4. u \in Present(d) /\ u \in Ancestors(d, u)
  BY AncestorsOf
<1>5. CASE d.children[u] = <<>>
  <2>1. LastBelow(d)[u] = u
    BY <1>4, <1>5, LastBelowDef
  <2>2. ASSUME NEW y \in Present(d), u \in Ancestors(d, y)
        PROVE  y \in UpTo(d, u)
    <3>1. y = u
      <4> SUFFICES ASSUME y # u PROVE FALSE
        OBVIOUS
      <4>1. PICK c \in Present(d) \ {ROOT_ID} : d.parent_of[c] = u
        BY <1>4, <2>2, ChildOnTheWay
      <4>2. \E j \in 1..Len(d.children[u]) : d.children[u][j] = c
        BY <1>4, <4>1, ChildList
      <4> QED  BY <1>5, <4>2
    <3> QED  BY <1>4, <3>1 DEF UpTo
  <2> QED  BY <1>4, <2>1, <2>2
<1>6. CASE d.children[u] # <<>>
  <2> DEFINE c == d.children[u]
             z == c[Len(c)]
             w == LastBelow(d)[z]
  <2>1. /\ c \in Seq(Present(d)) /\ Len(c) \in Nat
        /\ \A j \in 1..Len(c) : /\ c[j] \in Present(d) \ {ROOT_ID}
                                /\ d.parent_of[c[j]] = u
        /\ \A j, k \in 1..Len(c) : j < k => LeftOf(d, c[j], c[k])
        /\ \A v \in Present(d) \ {ROOT_ID} :
              d.parent_of[v] = u => \E j \in 1..Len(c) : c[j] = v
    BY <1>4, ChildList
  <2>2. c # <<>> /\ LastBelow(d)[u] = w
    BY <1>4, <1>6, LastBelowDef
  <2> HIDE DEF c
  <2>3. Len(c) \in 1..Len(c)
    BY <2>1, <2>2
  <2>4. z \in Present(d) \ {ROOT_ID} /\ d.parent_of[z] = u
    BY <2>1, <2>3
  <2> HIDE DEF z
  <2>5. Good(z)
    <3>1. u \in UpTo(d, z) /\ u # z
      <4>1. u \in UpTo(d, u)
        BY <1>4 DEF UpTo
      <4> QED  BY <2>4, <4>1, UpToParent
    <3>2. Rank(d)[u] < Rank(d)[z]
      BY <2>4, <3>1, RankGrows
    <3>3. m[z] < m[u]
      <4>1. m[z] = N - Rank(d)[z] /\ m[u] = N - Rank(d)[u]
        BY <1>4, <2>4
      <4> HIDE DEF m, N
      <4> QED  BY <1>1, <1>4, <2>4, <3>2, <4>1
    <3>4. m[z] \in Nat /\ m[u] \in Nat
      <4>1. m[z] = N - Rank(d)[z] /\ m[u] = N - Rank(d)[u]
        BY <1>4, <2>4
      <4> HIDE DEF m, N
      <4> QED  BY <1>1, <1>4, <2>4, <4>1
    <3> HIDE DEF m
    <3> QED  BY <1>3, <2>4, <3>3, <3>4
  <2>6. w \in Present(d) /\ z \in Ancestors(d, w)
    BY <2>5
  <2>7. u \in Ancestors(d, z) /\ u \in Ancestors(d, w)
    <3>1. u \in Ancestors(d, z)
      BY <1>4, <2>4, TreeParts
    <3> QED  BY <2>6, <3>1, AncestorsWithin
  <2>8. ASSUME NEW y \in Present(d), u \in Ancestors(d, y)
        PROVE  y \in UpTo(d, w)
    <3>1. CASE y = u
      BY <1>4, <2>7, <3>1 DEF UpTo
    <3>2. CASE y # u
      <4>1. PICK v \in Present(d) \ {ROOT_ID} :
               d.parent_of[v] = u /\ v \in Ancestors(d, y)
        BY <1>4, <2>8, <3>2, ChildOnTheWay
      <4>2. PICK j \in 1..Len(c) : c[j] = v
        BY <2>1, <4>1
      <4>3. CASE j = Len(c)
        <5>1. v = z
          BY <4>2, <4>3 DEF z
        <5> QED  BY <2>5, <4>1, <5>1
      <4>4. CASE j < Len(c)
        <5>1. LeftOf(d, v, z)
          BY <2>1, <2>3, <4>2, <4>4 DEF z
        <5> QED  BY <2>6, <4>1, <5>1 DEF UpTo
      <4> QED  BY <2>1, <4>3, <4>4
    <3> QED  BY <3>1, <3>2
  <2>9. Good(u)
    BY <2>2, <2>6, <2>7, <2>8
  <2> QED  BY <2>9
<1> QED  BY <1>5, <1>6

(***************************************************************************)
(* Document::predecessor gives the element the walk visits just before.    *)
(***************************************************************************)
LEMMA PredecessorIs ==
    ASSUME NEW d, IsTree(d), NEW x \in Present(d), x # ROOT_ID
    PROVE  /\ Predecessor(d, x) \in Present(d)
           /\ UpTo(d, x) = UpTo(d, Predecessor(d, x)) \cup {x}
           /\ x \notin UpTo(d, Predecessor(d, x))
<1> DEFINE p == d.parent_of[x]
           c == d.children[p]
           i == IndexIn(c, x)
           y == Predecessor(d, x)
<1>1. y = IF i = 1 THEN p ELSE LastBelow(d)[c[i - 1]]
  BY DEF Predecessor, LastBelow
<1>2. /\ p \in Present(d)
      /\ Ancestors(d, x) = {x} \cup Ancestors(d, p)
  BY TreeParts, AncestorsOfChild
<1>3. i \in 1..Len(c) /\ c[i] = x
  BY PlaceAmongSiblings
<1> HIDE DEF p
<1>4. /\ Len(c) \in Nat
      /\ \A j \in 1..Len(c) : /\ c[j] \in Present(d) \ {ROOT_ID}
                              /\ d.parent_of[c[j]] = p
      /\ \A j, k \in 1..Len(c) : j < k => LeftOf(d, c[j], c[k])
      /\ \A v \in Present(d) \ {ROOT_ID} :
            d.parent_of[v] = p => \E j \in 1..Len(c) : c[j] = v
  <2>1. p \in Present(d)
    BY <1>2
  <2> HIDE <1>1, <1>2, <1>3
  <2> QED  BY <2>1, ChildList, SMTT(30)
<1> USE DEF p
<1>5. x \in UpTo(d, x)
  BY AncestorsOf DEF UpTo
<1> HIDE DEF y, i, c
\* The siblings on the left are those before it in the list.
<1>6. ASSUME NEW a \in Present(d), LeftOf(d, a, x)
      PROVE  i # 1 /\ (a = c[i - 1] \/ LeftOf(d, a, c[i - 1]))
  <2>1. a # ROOT_ID /\ d.parent_of[a] = p
    BY <1>6 DEF LeftOf
  <2>2. PICK j \in 1..Len(c) : c[j] = a
    BY <1>4, <2>1
  <2>3. j < i
    <3>1. ~(i < j)
      BY <1>3, <1>4, <1>6, <2>2, LeftOfOrders
    <3>2. i # j
      BY <1>3, <1>6, <2>2, LeftOfOrders
    <3> QED  BY <1>3, <1>4, <2>2, <3>1, <3>2
  <2>4. i # 1 /\ i - 1 \in 1..Len(c) /\ (j = i - 1 \/ j < i - 1)
    BY <1>3, <1>4, <2>2, <2>3
  <2> QED  BY <1>4, <2>2, <2>4
<1>7. CASE i = 1
  <2>1. y = p
    BY <1>1, <1>7
  <2>2. UpTo(d, x) \subseteq UpTo(d, p) \cup {x}
    <3> SUFFICES ASSUME NEW v \in UpTo(d, x), v # x
                 PROVE  v \in UpTo(d, p)
      OBVIOUS
    <3>1. v \in Present(d)
      BY DEF UpTo
    <3>2. ASSUME NEW a \in Ancestors(d, v), LeftOf(d, a, x)
          PROVE  FALSE
      <4>1. a \in Present(d)
        BY <3>1, AncestorsWithin
      <4> QED  BY <1>6, <1>7, <3>2, <4>1
    <3> QED  BY <1>2, <3>1, <3>2 DEF UpTo
  <2> QED  BY <1>2, <1>5, <2>1, <2>2, UpToParent DEF y
<1>8. CASE i # 1
  <2> DEFINE s == c[i - 1]
             w == LastBelow(d)[s]
  <2>1. i - 1 \in 1..Len(c) /\ i - 1 < i
    BY <1>3, <1>4, <1>8
  <2>2. s \in Present(d) \ {ROOT_ID} /\ d.parent_of[s] = p /\ LeftOf(d, s, x)
    BY <1>3, <1>4, <2>1
  <2>3. /\ w \in Present(d)
        /\ s \in Ancestors(d, w)
        /\ \A v \in Present(d) : s \in Ancestors(d, v) => v \in UpTo(d, w)
    BY <2>2, LastBelowIs
  <2>4. y = w
    BY <1>1, <1>8
  <2> HIDE DEF w, s
  <2>5. UpTo(d, w) \subseteq UpTo(d, x) /\ x \notin UpTo(d, w)
    BY <2>2, <2>3, UpToSibling
  <2>6. Ancestors(d, p) \subseteq Ancestors(d, w)
    BY <2>2, <2>3, TreeParts, AncestorsWithin
  <2>7. UpTo(d, x) \subseteq UpTo(d, w) \cup {x}
    <3> SUFFICES ASSUME NEW v \in UpTo(d, x), v # x
                 PROVE  v \in UpTo(d, w)
      OBVIOUS
    <3>1. v \in Present(d)
      BY DEF UpTo
    <3>2. CASE v \in Ancestors(d, p)
      BY <2>6, <3>1, <3>2 DEF UpTo
    <3>3. ASSUME NEW a \in Ancestors(d, v), NEW b \in Ancestors(d, p),
                 LeftOf(d, a, b)
          PROVE  v \in UpTo(d, w)
      BY <2>6, <3>1, <3>3 DEF UpTo
    <3>4. ASSUME NEW a \in Ancestors(d, v), LeftOf(d, a, x)
          PROVE  v \in UpTo(d, w)
      <4>1. a \in Present(d)
        BY <3>1, AncestorsWithin
      <4>2. a = s \/ LeftOf(d, a, s)
        BY <1>6, <3>4, <4>1 DEF s
      <4> QED  BY <2>3, <3>1, <3>4, <4>2 DEF UpTo
    <3> QED  BY <1>2, <3>2, <3>3, <3>4 DEF UpTo
  <2> QED  BY <1>5, <2>3, <2>4, <2>5, <2>7 DEF y
<1> QED  BY <1>7, <1>8

\* An element stands at one place of a list of children.
LEMMA IndexAmongSiblings ==
    ASSUME NEW d, IsTree(d), NEW p \in Present(d),
           NEW i \in 1..Len(d.children[p])
    PROVE  /\ d.children[p][i] \in Present(d) \ {ROOT_ID}
           /\ d.parent_of[d.children[p][i]] = p
           /\ IndexIn(d.children[p], d.children[p][i]) = i
<1> DEFINE c == d.children[p]
           k == IndexIn(c, c[i])
<1>1. /\ c \in Seq(Present(d)) /\ Len(c) \in Nat
      /\ \A j \in 1..Len(c) : /\ c[j] \in Present(d) \ {ROOT_ID}
                              /\ d.parent_of[c[j]] = p
      /\ \A j, l \in 1..Len(c) : j < l => LeftOf(d, c[j], c[l])
  BY ChildList
<1> HIDE DEF c
<1>2. i \in 1..Len(c)
  BY DEF c
<1>3. DOMAIN c = 1..Len(c)
  BY <1>1
<1>4. k \in 1..Len(c) /\ c[k] = c[i]
  BY <1>2, <1>3 DEF IndexIn
<1>5. ~(k < i) /\ ~(i < k)
  BY <1>1, <1>2, <1>4, LeftOfOrders
<1>6. k = i
  <2> HIDE DEF k
  <2> QED  BY <1>1, <1>2, <1>4, <1>5
<1> QED  BY <1>1, <1>2, <1>6 DEF c

\* The next sibling of the nearest ancestor-or-self that has one.
Climb(d) ==
    CHOOSE f : f = [x \in Present(d) |->
        IF x = ROOT_ID THEN NoElement
        ELSE LET siblings == d.children[d.parent_of[x]]
                 i == IndexIn(siblings, x)
             IN  IF i < Len(siblings) THEN siblings[i + 1]
                 ELSE f[d.parent_of[x]]]

LEMMA ClimbDef ==
    ASSUME NEW d, IsTree(d)
    PROVE  \A x \in Present(d) :
              Climb(d)[x] =
                 IF x = ROOT_ID THEN NoElement
                 ELSE LET siblings == d.children[d.parent_of[x]]
                          i == IndexIn(siblings, x)
                      IN  IF i < Len(siblings) THEN siblings[i + 1]
                          ELSE Climb(d)[d.parent_of[x]]
<1> DEFINE c(x) == d.children[d.parent_of[x]]
           i(x) == IndexIn(c(x), x)
           more == {x \in Present(d) : x # ROOT_ID /\ ~(i(x) < Len(c(x)))}
           val  == [x \in Present(d) |-> IF x = ROOT_ID THEN NoElement
                                         ELSE c(x)[i(x) + 1]]
           N    == Cardinality(Present(d))
           m    == Rank(d)
<1>1. N \in Nat /\ \A x \in Present(d) : m[x] \in 0..N
  BY RankType
<1>2. ASSUME NEW x \in Present(d), x \in more
      PROVE  d.parent_of[x] \in Present(d) /\ m[d.parent_of[x]] < m[x]
  <2>1. x # ROOT_ID /\ d.parent_of[x] \in Present(d)
    BY <1>2, TreeParts
  <2>2. d.parent_of[x] \in UpTo(d, x) /\ d.parent_of[x] # x
    <3>1. d.parent_of[x] \in UpTo(d, d.parent_of[x])
      BY <2>1, AncestorsOf DEF UpTo
    <3> QED  BY <2>1, <3>1, UpToParent
  <2> HIDE DEF m
  <2> QED  BY <2>1, <2>2, RankGrows DEF m
<1>3. Descends(Present(d), more, d.parent_of, m, N)
  <2> HIDE DEF more, m, N
  <2> QED  BY <1>1, <1>2 DEF Descends
<1>4. PICK f : \A x \in Present(d) :
                  f[x] = IF x \in more THEN f[d.parent_of[x]] ELSE val[x]
  <2> HIDE DEF more, val, N, m
  <2>1. HasLimit(Present(d), more, d.parent_of, val)
    BY <1>1, <1>3, Iterates
  <2> QED  BY <2>1 DEF HasLimit
<1> DEFINE Body(h) == [x \in Present(d) |->
                          IF x = ROOT_ID THEN NoElement
                          ELSE IF i(x) < Len(c(x)) THEN c(x)[i(x) + 1]
                          ELSE h[d.parent_of[x]]]
           g == Body(f)
<1>5. g = Body(g)
  <2>1. ASSUME NEW x \in Present(d), x # ROOT_ID, ~(i(x) < Len(c(x)))
        PROVE  g[d.parent_of[x]] = f[d.parent_of[x]]
    <3> DEFINE p == d.parent_of[x]
    <3>1. p \in Present(d)
      BY TreeParts
    <3> HIDE DEF p, c, i
    <3>2. f[p] = IF p \in more THEN f[d.parent_of[p]] ELSE val[p]
      BY <1>4, <3>1
    <3>3. g[p] = f[p]
      BY <3>1, <3>2
    <3> QED  BY <3>3 DEF p
  <2> HIDE DEF c, i
  <2> QED  BY <2>1
<1>6. Climb(d) = CHOOSE h : h = Body(h)
  BY DEF Climb
<1>7. Climb(d) = Body(Climb(d))
  <2> HIDE DEF Body, g
  <2> QED  BY <1>5, <1>6
<1> QED  BY <1>7

\* Predecessor, by the place of the element among its siblings.
LEMMA PredecessorByPlace ==
    ASSUME NEW d, IsTree(d), NEW p \in Present(d),
           NEW i \in 1..Len(d.children[p])
    PROVE  Predecessor(d, d.children[p][i]) =
              IF i = 1 THEN p ELSE LastBelow(d)[d.children[p][i - 1]]
<1> DEFINE x == d.children[p][i]
<1>1. d.parent_of[x] = p /\ IndexIn(d.children[p], x) = i
  BY IndexAmongSiblings
<1> HIDE DEF x
<1>2. Predecessor(d, x) =
         IF IndexIn(d.children[d.parent_of[x]], x) = 1 THEN d.parent_of[x]
         ELSE LastBelow(d)[d.children[d.parent_of[x]]
                              [IndexIn(d.children[d.parent_of[x]], x) - 1]]
  BY DEF Predecessor, LastBelow
<1>3. Predecessor(d, x) = IF i = 1 THEN p
                          ELSE LastBelow(d)[d.children[p][i - 1]]
  BY <1>1, <1>2
<1> QED  BY <1>3 DEF x

LEMMA ClimbIs ==
    ASSUME NEW d, IsTree(d), NEW x \in Present(d)
    PROVE  \/ /\ Climb(d)[x] = NoElement
              /\ LastBelow(d)[x] = LastBelow(d)[ROOT_ID]
           \/ /\ Climb(d)[x] \in Present(d) \ {ROOT_ID}
              /\ Predecessor(d, Climb(d)[x]) = LastBelow(d)[x]
<1> DEFINE Good(u) == \/ /\ Climb(d)[u] = NoElement
                         /\ LastBelow(d)[u] = LastBelow(d)[ROOT_ID]
                      \/ /\ Climb(d)[u] \in Present(d) \ {ROOT_ID}
                         /\ Predecessor(d, Climb(d)[u]) = LastBelow(d)[u]
           S == {u \in Present(d) : Good(u)}
<1>1. ROOT_ID \in S
  <2>1. ROOT_ID \in Present(d)
    BY DEF IsTree
  <2> QED  BY <2>1, ClimbDef
<1>2. ASSUME NEW u \in Present(d) \ {ROOT_ID}, d.parent_of[u] \in S
      PROVE  u \in S
  <2> DEFINE p == d.parent_of[u]
             c == d.children[p]
             i == IndexIn(c, u)
  <2>1. p \in Present(d)
    BY TreeParts
  <2>2. Climb(d)[u] = IF i < Len(c) THEN c[i + 1] ELSE Climb(d)[p]
    BY ClimbDef
  <2>3. i \in 1..Len(c) /\ c[i] = u
    BY PlaceAmongSiblings
  <2>4. c \in Seq(Present(d)) /\ Len(c) \in Nat
    <3> HIDE DEF p
    <3> QED  BY <2>1, ChildList
  <2> HIDE DEF i
  <2>5. CASE i < Len(c)
    <3>1. i + 1 \in 1..Len(c) /\ i + 1 # 1 /\ (i + 1) - 1 = i
      BY <2>3, <2>4, <2>5
    <3> DEFINE j == i + 1
    <3>2. j \in 1..Len(c) /\ j # 1 /\ j - 1 = i
      BY <3>1
    <3> HIDE DEF j
    <3>3. c[j] \in Present(d) \ {ROOT_ID}
      <4> HIDE DEF p
      <4> QED  BY <2>1, <3>2, IndexAmongSiblings
    <3>4. Predecessor(d, c[j]) = LastBelow(d)[c[i]]
      <4> HIDE DEF p
      <4> QED  BY <2>1, <3>2, PredecessorByPlace
    <3>5. Climb(d)[u] = c[j]
      BY <2>2, <2>5 DEF j
    <3> QED  BY <2>3, <3>3, <3>4, <3>5
  <2>6. CASE ~(i < Len(c))
    <3>1. i = Len(c) /\ c # <<>>
      BY <2>3, <2>4, <2>6
    <3>2. LastBelow(d)[p] = LastBelow(d)[u]
      <4> HIDE DEF p
      <4> QED  BY <2>1, <2>3, <3>1, LastBelowDef
    <3>3. Climb(d)[u] = Climb(d)[p]
      BY <2>2, <2>6
    <3> QED  BY <1>2, <3>2, <3>3
  <2> QED  BY <2>5, <2>6
<1> HIDE DEF S
<1>3. Present(d) \subseteq S
  BY <1>1, <1>2, TreeInduction
<1> QED  BY <1>3 DEF S

(***************************************************************************)
(* Document::successor gives the element the walk visits next, and nothing *)
(* where the walk ends.                                                    *)
(***************************************************************************)
LEMMA SuccessorIs ==
    ASSUME NEW d, IsTree(d), NEW x \in Present(d)
    PROVE  \/ Successor(d, x) = NoElement /\ UpTo(d, x) = Present(d)
           \/ /\ Successor(d, x) \in Present(d) \ {ROOT_ID}
              /\ Predecessor(d, Successor(d, x)) = x
              /\ UpTo(d, Successor(d, x)) = UpTo(d, x) \cup {Successor(d, x)}
              /\ Successor(d, x) \notin UpTo(d, x)
<1> DEFINE c == d.children[x]
           y == Successor(d, x)
<1>1. y = IF c # <<>> THEN c[1] ELSE Climb(d)[x]
  BY DEF Successor, Climb
<1>2. c \in Seq(Present(d)) /\ Len(c) \in Nat
  BY ChildList
<1>3. LastBelow(d)[x] = IF c = <<>> THEN x ELSE LastBelow(d)[c[Len(c)]]
  BY LastBelowDef
<1> HIDE DEF y
<1>4. \/ y = NoElement /\ LastBelow(d)[ROOT_ID] = x
      \/ y \in Present(d) \ {ROOT_ID} /\ Predecessor(d, y) = x
  <2>1. CASE c # <<>>
    <3>1. 1 \in 1..Len(c)
      BY <1>2, <2>1
    <3>2. c[1] \in Present(d) \ {ROOT_ID} /\ Predecessor(d, c[1]) = x
      BY <3>1, IndexAmongSiblings, PredecessorByPlace
    <3> QED  BY <1>1, <2>1, <3>2
  <2>2. CASE c = <<>>
    <3>1. LastBelow(d)[x] = x /\ y = Climb(d)[x]
      BY <1>1, <1>3, <2>2
    <3> QED  BY <3>1, ClimbIs
  <2> QED  BY <2>1, <2>2
<1>5. CASE y = NoElement /\ LastBelow(d)[ROOT_ID] = x
  <2>1. ROOT_ID \in Present(d)
    BY DEF IsTree
  <2>2. ASSUME NEW v \in Present(d) PROVE v \in UpTo(d, x)
    <3>1. ROOT_ID \in Ancestors(d, v)
      <4> DEFINE R == {u \in Present(d) : ROOT_ID \in Ancestors(d, u)}
      <4>1. ROOT_ID \in R
        BY <2>1, AncestorsOf
      <4>2. ASSUME NEW u \in Present(d) \ {ROOT_ID}, d.parent_of[u] \in R
            PROVE  u \in R
        BY <4>2, AncestorsOfChild
      <4> HIDE DEF R
      <4>3. Present(d) \subseteq R
        BY <4>1, <4>2, TreeInduction
      <4> QED  BY <4>3 DEF R
    <3> QED  BY <1>5, <2>1, <3>1, LastBelowIs
  <2>3. UpTo(d, x) \subseteq Present(d)
    BY DEF UpTo
  <2> QED  BY <1>5, <2>2, <2>3 DEF y
<1>6. CASE y \in Present(d) \ {ROOT_ID} /\ Predecessor(d, y) = x
  BY <1>6, PredecessorIs DEF y
<1> QED  BY <1>4, <1>5, <1>6

-----------------------------------------------------------------------------
(***************************************************************************)
(* The nearest visible elements on either side.                            *)
(***************************************************************************)
SkipBack(d) ==
    CHOOSE f : f = [x \in Present(d) |->
        LET prev == Predecessor(d, x)
        IN  IF prev # ROOT_ID /\ IsDeleted(d, prev) THEN f[prev] ELSE prev]

\* The recursion of visible_predecessor, which never asks for the predecessor
\* of the root.
LEMMA SkipBackDef ==
    ASSUME NEW d, IsTree(d)
    PROVE  \A x \in Present(d) \ {ROOT_ID} :
              SkipBack(d)[x] =
                 LET prev == Predecessor(d, x)
                 IN  IF prev # ROOT_ID /\ IsDeleted(d, prev)
                     THEN SkipBack(d)[prev] ELSE prev

<1> DEFINE S == Present(d) \ {ROOT_ID}
           Prev(x) == Predecessor(d, x)
           Skipped(y) == y # ROOT_ID /\ IsDeleted(d, y)
           more == {x \in S : Skipped(Prev(x))}
           next == [x \in S |-> Prev(x)]
           val  == [x \in S |-> Prev(x)]
           N    == Cardinality(Present(d))
           m    == Rank(d)
<1>1. N \in Nat /\ \A x \in S : m[x] \in 0..N
  BY RankType
<1>2. \A y : Skipped(y) => y \in S
  BY DEF IsDeleted, IsTree
<1>3. ASSUME NEW x \in S, x \in more
      PROVE  next[x] \in S /\ m[next[x]] < m[x]
  <2>1. next[x] = Prev(x) /\ Prev(x) \in S
    BY <1>2, <1>3
  <2>2. Prev(x) \in UpTo(d, x) /\ Prev(x) # x
    <3>1. Prev(x) \in UpTo(d, Prev(x))
      BY <2>1, AncestorsOf DEF UpTo
    <3> QED  BY <3>1, PredecessorIs
  <2> HIDE DEF Prev, next, m
  <2> QED  BY <2>1, <2>2, RankGrows DEF m
<1>4. Descends(S, more, next, m, N)
  <2> HIDE DEF more, next, m, N
  <2> QED  BY <1>1, <1>3 DEF Descends
<1>5. PICK f : \A x \in S : f[x] = IF x \in more THEN f[next[x]] ELSE val[x]
  <2> HIDE DEF S, more, next, val, N, m
  <2>1. HasLimit(S, more, next, val)
    BY <1>1, <1>4, Iterates
  <2> QED  BY <2>1 DEF HasLimit
<1> DEFINE Body(h) == [x \in Present(d) |->
                          IF Skipped(Prev(x)) THEN h[Prev(x)] ELSE Prev(x)]
           g == Body(f)
<1>6. \A x \in S : g[x] = f[x]
  <2> HIDE DEF Prev, Skipped
  <2> QED  BY <1>5
<1>7. g = Body(g)
  <2>1. \A x : Skipped(Prev(x)) => g[Prev(x)] = f[Prev(x)]
    <3> HIDE DEF Prev, Skipped, g
    <3> QED  BY <1>2, <1>6
  <2> HIDE DEF Prev, Skipped
  <2> QED  BY <2>1
<1>8. SkipBack(d) = CHOOSE h : h = Body(h)
  BY DEF SkipBack
<1>9. SkipBack(d) = Body(SkipBack(d))
  <2> HIDE DEF Body, g
  <2> QED  BY <1>7, <1>8
<1> QED  BY <1>9

(***************************************************************************)
(* Document::visible_predecessor gives a place a cursor may stand at: the  *)
(* nearest one before the element, or the root for the root.               *)
(***************************************************************************)
LEMMA VisiblePredecessorIs ==
    ASSUME NEW d, IsTree(d), NEW x \in Present(d)
    PROVE  /\ VisiblePredecessor(d, x) \in Anchors(d)
           /\ x = ROOT_ID => VisiblePredecessor(d, x) = ROOT_ID
           /\ x # ROOT_ID =>
                 /\ VisiblePredecessor(d, x) \in UpTo(d, x) \ {x}
                 /\ \A v \in UpTo(d, x) \ {x} :
                       v \in Anchors(d) =>
                          v \in UpTo(d, VisiblePredecessor(d, x))
<1>1. ROOT_ID \in Present(d)
  BY DEF IsTree
<1>2. VisiblePredecessor(d, x) = IF x = ROOT_ID THEN ROOT_ID
                                 ELSE SkipBack(d)[x]
  BY DEF VisiblePredecessor, SkipBack
<1> DEFINE S == Present(d) \ {ROOT_ID}
           to(u) == SkipBack(d)[u]
           Good(u) == /\ to(u) \in Anchors(d)
                      /\ to(u) \in UpTo(d, u) \ {u}
                      /\ \A v \in UpTo(d, u) \ {u} :
                            v \in Anchors(d) => v \in UpTo(d, to(u))
           bad == {u \in S : ~Good(u)}
<1>3. bad = {}
  <2> SUFFICES ASSUME bad # {} PROVE FALSE
    OBVIOUS
  <2>1. \A u \in bad : Rank(d)[u] \in Nat
    BY RankType
  <2>2. PICK u \in bad : \A v \in bad : Rank(d)[u] <= Rank(d)[v]
    <3> HIDE DEF bad
    <3> QED  BY <2>1, LeastMeasure
  <2> DEFINE p == Predecessor(d, u)
  <2>3. /\ p \in Present(d)
        /\ UpTo(d, u) = UpTo(d, p) \cup {u}
        /\ u \notin UpTo(d, p)
    BY <2>2, PredecessorIs
  <2>4. to(u) = IF p # ROOT_ID /\ IsDeleted(d, p) THEN to(p) ELSE p
    BY <2>2, SkipBackDef
  <2> HIDE DEF p
  <2>5. p \in UpTo(d, p) /\ p # u
    BY <2>3, AncestorsOf DEF UpTo
  <2>6. CASE p # ROOT_ID /\ IsDeleted(d, p)
    <3>1. p \in S /\ to(u) = to(p)
      BY <2>3, <2>4, <2>6
    <3>2. Rank(d)[p] < Rank(d)[u]
      BY <2>2, <2>3, <2>5, RankGrows
    <3>3. Good(p)
      <4>1. Rank(d)[p] \in Nat /\ Rank(d)[u] \in Nat
        BY <2>2, <2>3, RankType
      <4> QED  BY <2>2, <3>1, <3>2, <4>1
    <3>4. p \notin Anchors(d)
      BY <2>6 DEF Anchors
    <3>5. Good(u)
      BY <2>3, <3>1, <3>3, <3>4
    <3> QED  BY <2>2, <3>5
  <2>7. CASE ~(p # ROOT_ID /\ IsDeleted(d, p))
    <3>1. to(u) = p /\ p \in Anchors(d)
      BY <2>3, <2>4, <2>7 DEF Anchors
    <3>2. Good(u)
      BY <2>3, <2>5, <3>1
    <3> QED  BY <2>2, <3>2
  <2> QED  BY <2>6, <2>7
<1>4. x # ROOT_ID => Good(x)
  BY <1>3
<1> QED  BY <1>1, <1>2, <1>4 DEF Anchors

SkipForward(d) ==
    CHOOSE f : f = [x \in Present(d) |->
        LET next == Successor(d, x)
        IN  IF next # NoElement /\ IsDeleted(d, next) THEN f[next] ELSE next]

LEMMA SkipForwardDef ==
    ASSUME NEW d, IsTree(d)
    PROVE  \A x \in Present(d) :
              SkipForward(d)[x] =
                 LET next == Successor(d, x)
                 IN  IF next # NoElement /\ IsDeleted(d, next)
                     THEN SkipForward(d)[next] ELSE next
<1> DEFINE S == Present(d)
           Succ(x) == Successor(d, x)
           Skipped(y) == y # NoElement /\ IsDeleted(d, y)
           more == {x \in S : Skipped(Succ(x))}
           next == [x \in S |-> Succ(x)]
           val  == [x \in S |-> Succ(x)]
           N    == Cardinality(Present(d))
           m    == [x \in S |-> N - Rank(d)[x]]
<1>1. N \in Nat /\ \A x \in S : Rank(d)[x] \in 0..N
  BY RankType
<1>2. \A x \in S : m[x] = N - Rank(d)[x] /\ m[x] \in 0..N
  <2>1. \A x \in S : m[x] = N - Rank(d)[x]
    OBVIOUS
  <2> HIDE DEF m, N
  <2> QED  BY <1>1, <2>1
<1>3. \A y : Skipped(y) => y \in S
  BY DEF IsDeleted, IsTree
<1>4. ASSUME NEW x \in S, x \in more
      PROVE  next[x] \in S /\ m[next[x]] < m[x]
  <2>1. next[x] = Succ(x) /\ Succ(x) \in S /\ Succ(x) # NoElement
    BY <1>3, <1>4
  <2>2. x \in UpTo(d, Succ(x)) /\ x # Succ(x)
    <3>1. x \in UpTo(d, x)
      BY AncestorsOf DEF UpTo
    <3> QED  BY <2>1, <3>1, SuccessorIs
  <2>3. Rank(d)[x] < Rank(d)[Succ(x)]
    <3> HIDE DEF Succ
    <3> QED  BY <2>1, <2>2, RankGrows
  <2> HIDE DEF Succ, next, m, N
  <2> QED  BY <1>1, <1>2, <2>1, <2>3
<1>5. Descends(S, more, next, m, N)
  <2>1. \A x \in S : m[x] \in 0..N
    BY <1>2
  <2> HIDE DEF more, next, m, N
  <2> QED  BY <1>4, <2>1 DEF Descends
<1>6. PICK f : \A x \in S : f[x] = IF x \in more THEN f[next[x]] ELSE val[x]
  <2> HIDE DEF S, more, next, val, N, m
  <2>1. HasLimit(S, more, next, val)
    BY <1>1, <1>5, Iterates
  <2> QED  BY <2>1 DEF HasLimit
<1> DEFINE Body(h) == [x \in Present(d) |->
                          IF Skipped(Succ(x)) THEN h[Succ(x)] ELSE Succ(x)]
           g == Body(f)
<1>7. \A x \in S : g[x] = f[x]
  <2> HIDE DEF Succ, Skipped
  <2> QED  BY <1>6
<1>8. g = Body(g)
  <2>1. \A x : Skipped(Succ(x)) => g[Succ(x)] = f[Succ(x)]
    <3> HIDE DEF Succ, Skipped, g
    <3> QED  BY <1>3, <1>7
  <2> HIDE DEF Succ, Skipped
  <2> QED  BY <2>1
<1>9. SkipForward(d) = CHOOSE h : h = Body(h)
  BY DEF SkipForward
<1>10. SkipForward(d) = Body(SkipForward(d))
  <2> HIDE DEF Body, g
  <2> QED  BY <1>8, <1>9
<1> QED  BY <1>10

(***************************************************************************)
(* Document::visible_successor gives the nearest visible element behind,   *)
(* and nothing where none is left.                                         *)
(***************************************************************************)
LEMMA VisibleSuccessorIs ==
    ASSUME NEW d, IsTree(d), NEW x \in Present(d)
    PROVE  \/ /\ VisibleSuccessor(d, x) = NoElement
              /\ \A v \in Present(d) \ UpTo(d, x) : IsDeleted(d, v)
           \/ /\ VisibleSuccessor(d, x) \in Anchors(d) \ {ROOT_ID}
              /\ VisibleSuccessor(d, x) \notin UpTo(d, x)
              /\ \A v \in Present(d) \ UpTo(d, x) :
                    IsDeleted(d, v) \/ VisibleSuccessor(d, x) \in UpTo(d, v)
<1> DEFINE S == Present(d)
           N == Cardinality(S)
           m == [u \in S |-> N - Rank(d)[u]]
           to(u) == SkipForward(d)[u]
           Good(u) == \/ /\ to(u) = NoElement
                         /\ \A v \in S \ UpTo(d, u) : IsDeleted(d, v)
                      \/ /\ to(u) \in Anchors(d) \ {ROOT_ID}
                         /\ to(u) \notin UpTo(d, u)
                         /\ \A v \in S \ UpTo(d, u) :
                               IsDeleted(d, v) \/ to(u) \in UpTo(d, v)
           bad == {u \in S : ~Good(u)}
<1>1. VisibleSuccessor(d, x) = to(x)
  BY DEF VisibleSuccessor, SkipForward
<1>2. N \in Nat /\ \A u \in S : Rank(d)[u] \in 0..N
  BY RankType
<1>3. \A u \in S : m[u] = N - Rank(d)[u] /\ m[u] \in Nat
  <2>1. \A u \in S : m[u] = N - Rank(d)[u]
    OBVIOUS
  <2> HIDE DEF m, N
  <2> QED  BY <1>2, <2>1
<1>4. bad = {}
  <2> SUFFICES ASSUME bad # {} PROVE FALSE
    OBVIOUS
  <2>1. PICK u \in bad : \A v \in bad : m[u] <= m[v]
    <3>1. \A u \in bad : m[u] \in Nat
      BY <1>3
    <3> HIDE DEF bad, m
    <3> QED  BY <3>1, LeastMeasure
  <2>2. u \in S /\ ~Good(u)
    BY <2>1
  <2> DEFINE y == Successor(d, u)
  <2>3. \/ y = NoElement /\ UpTo(d, u) = S
        \/ /\ y \in S \ {ROOT_ID}
           /\ UpTo(d, y) = UpTo(d, u) \cup {y}
           /\ y \notin UpTo(d, u)
    BY <2>2, SuccessorIs
  <2>4. to(u) = IF y # NoElement /\ IsDeleted(d, y) THEN to(y) ELSE y
    BY <2>2, SkipForwardDef
  <2>5. NoElement \notin S
    BY NoElementAssumption DEF IsTree
  <2> HIDE DEF y
  <2>6. CASE y = NoElement
    <3>1. Good(u)
      BY <2>3, <2>4, <2>5, <2>6
    <3> QED  BY <2>2, <3>1
  <2>7. CASE y # NoElement /\ ~IsDeleted(d, y)
    <3>1. to(u) = y /\ y \in Anchors(d) \ {ROOT_ID} /\ y \notin UpTo(d, u)
      BY <2>3, <2>4, <2>7 DEF Anchors
    <3>2. ASSUME NEW v \in S \ UpTo(d, u) PROVE y \in UpTo(d, v)
      <4>1. v \in UpTo(d, y) => v = y
        BY <2>3, <2>7
      <4>2. v \in UpTo(d, v)
        BY AncestorsOf DEF UpTo
      <4> QED  BY <2>3, <2>7, <4>1, <4>2, UpToTotal
    <3>3. Good(u)
      BY <3>1, <3>2
    <3> QED  BY <2>2, <3>3
  <2>8. CASE y # NoElement /\ IsDeleted(d, y)
    <3>1. to(u) = to(y) /\ y \in S
      BY <2>3, <2>4, <2>8
    <3>2. u \in UpTo(d, y) /\ u # y
      <4>1. u \in UpTo(d, u)
        BY <2>2, AncestorsOf DEF UpTo
      <4> QED  BY <2>3, <2>8, <4>1
    <3>3. m[y] < m[u]
      <4>1. Rank(d)[u] < Rank(d)[y]
        BY <3>1, <3>2, RankGrows
      <4> HIDE DEF m, N
      <4> QED  BY <1>2, <1>3, <2>2, <3>1, <4>1
    <3>4. Good(y)
      <4> HIDE DEF m
      <4> QED  BY <1>3, <2>1, <2>2, <3>1, <3>3
    <3>5. Good(u)
      <4>1. UpTo(d, u) \subseteq UpTo(d, y)
        BY <2>3, <2>8
      <4>2. \A v \in S \ UpTo(d, u) : v = y \/ v \in S \ UpTo(d, y)
        BY <2>3, <2>8
      <4> QED  BY <2>8, <3>1, <3>4, <4>1, <4>2
    <3> QED  BY <2>2, <3>5
  <2> QED  BY <2>6, <2>7, <2>8
<1> QED  BY <1>1, <1>4

-----------------------------------------------------------------------------
(***************************************************************************)
(* Recursion along a sequence: a value for each number of elements seen.   *)
(***************************************************************************)
IsStep(step, n, V) == step \in [(1..n) \X V -> V]

Accumulates(f, base, step, n, V) ==
    /\ f \in [0..n -> V]
    /\ f[0] = base
    /\ \A i \in 1..n : f[i] = step[<<i, f[i - 1]>>]

LEMMA Accumulation ==
    ASSUME NEW n \in Nat, NEW V, NEW base \in V, NEW step, IsStep(step, n, V)
    PROVE  \E f : Accumulates(f, base, step, n, V)
<1> DEFINE Good(k) == \E f : /\ f \in [0..k -> V]
                             /\ f[0] = base
                             /\ \A i \in 1..k : f[i] = step[<<i, f[i - 1]>>]
           T == {k \in Nat : k <= n => Good(k)}
<1>1. 0 \in T
  <2> DEFINE f == [i \in 0..0 |-> base]
  <2>1. f \in [0..0 -> V] /\ f[0] = base /\ \A i \in 1..0 : FALSE
    OBVIOUS
  <2> HIDE DEF f
  <2>2. Good(0)
    BY <2>1
  <2> QED  BY <2>2
<1>2. ASSUME NEW k \in Nat, k \in T
      PROVE  k + 1 \in T
  <2> SUFFICES ASSUME k + 1 <= n
               PROVE  Good(k + 1)
    OBVIOUS
  <2>1. PICK f : /\ f \in [0..k -> V]
                 /\ f[0] = base
                 /\ \A i \in 1..k : f[i] = step[<<i, f[i - 1]>>]
    BY <1>2
  <2> DEFINE v == step[<<k + 1, f[k]>>]
             g == [i \in 0..(k + 1) |-> IF i = k + 1 THEN v ELSE f[i]]
  <2>2. v \in V
    <3>1. f[k] \in V /\ k + 1 \in 1..n
      BY <2>1
    <3>2. <<k + 1, f[k]>> \in (1..n) \X V
      BY <3>1
    <3> QED  BY <3>2 DEF IsStep
  <2>3. g \in [0..(k + 1) -> V] /\ g[0] = base
    <3> HIDE DEF v
    <3> QED  BY <2>1, <2>2
  <2>4. ASSUME NEW i \in 1..(k + 1)
        PROVE  g[i] = step[<<i, g[i - 1]>>]
    <3>1. i - 1 \in 0..k /\ i - 1 # k + 1
      OBVIOUS
    <3>2. g[i - 1] = f[i - 1]
      BY <3>1
    <3>3. CASE i = k + 1
      <4>1. g[i] = v /\ i - 1 = k
        BY <3>3
      <4> QED  BY <3>2, <3>3, <4>1
    <3>4. CASE i # k + 1
      <4>1. i \in 1..k /\ g[i] = f[i]
        BY <3>4
      <4> QED  BY <2>1, <3>2, <4>1
    <3> QED  BY <3>3, <3>4
  <2> HIDE DEF g
  <2> QED  BY <2>3, <2>4
<1>3. n \in T
  <2> HIDE DEF T
  <2> QED  BY <1>1, <1>2, NatSetInduction
<1> QED  BY <1>3 DEF Accumulates

-----------------------------------------------------------------------------
(***************************************************************************)
(* The walk lists the elements in the order of UpTo.                       *)
(***************************************************************************)
InWalkOrder(d, s) ==
    \A i, j \in DOMAIN s : i < j => s[i] \in UpTo(d, s[j]) /\ s[i] # s[j]

Lists(d, s, M) == s \in Seq(M) /\ Elems(s) = M /\ InWalkOrder(d, s)

Precede(d, L, M) == \A a \in L, b \in M : a \in UpTo(d, b) /\ a # b

LEMMA ConcatLists ==
    ASSUME NEW d, NEW L, NEW M, NEW s, NEW t, Lists(d, s, L), Lists(d, t, M),
           Precede(d, L, M)
    PROVE  Lists(d, s \o t, L \cup M)
<1>1. /\ s \in Seq(L) /\ t \in Seq(M) /\ Len(s) \in Nat /\ Len(t) \in Nat
      /\ DOMAIN s = 1..Len(s) /\ DOMAIN t = 1..Len(t)
  BY DEF Lists
<1> DEFINE u == s \o t
<1>2. /\ u \in Seq(L \cup M)
      /\ DOMAIN u = 1..(Len(s) + Len(t))
      /\ \A i \in 1..Len(s) : u[i] = s[i]
      /\ \A i \in 1..(Len(s) + Len(t)) :
            i > Len(s) => i - Len(s) \in 1..Len(t) /\ u[i] = t[i - Len(s)]
  <2>1. s \in Seq(L \cup M) /\ t \in Seq(L \cup M)
    BY <1>1
  <2> QED  BY <1>1, <2>1
<1> HIDE DEF u
<1>3. \A i \in DOMAIN u : \/ i \in 1..Len(s) /\ u[i] = s[i] /\ s[i] \in L
                          \/ /\ i > Len(s) /\ i - Len(s) \in 1..Len(t)
                             /\ u[i] = t[i - Len(s)] /\ t[i - Len(s)] \in M
  BY <1>1, <1>2
<1>4. InWalkOrder(d, u)
  <2> SUFFICES ASSUME NEW i \in DOMAIN u, NEW j \in DOMAIN u, i < j
               PROVE  u[i] \in UpTo(d, u[j]) /\ u[i] # u[j]
    BY DEF InWalkOrder
  <2>1. CASE j \in 1..Len(s)
    <3>1. i \in 1..Len(s) /\ u[i] = s[i] /\ u[j] = s[j]
      BY <1>1, <1>2, <2>1
    <3> QED  BY <1>1, <2>1, <3>1 DEF Lists, InWalkOrder
  <2>2. CASE i \in 1..Len(s) /\ j \notin 1..Len(s)
    BY <1>1, <1>3, <2>2 DEF Precede
  <2>3. CASE i \notin 1..Len(s) /\ j \notin 1..Len(s)
    <3> DEFINE k == i - Len(s)
               l == j - Len(s)
    <3>1. /\ k \in 1..Len(t) /\ l \in 1..Len(t) /\ k < l
          /\ u[i] = t[k] /\ u[j] = t[l]
      BY <1>1, <1>2, <1>3, <2>3
    <3> HIDE DEF k, l
    <3> QED  BY <1>1, <3>1 DEF Lists, InWalkOrder
  <2> QED  BY <2>1, <2>2, <2>3
<1>5. Elems(u) = L \cup M
  <2>1. Elems(u) \subseteq L \cup M
    BY <1>3 DEF Elems
  <2>2. L \subseteq Elems(u)
    <3> SUFFICES ASSUME NEW a \in L PROVE a \in Elems(u)
      OBVIOUS
    <3>1. PICK i \in 1..Len(s) : s[i] = a
      BY <1>1 DEF Lists, Elems
    <3>2. i \in DOMAIN u /\ u[i] = a
      BY <1>1, <1>2, <3>1
    <3> QED  BY <3>2 DEF Elems
  <2>3. M \subseteq Elems(u)
    <3> SUFFICES ASSUME NEW a \in M PROVE a \in Elems(u)
      OBVIOUS
    <3>1. PICK i \in 1..Len(t) : t[i] = a
      BY <1>1 DEF Lists, Elems
    <3> DEFINE j == i + Len(s)
    <3>2. j \in 1..(Len(s) + Len(t)) /\ j > Len(s) /\ j - Len(s) = i
      BY <1>1
    <3> HIDE DEF j
    <3>3. j \in DOMAIN u /\ u[j] = a
      BY <1>2, <3>1, <3>2
    <3> QED  BY <3>3 DEF Elems
  <2> QED  BY <2>1, <2>2, <2>3
<1> QED  BY <1>2, <1>4, <1>5 DEF Lists, u

\* Lists of sets that precede one another, put one behind another.
AreParts(d, V, n, q, part) ==
    /\ q \in [1..n -> Seq(V)]
    /\ \A i \in 1..n : part[i] \in SUBSET V /\ Lists(d, q[i], part[i])
    /\ \A i, j \in 1..n : i < j => Precede(d, part[i], part[j])

AllParts(n, part) == UNION {part[i] : i \in 1..n}

LEMMA FlattenLists ==
    ASSUME NEW d, NEW V, NEW n \in Nat, NEW q, NEW part,
           AreParts(d, V, n, q, part)
    PROVE  /\ Seqs!FlattenSeq(q) \in Seq(V)
           /\ Lists(d, Seqs!FlattenSeq(q), AllParts(n, part))
<1> USE DEF AreParts, AllParts
<1> DEFINE upto(k) == UNION {part[i] : i \in 1..k}
<1>1. q \in Seq(Seq(V)) /\ Len(q) = n
  OBVIOUS
<1>2. CASE n = 0
  <2>1. q = <<>> /\ Seqs!FlattenSeq(q) = <<>>
    BY <1>1, <1>2 DEF Seqs!FlattenSeq
  <2>2. upto(n) = {}
    BY <1>2
  <2>3. Lists(d, <<>>, {}) /\ <<>> \in Seq(V)
    BY DEF Lists, InWalkOrder, Elems
  <2> QED  BY <2>1, <2>2, <2>3
<1>3. CASE n # 0
  <2> DEFINE W == Seq(V)
             step == [iv \in (1..n) \X W |-> iv[2] \o q[iv[1]]]
             Body(f) == [i \in 1..n |-> IF i = 1 THEN q[i]
                                        ELSE f[i - 1] \o q[i]]
             F == CHOOSE f : f = Body(f)
  <2>1. Seqs!FlattenSeq(q) = F[n]
    BY <1>1, <1>3 DEF Seqs!FlattenSeq
  <2>2. IsStep(step, n, W) /\ <<>> \in W
    <3>1. \A iv \in (1..n) \X W : iv[2] \o q[iv[1]] \in W
      OBVIOUS
    <3> QED  BY <3>1 DEF IsStep
  <2>3. PICK f : Accumulates(f, <<>>, step, n, W)
    <3> HIDE DEF step, W
    <3> QED  BY <2>2, Accumulation
  <2>4. /\ f \in [0..n -> Seq(V)]
        /\ f[0] = <<>>
        /\ \A i \in 1..n : f[i] = f[i - 1] \o q[i]
    <3>1. f \in [0..n -> Seq(V)] /\ f[0] = <<>>
      BY <2>3 DEF Accumulates
    <3>2. ASSUME NEW i \in 1..n PROVE f[i] = f[i - 1] \o q[i]
      <4>1. f[i - 1] \in W
        BY <3>1
      <4>2. f[i] = step[<<i, f[i - 1]>>]
        BY <2>3 DEF Accumulates
      <4>3. <<i, f[i - 1]>> \in (1..n) \X W
        BY <4>1
      <4> QED  BY <4>2, <4>3
    <3> QED  BY <3>1, <3>2
  <2> DEFINE g == [i \in 1..n |-> f[i]]
  <2>5. g = Body(g)
    <3>1. ASSUME NEW i \in 1..n, i # 1 PROVE g[i - 1] = f[i - 1]
      BY <3>1
    <3>2. f[1] = q[1]
      <4>0. 1 \in 1..n /\ 1 - 1 = 0
        BY <1>3
      <4>1. f[1] = f[0] \o q[1]
        BY <2>4, <4>0
      <4>2. q[1] \in Seq(V)
        BY <1>3
      <4> QED  BY <2>4, <4>1, <4>2
    <3> QED  BY <2>4, <3>1, <3>2
  <2>6. F = Body(F)
    <3> HIDE DEF Body, g
    <3> QED  BY <2>5
  <2>7. \A i \in 1..n : F[i] = IF i = 1 THEN q[i] ELSE F[i - 1] \o q[i]
    BY <2>6
  <2> HIDE DEF F
  <2> DEFINE T == {k \in Nat : k + 1 <= n =>
                      F[k + 1] \in Seq(V) /\ Lists(d, F[k + 1], upto(k + 1))}
  <2>8. 0 \in T
    <3>1. F[1] = q[1] /\ q[1] \in Seq(V) /\ Lists(d, q[1], part[1])
      BY <1>3, <2>7
    <3>2. upto(1) = part[1]
      <4>1. 1..1 = {1}
        OBVIOUS
      <4> QED  BY <4>1
    <3> HIDE DEF upto
    <3>3. F[1] \in Seq(V) /\ Lists(d, F[1], upto(1))
      BY <3>1, <3>2
    <3>4. 0 + 1 = 1
      OBVIOUS
    <3> QED  BY <3>3, <3>4
  <2>9. ASSUME NEW k \in Nat, k \in T
        PROVE  k + 1 \in T
    <3> DEFINE i == k + 1
               j == k + 2
    <3> SUFFICES ASSUME j <= n
                 PROVE  F[j] \in Seq(V) /\ Lists(d, F[j], upto(j))
      OBVIOUS
    <3>1. i \in 1..n /\ j \in 1..n /\ j # 1 /\ j - 1 = i
      OBVIOUS
    <3>2. F[i] \in Seq(V) /\ Lists(d, F[i], upto(i))
      BY <2>9, <3>1
    <3>3. F[j] = F[i] \o q[j]
      BY <2>7, <3>1
    <3>4. q[j] \in Seq(V) /\ Lists(d, q[j], part[j])
      BY <3>1
    <3>5. Precede(d, upto(i), part[j])
      <4> SUFFICES ASSUME NEW a \in upto(i), NEW b \in part[j]
                   PROVE  a \in UpTo(d, b) /\ a # b
        BY DEF Precede
      <4>1. PICK l \in 1..i : a \in part[l]
        OBVIOUS
      <4>2. l \in 1..n /\ l < j
        BY <3>1
      <4> QED  BY <3>1, <4>1, <4>2 DEF Precede
    <3>6. upto(j) = upto(i) \cup part[j]
      <4>1. 1..j = 1..i \cup {j}
        OBVIOUS
      <4> QED  BY <4>1
    <3> HIDE DEF upto, i, j
    <3>7. F[j] \in Seq(V)
      BY <3>2, <3>3, <3>4
    <3>8. Lists(d, F[i] \o q[j], upto(i) \cup part[j])
      BY <3>2, <3>4, <3>5, ConcatLists
    <3> QED  BY <3>3, <3>6, <3>7, <3>8
  <2>10. n - 1 \in T
    <3>1. n - 1 \in Nat
      BY <1>3
    <3> HIDE DEF T
    <3>2. Nat \subseteq T
      BY <2>8, <2>9, NatSetInduction
    <3> QED  BY <3>1, <3>2
  <2>11. F[n] \in Seq(V) /\ Lists(d, F[n], upto(n))
    <3>1. n - 1 + 1 = n
      OBVIOUS
    <3> HIDE DEF upto
    <3> QED  BY <2>10, <3>1
  <2> QED  BY <2>1, <2>11
<1> QED  BY <1>2, <1>3

\* An element and what is below it.
Below(d, x) == {y \in Present(d) : x \in Ancestors(d, y)}

Visiting(d, Kept) ==
    CHOOSE f : f = [x \in Present(d) |->
        (IF x \in Kept THEN <<x>> ELSE <<>>)
           \o Seqs!FlattenSeq([i \in DOMAIN d.children[x] |->
                            f[d.children[x][i]]])]

\* A child is later in the walk.
LEMMA ChildIsLater ==
    ASSUME NEW d, IsTree(d), NEW x \in Present(d),
           NEW i \in DOMAIN d.children[x]
    PROVE  /\ d.children[x][i] \in Present(d) \ {ROOT_ID}
           /\ d.parent_of[d.children[x][i]] = x
           /\ Rank(d)[x] < Rank(d)[d.children[x][i]]
<1> DEFINE y == d.children[x][i]
<1>1. y \in Present(d) \ {ROOT_ID} /\ d.parent_of[y] = x
  <2> DEFINE c == d.children[x]
  <2>1. c \in Seq(Present(d))
    BY ChildList
  <2>2. i \in 1..Len(c)
    BY <2>1
  <2> HIDE DEF c
  <2> QED  BY <2>2, ChildList DEF c
<1> HIDE DEF y
<1>2. x \in UpTo(d, y) /\ x # y
  <2>1. x \in UpTo(d, x)
    BY AncestorsOf DEF UpTo
  <2> QED  BY <1>1, <2>1, UpToParent
<1>3. Rank(d)[x] < Rank(d)[y]
  BY <1>1, <1>2, RankGrows
<1> QED  BY <1>1, <1>3 DEF y

OnChildren(d, f, x) == [i \in DOMAIN d.children[x] |-> f[d.children[x][i]]]

LEMMA VisitingDef ==
    ASSUME NEW d, IsTree(d), NEW Kept
    PROVE  \A x \in Present(d) :
              Visiting(d, Kept)[x] =
                 (IF x \in Kept THEN <<x>> ELSE <<>>)
                    \o Seqs!FlattenSeq(OnChildren(d, Visiting(d, Kept), x))
<1> DEFINE N == Cardinality(Present(d))
           m(x) == N - Rank(d)[x]
           below(n) == {x \in Present(d) : m(x) < n}
           Sub(f, x) == OnChildren(d, f, x)
           Body(f, x) == (IF x \in Kept THEN <<x>> ELSE <<>>)
                            \o Seqs!FlattenSeq(Sub(f, x))
           Good(n) == \E f : \A x \in below(n) : f[x] = Body(f, x)
           T == {n \in Nat : Good(n)}
<1>1. N \in Nat /\ \A x \in Present(d) : Rank(d)[x] \in 0..N
  BY RankType
<1>2. \A x \in Present(d) : m(x) \in 0..N
  <2> HIDE DEF N
  <2> QED  BY <1>1
<1>3. 0 \in T
  <2>1. below(0) = {}
    BY <1>2
  <2> HIDE DEF below, Body
  <2> QED  BY <2>1
<1>4. ASSUME NEW n \in Nat, n \in T
      PROVE  n + 1 \in T
  <2>1. PICK f : \A x \in below(n) : f[x] = Body(f, x)
    BY <1>4
  <2> DEFINE g == [x \in below(n + 1) |-> Body(f, x)]
  <2>2. ASSUME NEW x \in below(n + 1)
        PROVE  Sub(g, x) = Sub(f, x)
    <3>1. ASSUME NEW i \in DOMAIN d.children[x]
          PROVE  g[d.children[x][i]] = f[d.children[x][i]]
      <4> DEFINE y == d.children[x][i]
      <4>1. y \in Present(d) /\ Rank(d)[x] < Rank(d)[y]
        BY ChildIsLater
      <4> HIDE DEF y
      <4>2. m(y) < m(x) /\ m(x) < n + 1 /\ m(x) \in Nat /\ m(y) \in Nat
        <5> HIDE DEF N
        <5> QED  BY <1>1, <1>2, <4>1
      <4>3. y \in below(n) /\ y \in below(n + 1)
        <5> HIDE DEF m
        <5> QED  BY <4>1, <4>2
      <4> HIDE DEF Body, below
      <4>4. g[y] = f[y]
        BY <2>1, <4>3
      <4> QED  BY <4>4 DEF y
    <3> HIDE DEF g
    <3> QED  BY <3>1 DEF OnChildren
  <2>3. \A x \in below(n + 1) : g[x] = Body(g, x)
    <3>1. \A x \in below(n + 1) : g[x] = Body(f, x)
      <4> HIDE DEF Body, below
      <4> QED  OBVIOUS
    <3> HIDE DEF g, Sub, below
    <3> QED  BY <2>2, <3>1
  <2>4. Good(n + 1)
    <3> HIDE DEF g, Body, below
    <3> QED  BY <2>3
  <2> HIDE DEF Good
  <2> QED  BY <2>4
<1>5. N + 1 \in T
  <2> HIDE DEF T, N
  <2>1. Nat \subseteq T
    BY <1>3, <1>4, NatSetInduction
  <2> QED  BY <1>1, <2>1
<1>6. PICK f : \A x \in Present(d) : f[x] = Body(f, x)
  <2>1. below(N + 1) = Present(d)
    <3> HIDE DEF N, m
    <3> QED  BY <1>1, <1>2
  <2>2. Good(N + 1)
    BY <1>5
  <2> HIDE DEF Body, below, N
  <2> QED  BY <2>1, <2>2
<1> DEFINE Whole(h) == [x \in Present(d) |-> Body(h, x)]
           g == Whole(f)
<1>7. \A x \in Present(d) : g[x] = f[x]
  <2> HIDE DEF Body
  <2> QED  BY <1>6
<1>8. \A x \in Present(d) : Sub(g, x) = Sub(f, x)
  <2> HIDE DEF g
  <2>1. \A x \in Present(d) : \A i \in DOMAIN d.children[x] :
           d.children[x][i] \in Present(d)
    BY ChildIsLater
  <2> QED  BY <1>7, <2>1 DEF OnChildren
<1>9. g = Whole(g)
  <2>1. \A x \in Present(d) : Body(g, x) = Body(f, x)
    <3> HIDE DEF g, Sub
    <3> QED  BY <1>8
  <2> HIDE DEF Body
  <2> QED  BY <2>1
<1>10. Visiting(d, Kept) = CHOOSE h : h = Whole(h)
  BY DEF Visiting, OnChildren
<1>11. Visiting(d, Kept) = Whole(Visiting(d, Kept))
  <2> HIDE DEF Whole, g
  <2> QED  BY <1>9, <1>10
<1>12. \A x \in Present(d) : Whole(Visiting(d, Kept))[x] = Body(Visiting(d, Kept), x)
  <2> HIDE DEF Body
  <2> QED  OBVIOUS
<1> HIDE DEF Whole
<1> QED  BY <1>11, <1>12

\* What is below one sibling is visited before what is below the next.
LEMMA SiblingsPrecede ==
    ASSUME NEW d, IsTree(d), NEW a \in Present(d), NEW b \in Present(d),
           LeftOf(d, a, b), NEW x \in Below(d, a), NEW y \in Below(d, b)
    PROVE  x \in UpTo(d, y) /\ x # y
<1>1. x \in Present(d) /\ y \in Present(d) /\ a \in Ancestors(d, x)
      /\ b \in Ancestors(d, y)
  BY DEF Below
<1>2. x \in UpTo(d, y)
  BY <1>1 DEF UpTo
<1>3. x # y
  <2> SUFFICES ASSUME x = y PROVE FALSE
    OBVIOUS
  <2>1. a = b
    BY <1>1, SiblingsPart DEF LeftOf
  <2> QED  BY <2>1, LeftOfOrders
<1> QED  BY <1>2, <1>3

\* An element is visited before what is below its children, and there is
\* nothing else below it.
LEMMA BelowParts ==
    ASSUME NEW d, IsTree(d), NEW x \in Present(d)
    PROVE  /\ Below(d, x) = {x} \cup UNION {Below(d, d.children[x][i]) :
                                              i \in DOMAIN d.children[x]}
           /\ \A i \in DOMAIN d.children[x] :
                 Precede(d, {x}, Below(d, d.children[x][i]))
<1> DEFINE c == d.children[x]
<1>1. /\ \A i \in DOMAIN c : c[i] \in Present(d) \ {ROOT_ID}
                             /\ d.parent_of[c[i]] = x
      /\ \A v \in Present(d) \ {ROOT_ID} :
            d.parent_of[v] = x => \E j \in DOMAIN c : c[j] = v
  <2>1. c \in Seq(Present(d))
    BY ChildList
  <2>2. DOMAIN c = 1..Len(c)
    BY <2>1
  <2> HIDE DEF c
  <2> QED  BY <2>2, ChildList DEF c
<1> HIDE DEF c
<1>2. x \in Below(d, x)
  BY AncestorsOf DEF Below
<1>3. ASSUME NEW i \in DOMAIN c, NEW y \in Below(d, c[i])
      PROVE  y \in Below(d, x) /\ x \in UpTo(d, y) /\ x # y
  <2>1. y \in Present(d) /\ c[i] \in Ancestors(d, y) /\ c[i] \in Present(d)
    BY <1>1 DEF Below
  <2>2. x \in Ancestors(d, c[i])
    <3>1. Ancestors(d, c[i]) = {c[i]} \cup Ancestors(d, x)
      BY <1>1, AncestorsOfChild
    <3> QED  BY <3>1, AncestorsOf
  <2>3. x \in Ancestors(d, y)
    BY <2>1, <2>2, AncestorsWithin
  <2>4. x \in UpTo(d, y)
    BY <2>3 DEF UpTo
  <2>5. x # y
    <3> SUFFICES ASSUME x = y PROVE FALSE
      OBVIOUS
    <3>1. c[i] = x \/ c[i][1] < x[1]
      BY <2>1, AncestorsWithin
    <3>2. x[1] < c[i][1] /\ x[1] \in Nat /\ c[i][1] \in Nat
      BY <1>1, TreeParts
    <3> QED  BY <3>1, <3>2
  <2> QED  BY <2>1, <2>3, <2>4, <2>5 DEF Below
<1>4. ASSUME NEW y \in Below(d, x), y # x
      PROVE  \E i \in DOMAIN c : y \in Below(d, c[i])
  <2>1. PICK v \in Present(d) \ {ROOT_ID} :
           d.parent_of[v] = x /\ v \in Ancestors(d, y)
    BY <1>4, ChildOnTheWay DEF Below
  <2>2. PICK i \in DOMAIN c : c[i] = v
    BY <1>1, <2>1
  <2> QED  BY <2>1, <2>2 DEF Below
<1>5. Below(d, x) = {x} \cup UNION {Below(d, c[i]) : i \in DOMAIN c}
  BY <1>2, <1>3, <1>4
<1>6. \A i \in DOMAIN c : Precede(d, {x}, Below(d, c[i]))
  BY <1>3 DEF Precede
<1> QED  BY <1>5, <1>6 DEF c

LEMMA VisitingLists ==
    ASSUME NEW d, IsTree(d), NEW Kept, NEW x \in Present(d)
    PROVE  Lists(d, Visiting(d, Kept)[x], Below(d, x) \cap Kept)
<1> DEFINE V == Visiting(d, Kept)
           Good(u) == /\ V[u] \in Seq(Present(d))
                      /\ Lists(d, V[u], Below(d, u) \cap Kept)
           bad == {u \in Present(d) : ~Good(u)}
           N == Cardinality(Present(d))
           m == [u \in Present(d) |-> N - Rank(d)[u]]
<1> SUFFICES ASSUME bad # {} PROVE FALSE
  OBVIOUS
<1>1. N \in Nat /\ \A u \in Present(d) : Rank(d)[u] \in 0..N
  BY RankType
<1>2. \A u \in Present(d) : m[u] = N - Rank(d)[u] /\ m[u] \in Nat
  <2>1. \A u \in Present(d) : m[u] = N - Rank(d)[u]
    OBVIOUS
  <2> HIDE DEF m, N
  <2> QED  BY <1>1, <2>1
<1>3. PICK u \in bad : \A v \in bad : m[u] <= m[v]
  <2>1. \A u \in bad : m[u] \in Nat
    BY <1>2
  <2> HIDE DEF m, bad
  <2> QED  BY <2>1, LeastMeasure
<1>4. u \in Present(d) /\ ~Good(u)
  BY <1>3
<1> DEFINE c == d.children[u]
           n == Len(c)
           q == [i \in DOMAIN c |-> V[c[i]]]
           part == [i \in 1..n |-> Below(d, c[i]) \cap Kept]
           head == IF u \in Kept THEN <<u>> ELSE <<>>
<1>5. /\ c \in Seq(Present(d)) /\ n \in Nat /\ DOMAIN c = 1..n
      /\ \A j, k \in 1..n : j < k => LeftOf(d, c[j], c[k])
  <2>1. c \in Seq(Present(d))
    BY <1>4, ChildList
  <2>2. n \in Nat /\ DOMAIN c = 1..n
    BY <2>1
  <2>3. \A j, k \in 1..n : j < k => LeftOf(d, c[j], c[k])
    BY <1>4, ChildList
  <2> QED  BY <2>1, <2>2, <2>3
<1>6. V[u] = head \o Seqs!FlattenSeq(q)
  <2>1. V[u] = (IF u \in Kept THEN <<u>> ELSE <<>>)
                  \o Seqs!FlattenSeq(OnChildren(d, V, u))
    BY <1>4, VisitingDef
  <2> QED  BY <2>1 DEF OnChildren
<1>7. \A i \in 1..n : c[i] \in Present(d) /\ Good(c[i])
  <2> SUFFICES ASSUME NEW i \in 1..n
               PROVE  c[i] \in Present(d) /\ Good(c[i])
    OBVIOUS
  <2>1. c[i] \in Present(d) /\ Rank(d)[u] < Rank(d)[c[i]]
    BY <1>4, <1>5, ChildIsLater
  <2> DEFINE y == c[i]
  <2> HIDE DEF y
  <2>2. y \in Present(d) /\ Rank(d)[u] < Rank(d)[y]
    BY <2>1 DEF y
  <2>3. m[y] < m[u] /\ m[y] \in Nat /\ m[u] \in Nat
    <3> HIDE DEF m, N
    <3> QED  BY <1>1, <1>2, <1>4, <2>2
  <2>4. y \notin bad
    <3> HIDE DEF m, bad
    <3> QED  BY <1>3, <2>3
  <2> QED  BY <2>2, <2>4 DEF y
<1>8. /\ q \in [1..n -> Seq(Present(d))]
      /\ \A i \in 1..n : /\ part[i] = Below(d, c[i]) \cap Kept
                         /\ part[i] \in SUBSET Present(d)
                         /\ Lists(d, q[i], part[i])
      /\ \A i, j \in 1..n : i < j => Precede(d, part[i], part[j])
  <2>1. \A i \in 1..n : q[i] = V[c[i]]
    BY <1>5
  <2>2. q \in [1..n -> Seq(Present(d))]
    <3>1. q = [i \in 1..n |-> V[c[i]]]
      BY <1>5
    <3> HIDE DEF V, c, q
    <3> QED  BY <1>7, <3>1
  <2>3. \A i \in 1..n : part[i] = Below(d, c[i]) \cap Kept
    OBVIOUS
  <2> HIDE DEF part, q, V, c, n
  <2>4. \A i \in 1..n : part[i] \in SUBSET Present(d) /\ Lists(d, q[i], part[i])
    BY <1>7, <2>1, <2>3 DEF Below
  <2>5. \A i, j \in 1..n : i < j => Precede(d, part[i], part[j])
    <3> SUFFICES ASSUME NEW i \in 1..n, NEW j \in 1..n, i < j,
                        NEW a \in Below(d, c[i]), NEW b \in Below(d, c[j])
                 PROVE  a \in UpTo(d, b) /\ a # b
      BY <2>3 DEF Precede
    <3>1. LeftOf(d, c[i], c[j])
      BY <1>5
    <3> QED  BY <1>7, <3>1, SiblingsPrecede
  <2> QED  BY <2>2, <2>3, <2>4, <2>5
<1> DEFINE rest == AllParts(n, part)
<1>9. Seqs!FlattenSeq(q) \in Seq(Present(d)) /\ Lists(d, Seqs!FlattenSeq(q), rest)
  <2>1. n \in Nat
    BY <1>5
  <2>2. AreParts(d, Present(d), n, q, part)
    <3> HIDE DEF part, q, n
    <3> QED  BY <1>8 DEF AreParts
  <2> HIDE DEF part, q, n
  <2> QED  BY <2>1, <2>2, FlattenLists
<1>10. Lists(d, head, {u} \cap Kept) /\ head \in Seq(Present(d))
  <2>1. CASE u \in Kept
    <3>1. head = <<u>> /\ {u} \cap Kept = {u}
      BY <2>1
    <3>2. Lists(d, <<u>>, {u}) /\ <<u>> \in Seq(Present(d))
      BY <1>4 DEF Lists, Elems, InWalkOrder
    <3> QED  BY <3>1, <3>2
  <2>2. CASE u \notin Kept
    <3>1. head = <<>> /\ {u} \cap Kept = {}
      BY <2>2
    <3>2. Lists(d, <<>>, {}) /\ <<>> \in Seq(Present(d))
      BY DEF Lists, Elems, InWalkOrder
    <3> QED  BY <3>1, <3>2
  <2> QED  BY <2>1, <2>2
<1>11. Below(d, u) \cap Kept = ({u} \cap Kept) \cup rest
  <2>1. Below(d, u) = {u} \cup UNION {Below(d, c[i]) : i \in 1..n}
    BY <1>4, <1>5, BelowParts
  <2>2. \A i \in 1..n : part[i] = Below(d, c[i]) \cap Kept
    BY <1>8
  <2> HIDE DEF part, c, n
  <2> QED  BY <2>1, <2>2 DEF AllParts
<1>12. Precede(d, {u} \cap Kept, rest)
  <2>1. \A i \in 1..n : Precede(d, {u}, Below(d, c[i]))
    BY <1>4, <1>5, BelowParts
  <2>2. \A i \in 1..n : part[i] = Below(d, c[i]) \cap Kept
    BY <1>8
  <2> HIDE DEF part, c, n
  <2> QED  BY <2>1, <2>2 DEF Precede, AllParts
<1>13. Lists(d, V[u], Below(d, u) \cap Kept)
  <2> HIDE DEF V, head, q, rest
  <2> QED  BY <1>6, <1>9, <1>10, <1>11, <1>12, ConcatLists
<1>14. V[u] \in Seq(Present(d))
  <2> DEFINE t == Seqs!FlattenSeq(q)
  <2>1. head \in Seq(Present(d)) /\ t \in Seq(Present(d)) /\ V[u] = head \o t
    BY <1>6, <1>9, <1>10
  <2> HIDE DEF V, head, t
  <2> QED  BY <2>1
<1> QED  BY <1>4, <1>13, <1>14

(***************************************************************************)
(* Document::visit_visible hands on each element of Kept once, in the      *)
(* order of UpTo.                                                          *)
(***************************************************************************)
LEMMA VisitLists ==
    ASSUME NEW d, IsTree(d), NEW Kept
    PROVE  Lists(d, Visit(d, Kept), Present(d) \cap Kept)
<1>1. Visit(d, Kept) = Visiting(d, Kept)[ROOT_ID]
  BY DEF Visit, Visiting
<1>2. ROOT_ID \in Present(d)
  BY DEF IsTree
<1>3. Below(d, ROOT_ID) = Present(d)
  <2> DEFINE R == Below(d, ROOT_ID)
  <2>1. ROOT_ID \in R
    BY <1>2, AncestorsOf DEF Below
  <2>2. ASSUME NEW u \in Present(d) \ {ROOT_ID}, d.parent_of[u] \in R
        PROVE  u \in R
    BY <2>2, AncestorsOfChild DEF Below
  <2> HIDE DEF R
  <2>3. Present(d) \subseteq R
    BY <2>1, <2>2, TreeInduction
  <2> QED  BY <2>3 DEF R, Below
<1> QED  BY <1>1, <1>2, <1>3, VisitingLists

LEMMA WalkLists ==
    ASSUME NEW d, IsTree(d)
    PROVE  Lists(d, Walk(d), Present(d))
<1>1. Present(d) \cap Present(d) = Present(d)
  OBVIOUS
<1> QED  BY <1>1, VisitLists DEF Walk

LEMMA VisibleLists ==
    ASSUME NEW d, IsTree(d)
    PROVE  Lists(d, Visible(d), Anchors(d) \ {ROOT_ID})
<1>1. Present(d) \cap (Anchors(d) \ {ROOT_ID}) = Anchors(d) \ {ROOT_ID}
  BY DEF Anchors
<1> QED  BY <1>1, VisitLists DEF Visible

-----------------------------------------------------------------------------
(***************************************************************************)
(* The document of operations whose parents are older than their children  *)
(* is such a tree.                                                         *)
(***************************************************************************)
OlderParents(O) == \A o \in Inserts(O) : o.parent[1] < o.id[1]

LEMMA DescendingSorted ==
    ASSUME NEW S \in SUBSET ElementID, IsFiniteSet(S),
           NEW i \in DOMAIN Descending(S), NEW j \in DOMAIN Descending(S), i < j
    PROVE  Greater(Descending(S)[i], Descending(S)[j])
<1> DEFINE D == Descending(S)
           above(x) == {y \in S : Greater(y, x)}
<1>1. /\ D \in Seq(S) /\ Len(D) = Cardinality(S)
      /\ \A k \in 1..Cardinality(S) : Cardinality(above(D[k])) = k - 1
  BY DescendingLists
<1>2. i \in 1..Cardinality(S) /\ j \in 1..Cardinality(S)
  BY <1>1
<1> DEFINE a == D[i]
           b == D[j]
<1>3. a \in S /\ b \in S /\ a \in ElementID /\ b \in ElementID
  <2> HIDE DEF D
  <2>1. DOMAIN D = 1..Len(D)
    BY <1>1
  <2> QED  BY <1>1, <1>2, <2>1
<1>4. Cardinality(above(a)) = i - 1 /\ Cardinality(above(b)) = j - 1
  BY <1>1, <1>2
<1> HIDE DEF a, b, D
<1>5. a # b
  <2> HIDE DEF above
  <2> QED  BY <1>2, <1>4
<1>6. ~Greater(b, a)
  <2> SUFFICES ASSUME Greater(b, a) PROVE FALSE
    OBVIOUS
  <2>1. above(b) \subseteq above(a)
    BY <1>3, GreaterTransitive
  <2>2. IsFiniteSet(above(a))
    BY FS_Subset
  <2>3. Cardinality(above(b)) <= Cardinality(above(a))
    BY <2>1, <2>2, FS_Subset
  <2> QED  BY <1>2, <1>4, <2>3
<1> QED  BY <1>3, <1>5, <1>6, GreaterTotal DEF a, b, D

LEMMA DocumentIsTree ==
    ASSUME NEW O, Legal(O), OlderParents(O)
    PROVE  IsTree(DocumentOf(O))
<1> DEFINE d == DocumentOf(O)
           R == Rooted(O)
           I == Inserts(O)
<1>1. /\ Present(d) = R
      /\ d.tombstones = RemovedBy(O) \cap R
      /\ d.parent_of = RootedParents(O)
      /\ d.children = RootedChildren(O)
  BY DocumentFields
<1>2. /\ I \subseteq InsertOperation
      /\ \A o \in I : InsertOf(I, o.id) = o
      /\ \A o \in I : o.id \in GeneratedID /\ o.parent \in ElementID
  <2>1. I \subseteq InsertOperation /\ \A o \in I : InsertOf(I, o.id) = o
    BY LegalSubset
  <2> QED  BY <2>1, OperationFields
<1>3. /\ R \subseteq {ROOT_ID} \cup Ids(I)
      /\ ROOT_ID \in R
      /\ \A o \in I : o.parent \in R => o.id \in R
  BY RootedLeast DEF ChainClosed
<1>4. IsFiniteSet(R) /\ R \subseteq ElementID
  <2>1. IsFiniteSet(I)
    <3>1. I \in SUBSET O /\ IsFiniteSet(O)
      BY DEF Legal, Inserts
    <3> QED  BY <3>1, FS_Subset
  <2>2. IsFiniteSet(Ids(I))
    <3> DEFINE f == [o \in I |-> o.id]
    <3>1. f \in Surjection(I, Ids(I))
      BY DEF Surjection, Ids
    <3> QED  BY <2>1, <3>1, FS_Surjection
  <2>3. IsFiniteSet({ROOT_ID} \cup Ids(I))
    BY <2>2, FS_Singleton, FS_Union
  <2>4. Ids(I) \subseteq ElementID /\ ROOT_ID \in ElementID
    BY <1>2 DEF Ids, ElementID
  <2> QED  BY <1>3, <2>3, <2>4, FS_Subset
<1>5. ASSUME NEW x \in R, x # ROOT_ID
      PROVE  \E o \in I : o.id = x /\ o.parent \in R /\ RootedParents(O)[x] = o.parent
  <2>1. PICK o \in I : o.id = x /\ o.parent \in R
    BY <1>5, RootedParent
  <2> QED  BY <1>2, <1>5, <2>1 DEF RootedParents
<1>6. /\ RootedParents(O) \in [R -> R]
      /\ RootedParents(O)[ROOT_ID] = ROOT_ID
      /\ \A x \in R \ {ROOT_ID} : RootedParents(O)[x][1] < x[1]
  <2>1. DOMAIN RootedParents(O) = R /\ RootedParents(O)[ROOT_ID] = ROOT_ID
    BY <1>3 DEF RootedParents
  <2>2. RootedParents(O) \in [R -> R]
    <3>1. \A x \in R : RootedParents(O)[x] \in R
      BY <1>3, <1>5, <2>1
    <3>2. RootedParents(O) = [x \in R |-> RootedParents(O)[x]]
      BY DEF RootedParents
    <3> QED  BY <3>1, <3>2
  <2> QED  BY <1>5, <2>1, <2>2 DEF OlderParents
<1>7. ASSUME NEW p \in R
      PROVE  /\ RootedChildren(O)[p] = Descending(ChildIds(I, p))
             /\ ChildIds(I, p) \in SUBSET ElementID
             /\ IsFiniteSet(ChildIds(I, p))
             /\ ChildIds(I, p) = {x \in R \ {ROOT_ID} : RootedParents(O)[x] = p}
  <2>1. ChildIds(I, p) \in SUBSET GeneratedID /\ IsFiniteSet(ChildIds(I, p))
    BY ChildIdsListed
  <2>2. RootedChildren(O)[p] = Descending(ChildIds(I, p))
    BY DEF RootedChildren
  <2>3. ASSUME NEW x \in ChildIds(I, p)
        PROVE  x \in R \ {ROOT_ID} /\ RootedParents(O)[x] = p
    <3>1. PICK o \in I : o.id = x /\ o.parent = p
      BY DEF ChildIds, Ids
    <3>2. x \in R /\ x # ROOT_ID
      BY <1>2, <1>3, <3>1, GeneratedIsNotRoot
    <3> QED  BY <1>2, <3>1, <3>2 DEF RootedParents
  <2>4. ASSUME NEW x \in R \ {ROOT_ID}, RootedParents(O)[x] = p
        PROVE  x \in ChildIds(I, p)
    BY <1>5, <2>4 DEF ChildIds, Ids
  <2> QED  BY <2>1, <2>2, <2>3, <2>4 DEF ElementID
<1>8. RootedChildren(O) \in [R -> Seq(R)]
  <2>1. ASSUME NEW p \in R PROVE RootedChildren(O)[p] \in Seq(R)
    <3>1. Descending(ChildIds(I, p)) \in Seq(ChildIds(I, p))
      BY <1>7, DescendingLists
    <3>2. ChildIds(I, p) \subseteq R
      BY <1>7
    <3> HIDE DEF I, R
    <3>3. Descending(ChildIds(I, p)) \in Seq(R)
      BY <3>1, <3>2
    <3> QED  BY <1>7, <3>3
  <2>2. RootedChildren(O) = [p \in R |-> RootedChildren(O)[p]]
    BY DEF RootedChildren
  <2> QED  BY <2>1, <2>2
<1>9. ASSUME NEW p \in R
      PROVE  /\ Elems(RootedChildren(O)[p]) =
                   {x \in R \ {ROOT_ID} : RootedParents(O)[x] = p}
             /\ \A i, j \in DOMAIN RootedChildren(O)[p] : i < j =>
                   Greater(RootedChildren(O)[p][i], RootedChildren(O)[p][j])
  BY <1>7, DescendingLists, DescendingSorted
<1>10. d.tombstones \subseteq R
  BY <1>1
<1> HIDE DEF d, R, I
<1> QED  BY <1>1, <1>3, <1>4, <1>6, <1>8, <1>9, <1>10 DEF IsTree, d, R

-----------------------------------------------------------------------------
(***************************************************************************)
(* Lines and columns.                                                      *)
(***************************************************************************)

\* The function PositionIn counts with.
Counting(d, text, k) ==
    CHOOSE f : f = [i \in 1..k |->
                      IF i = 1 THEN <<0, 0>>
                      ELSE IF IsNewLine(d, text[i - 1])
                           THEN <<f[i - 1][1] + 1, 0>>
                      ELSE <<f[i - 1][1], f[i - 1][2] + 1>>]

\* The place after the element x, when the place before it is v.
PlaceAfter(d, x, v) ==
    IF IsNewLine(d, x) THEN <<v[1] + 1, 0>> ELSE <<v[1], v[2] + 1>>

LEMMA CountingDef ==
    ASSUME NEW d, NEW text, NEW k \in Nat \ {0}
    PROVE  /\ Counting(d, text, k)[1] = <<0, 0>>
           /\ \A i \in 2..k :
                 Counting(d, text, k)[i] =
                    PlaceAfter(d, text[i - 1], Counting(d, text, k)[i - 1])
<1> DEFINE n == k - 1
           V == Nat \X Nat
           step == [p \in (1..n) \X V |-> PlaceAfter(d, text[p[1]], p[2])]
<1>1. n \in Nat /\ <<0, 0>> \in V
  OBVIOUS
<1>2. IsStep(step, n, V)
  <2>1. ASSUME NEW v \in V, NEW x
        PROVE  PlaceAfter(d, x, v) \in V
    BY DEF PlaceAfter
  <2>2. \A p \in (1..n) \X V : p[2] \in V
    OBVIOUS
  <2> HIDE DEF V
  <2>3. \A p \in (1..n) \X V : step[p] \in V
    BY <2>1, <2>2
  <2> QED  BY <2>3 DEF IsStep
<1> HIDE DEF V, step, n
<1>3. PICK f : Accumulates(f, <<0, 0>>, step, n, V)
  BY <1>1, <1>2, Accumulation
<1>4. /\ f[0] = <<0, 0>>
      /\ \A i \in 1..n : f[i] = PlaceAfter(d, text[i], f[i - 1])
  <2>1. f[0] = <<0, 0>> /\ \A i \in 1..n : f[i] = step[<<i, f[i - 1]>>]
    BY <1>3 DEF Accumulates
  <2>2. ASSUME NEW i \in 1..n
        PROVE  step[<<i, f[i - 1]>>] = PlaceAfter(d, text[i], f[i - 1])
    <3>1. i - 1 \in 0..n
      BY <1>1
    <3>2. f[i - 1] \in V
      BY <1>3, <3>1 DEF Accumulates
    <3>3. <<i, f[i - 1]>> \in (1..n) \X V
      BY <3>2
    <3> QED  BY <3>3 DEF step
  <2> QED  BY <2>1, <2>2
<1> DEFINE g == [i \in 1..k |-> f[i - 1]]
<1>5. g = [i \in 1..k |->
             IF i = 1 THEN <<0, 0>>
             ELSE IF IsNewLine(d, text[i - 1]) THEN <<g[i - 1][1] + 1, 0>>
             ELSE <<g[i - 1][1], g[i - 1][2] + 1>>]
  <2> SUFFICES ASSUME NEW i \in 1..k
               PROVE  g[i] = IF i = 1 THEN <<0, 0>>
                             ELSE IF IsNewLine(d, text[i - 1])
                                  THEN <<g[i - 1][1] + 1, 0>>
                             ELSE <<g[i - 1][1], g[i - 1][2] + 1>>
    OBVIOUS
  <2>1. CASE i = 1
    BY <1>4, <2>1
  <2>2. CASE i # 1
    <3>1. i - 1 \in 1..n /\ i - 1 \in 1..k /\ g[i - 1] = f[i - 1 - 1]
      BY <2>2 DEF n
    <3>2. g[i] = PlaceAfter(d, text[i - 1], g[i - 1])
      BY <1>4, <3>1
    <3> HIDE DEF g
    <3> QED  BY <2>2, <3>2 DEF PlaceAfter
  <2> QED  BY <2>1, <2>2
<1> HIDE DEF g
<1> DEFINE c == Counting(d, text, k)
<1>6. c = [i \in 1..k |->
             IF i = 1 THEN <<0, 0>>
             ELSE IF IsNewLine(d, text[i - 1]) THEN <<c[i - 1][1] + 1, 0>>
             ELSE <<c[i - 1][1], c[i - 1][2] + 1>>]
  BY <1>5 DEF Counting
<1> HIDE DEF c
<1>7. c[1] = <<0, 0>>
  BY <1>6
<1>8. ASSUME NEW i \in 2..k
      PROVE  c[i] = PlaceAfter(d, text[i - 1], c[i - 1])
  <2>1. i \in 1..k /\ i # 1
    OBVIOUS
  <2> QED  BY <1>6, <2>1 DEF PlaceAfter
<1> QED  BY <1>7, <1>8 DEF c

LEMMA CountingType ==
    ASSUME NEW d, NEW text, NEW k \in Nat \ {0}, NEW j \in 1..k
    PROVE  Counting(d, text, k)[j] \in Nat \X Nat
<1> DEFINE c == Counting(d, text, k)
           T == {i \in Nat : i + 1 \in 1..k => c[i + 1] \in Nat \X Nat}
<1>1. c[1] = <<0, 0>>
      /\ \A i \in 2..k : c[i] = PlaceAfter(d, text[i - 1], c[i - 1])
  BY CountingDef
<1> HIDE DEF c
<1>2. 0 \in T
  <2>1. c[1] \in Nat \X Nat
    BY <1>1
  <2>2. 0 + 1 = 1 /\ 0 \in Nat
    OBVIOUS
  <2> QED  BY <2>1, <2>2
<1>3. \A i \in Nat : i \in T => i + 1 \in T
  <2> SUFFICES ASSUME NEW i \in Nat, i \in T, i + 1 + 1 \in 1..k
               PROVE  c[i + 1 + 1] \in Nat \X Nat
    OBVIOUS
  <2>1. c[i + 1] \in Nat \X Nat
    OBVIOUS
  <2>2. i + 1 + 1 \in 2..k /\ i + 1 + 1 - 1 = i + 1
    OBVIOUS
  <2>3. c[i + 1 + 1] = PlaceAfter(d, text[i + 1], c[i + 1])
    BY <1>1, <2>2
  <2> HIDE DEF T
  <2> QED  BY <2>1, <2>3 DEF PlaceAfter
<1> HIDE DEF T
<1>4. Nat \subseteq T
  BY <1>2, <1>3, NatSetInduction
<1>5. j - 1 \in T /\ j - 1 + 1 = j
  BY <1>4
<1> QED  BY <1>5 DEF T, c

\* A place of the text is a line and a column.
LEMMA PositionInType ==
    ASSUME NEW d, NEW text, NEW k \in Nat \ {0}
    PROVE  PositionIn(d, text, k) \in Nat \X Nat
<1>1. PositionIn(d, text, k) = Counting(d, text, k)[k]
  BY DEF PositionIn, Counting
<1> QED  BY <1>1, CountingType

\* An element of the text has a place in the sequence.
LEMMA IndexInText ==
    ASSUME NEW s, NEW x \in Elems(s)
    PROVE  IndexIn(s, x) \in DOMAIN s /\ s[IndexIn(s, x)] = x
BY DEF IndexIn, Elems

\* Document::get_cursor_position answers a line and a column for an anchor.
LEMMA CursorPositionType ==
    ASSUME NEW d, IsTree(d), NEW x \in Anchors(d)
    PROVE  CursorPosition(d, x) \in Nat \X Nat
<1> DEFINE text == Visible(d)
           k == IndexIn(text, x)
<1>1. CASE x = ROOT_ID
  BY <1>1 DEF CursorPosition
<1>2. CASE x # ROOT_ID
  <2>1. text \in Seq(Anchors(d) \ {ROOT_ID}) /\ x \in Elems(text)
    BY <1>2, VisibleLists DEF Lists
  <2>2. k \in DOMAIN text
    BY <2>1, IndexInText
  <2>3. k \in Nat \ {0}
    BY <2>1, <2>2
  <2>4. LineColumn(d, x) \in Nat \X Nat
    BY <2>3, PositionInType DEF LineColumn
  <2> QED  BY <1>2, <2>4 DEF CursorPosition
<1> QED  BY <1>1, <1>2

\* Document::get_anchor_at answers with an anchor, wherever it is asked.
LEMMA AnchorAtType ==
    ASSUME NEW d, IsTree(d), NEW line, NEW column
    PROVE  AnchorAt(d, line, column) \in Anchors(d) \cup {NoElement}
<1> DEFINE text == Visible(d)
           at == {k \in 1..Len(text) + 1 :
                     PositionIn(d, text, k) = <<line, column>>}
           k == CHOOSE i \in at : TRUE
<1>1. text \in Seq(Anchors(d) \ {ROOT_ID})
  BY VisibleLists DEF Lists
<1>2. AnchorAt(d, line, column) = IF at = {} THEN NoElement
                                  ELSE IF k = 1 THEN ROOT_ID
                                  ELSE text[k - 1]
  BY DEF AnchorAt
<1>3. at \subseteq 1..Len(text) + 1
  OBVIOUS
<1>4. ROOT_ID \in Anchors(d)
  BY DEF Anchors
<1> HIDE DEF at, text
<1>5. CASE at # {} /\ k # 1
  <2>1. k \in 1..Len(text) + 1
    BY <1>3, <1>5
  <2> HIDE DEF k
  <2>2. k - 1 \in 1..Len(text)
    BY <1>1, <1>5, <2>1
  <2>3. text[k - 1] \in Anchors(d)
    BY <1>1, <2>2
  <2> QED  BY <1>2, <1>5, <2>3
<1> QED  BY <1>2, <1>4, <1>5

-----------------------------------------------------------------------------
(***************************************************************************)
(* Ranges of the text.                                                     *)
(***************************************************************************)

\* The two functions of VisibleRange.
Collecting(text, start, end) ==
    CHOOSE f : f = [k \in 0..Len(text) |->
                      IF k = 0 THEN start = ROOT_ID
                      ELSE text[k] # end /\ (text[k] = start \/ f[k - 1])]

Collected(text, start, collecting) ==
    CHOOSE f : f = [k \in 0..Len(text) |->
                      IF k = 0 THEN <<>>
                      ELSE IF collecting[k - 1] /\ text[k] # start
                           THEN Append(f[k - 1], text[k])
                           ELSE f[k - 1]]

LEMMA CollectingDef ==
    ASSUME NEW text, Len(text) \in Nat, NEW start, NEW end
    PROVE  LET c == Collecting(text, start, end)
           IN  /\ c[0] = (start = ROOT_ID)
               /\ \A k \in 1..Len(text) :
                     c[k] = (text[k] # end /\ (text[k] = start \/ c[k - 1]))
<1> DEFINE n == Len(text)
           step == [p \in (1..n) \X BOOLEAN |->
                      text[p[1]] # end /\ (text[p[1]] = start \/ p[2])]
           base == start = ROOT_ID
<1>1. IsStep(step, n, BOOLEAN) /\ base \in BOOLEAN /\ n \in Nat
  BY DEF IsStep
<1> HIDE DEF n, step, base
<1>2. PICK f : Accumulates(f, base, step, n, BOOLEAN)
  BY <1>1, Accumulation
<1>3. f \in [0..n -> BOOLEAN] /\ f[0] = base
  BY <1>2 DEF Accumulates
<1>4. ASSUME NEW k \in 1..n
      PROVE  f[k] = (text[k] # end /\ (text[k] = start \/ f[k - 1]))
  <2>1. k - 1 \in 0..n
    BY <1>1
  <2>2. <<k, f[k - 1]>> \in (1..n) \X BOOLEAN
    BY <1>3, <2>1
  <2>3. f[k] = step[<<k, f[k - 1]>>]
    BY <1>2 DEF Accumulates
  <2> QED  BY <2>2, <2>3 DEF step
<1>5. f = [k \in 0..n |->
             IF k = 0 THEN base
             ELSE text[k] # end /\ (text[k] = start \/ f[k - 1])]
  <2>1. f = [k \in 0..n |-> f[k]]
    BY <1>3
  <2>2. ASSUME NEW k \in 0..n, k # 0
        PROVE  k \in 1..n
    BY <1>1, <2>2
  <2> QED  BY <1>3, <1>4, <2>1, <2>2
<1> DEFINE c == Collecting(text, start, end)
<1>6. c = [k \in 0..n |->
             IF k = 0 THEN base
             ELSE text[k] # end /\ (text[k] = start \/ c[k - 1])]
  BY <1>5 DEF Collecting, n, base
<1> HIDE DEF c
<1>7. c[0] = base
  BY <1>1, <1>6
<1>8. ASSUME NEW k \in 1..n
      PROVE  c[k] = (text[k] # end /\ (text[k] = start \/ c[k - 1]))
  <2>1. k \in 0..n /\ k # 0
    BY <1>1
  <2> QED  BY <1>6, <2>1
<1> QED  BY <1>7, <1>8 DEF c, n, base

LEMMA CollectedDef ==
    ASSUME NEW V, NEW text \in Seq(V), NEW start, NEW collecting
    PROVE  LET c == Collected(text, start, collecting)
           IN  /\ c[0] = <<>>
               /\ \A k \in 1..Len(text) :
                     c[k] = IF collecting[k - 1] /\ text[k] # start
                            THEN Append(c[k - 1], text[k])
                            ELSE c[k - 1]
<1> DEFINE n == Len(text)
           step == [p \in (1..n) \X Seq(V) |->
                      IF collecting[p[1] - 1] /\ text[p[1]] # start
                      THEN Append(p[2], text[p[1]]) ELSE p[2]]
<1>1. IsStep(step, n, Seq(V)) /\ n \in Nat
  <2>1. \A p \in (1..n) \X Seq(V) : step[p] \in Seq(V)
    <3> SUFFICES ASSUME NEW i \in 1..n, NEW v \in Seq(V)
                 PROVE  step[<<i, v>>] \in Seq(V)
      BY Zenon
    <3>1. text[i] \in V
      OBVIOUS
    <3>2. Append(v, text[i]) \in Seq(V)
      BY <3>1
    <3> QED  BY <3>2
  <2> QED  BY <2>1 DEF IsStep
<1>2. <<>> \in Seq(V)
  OBVIOUS
<1> HIDE DEF n, step
<1>3. PICK f : Accumulates(f, <<>>, step, n, Seq(V))
  BY <1>1, <1>2, Accumulation
<1>4. f \in [0..n -> Seq(V)] /\ f[0] = <<>>
  BY <1>3 DEF Accumulates
<1>5. ASSUME NEW k \in 1..n
      PROVE  f[k] = IF collecting[k - 1] /\ text[k] # start
                    THEN Append(f[k - 1], text[k]) ELSE f[k - 1]
  <2>1. k - 1 \in 0..n
    BY <1>1
  <2>2. <<k, f[k - 1]>> \in (1..n) \X Seq(V)
    BY <1>4, <2>1
  <2>3. f[k] = step[<<k, f[k - 1]>>]
    BY <1>3 DEF Accumulates
  <2> QED  BY <2>2, <2>3 DEF step
<1>6. f = [k \in 0..n |->
             IF k = 0 THEN <<>>
             ELSE IF collecting[k - 1] /\ text[k] # start
                  THEN Append(f[k - 1], text[k]) ELSE f[k - 1]]
  <2>1. f = [k \in 0..n |-> f[k]]
    BY <1>4
  <2>2. ASSUME NEW k \in 0..n, k # 0
        PROVE  k \in 1..n
    BY <1>1, <2>2
  <2> QED  BY <1>4, <1>5, <2>1, <2>2
<1> DEFINE c == Collected(text, start, collecting)
<1>7. c = [k \in 0..n |->
             IF k = 0 THEN <<>>
             ELSE IF collecting[k - 1] /\ text[k] # start
                  THEN Append(c[k - 1], text[k]) ELSE c[k - 1]]
  BY <1>6 DEF Collected, n
<1> HIDE DEF c
<1>8. c[0] = <<>>
  BY <1>1, <1>7
<1>9. ASSUME NEW k \in 1..n
      PROVE  c[k] = IF collecting[k - 1] /\ text[k] # start
                    THEN Append(c[k - 1], text[k]) ELSE c[k - 1]
  <2>1. k \in 0..n /\ k # 0
    BY <1>1
  <2> QED  BY <1>7, <2>1
<1> QED  BY <1>8, <1>9 DEF c, n

\* What has been collected is a sequence of elements of the text.
LEMMA CollectedType ==
    ASSUME NEW V, NEW text \in Seq(V), NEW start, NEW collecting,
           NEW j \in 0..Len(text)
    PROVE  Collected(text, start, collecting)[j] \in Seq(V)
<1> DEFINE c == Collected(text, start, collecting)
           n == Len(text)
           T == {k \in Nat : k \in 0..n => c[k] \in Seq(V)}
<1>1. /\ c[0] = <<>>
      /\ \A k \in 1..n : c[k] = IF collecting[k - 1] /\ text[k] # start
                                THEN Append(c[k - 1], text[k]) ELSE c[k - 1]
  BY CollectedDef
<1>2. n \in Nat /\ \A k \in 1..n : text[k] \in V
  OBVIOUS
<1> HIDE DEF c, n
<1>3. 0 \in T
  <2>1. <<>> \in Seq(V)
    OBVIOUS
  <2> QED  BY <1>1, <2>1
<1>4. \A k \in Nat : k \in T => k + 1 \in T
  <2> SUFFICES ASSUME NEW k \in Nat, k \in T, k + 1 \in 0..n
               PROVE  c[k + 1] \in Seq(V)
    OBVIOUS
  <2>1. k + 1 \in 1..n /\ k + 1 - 1 = k /\ c[k] \in Seq(V)
    BY <1>2
  <2>2. c[k + 1] = IF collecting[k] /\ text[k + 1] # start
                   THEN Append(c[k], text[k + 1]) ELSE c[k]
    BY <1>1, <2>1
  <2>3. text[k + 1] \in V
    BY <1>2, <2>1
  <2>4. Append(c[k], text[k + 1]) \in Seq(V)
    BY <2>1, <2>3
  <2> QED  BY <2>1, <2>2, <2>4
<1> HIDE DEF T
<1>5. Nat \subseteq T
  BY <1>3, <1>4, NatSetInduction
<1>6. j \in T /\ j \in 0..n
  BY <1>5 DEF n
<1> QED  BY <1>6 DEF T, c

LEMMA VisibleRangeDef ==
    ASSUME NEW d, NEW start, NEW end
    PROVE  VisibleRange(d, start, end) =
              IF start = end THEN <<>>
              ELSE Collected(Visible(d), start,
                             Collecting(Visible(d), start, end))
                      [Len(Visible(d))]
BY DEF VisibleRange, Collected, Collecting

\* Document::get_visible_range gives elements of the text, whatever its ends.
LEMMA VisibleRangeType ==
    ASSUME NEW d, IsTree(d), NEW start, NEW end
    PROVE  VisibleRange(d, start, end) \in Seq(Anchors(d) \ {ROOT_ID})
<1> DEFINE V == Anchors(d) \ {ROOT_ID}
           text == Visible(d)
           collecting == Collecting(text, start, end)
<1>1. text \in Seq(V)
  BY VisibleLists DEF Lists
<1>2. Len(text) \in 0..Len(text)
  BY <1>1
<1> HIDE DEF V, text, collecting
<1>3. Collected(text, start, collecting)[Len(text)] \in Seq(V)
  BY <1>1, <1>2, CollectedType
<1>4. <<>> \in Seq(V)
  OBVIOUS
<1> QED  BY <1>3, <1>4, VisibleRangeDef DEF V, text, collecting

-----------------------------------------------------------------------------
(***************************************************************************)
(* The neighbours of an element, by its place in the walk.                 *)
(***************************************************************************)

\* In a list in walk order, places and elements are ordered alike.
LEMMA ListPlaces ==
    ASSUME NEW d, IsTree(d), NEW M \in SUBSET Present(d), NEW s, Lists(d, s, M),
           NEW i \in DOMAIN s, NEW j \in DOMAIN s
    PROVE  /\ (s[i] \in UpTo(d, s[j])) = (i <= j)
           /\ (s[i] = s[j]) = (i = j)
           /\ s[i] \in M
<1>1. s \in Seq(M) /\ Len(s) \in Nat /\ i \in Nat /\ j \in Nat
  BY DEF Lists
<1>2. s[i] \in M /\ s[j] \in M
  BY <1>1
<1>3. s[i] \in UpTo(d, s[i])
  BY <1>2, AncestorsOf DEF UpTo
<1>4. i < j => s[i] \in UpTo(d, s[j]) /\ s[i] # s[j]
  BY DEF Lists, InWalkOrder
<1>5. j < i => s[i] \notin UpTo(d, s[j]) /\ s[i] # s[j]
  <2> SUFFICES ASSUME j < i
               PROVE  s[i] \notin UpTo(d, s[j]) /\ s[i] # s[j]
    OBVIOUS
  <2>1. s[j] \in UpTo(d, s[i]) /\ s[j] # s[i]
    BY DEF Lists, InWalkOrder
  <2> QED  BY <1>2, <2>1, UpToAntisymmetric
<1> QED  BY <1>1, <1>2, <1>3, <1>4, <1>5

\* successor and predecessor step through the walk.
LEMMA WalkSteps ==
    ASSUME NEW d, IsTree(d), NEW i \in DOMAIN Walk(d)
    PROVE  LET walk == Walk(d)
               next == Successor(d, walk[i])
           IN  /\ walk[i] \in Present(d)
               /\ next = IF i = Len(walk) THEN NoElement ELSE walk[i + 1]
               /\ next # NoElement => Predecessor(d, next) = walk[i]
<1> DEFINE walk == Walk(d)
           x == walk[i]
           next == Successor(d, x)
<1>1. Lists(d, walk, Present(d)) /\ Present(d) \in SUBSET Present(d)
  BY WalkLists
<1>2. /\ walk \in Seq(Present(d)) /\ Len(walk) \in Nat
      /\ DOMAIN walk = 1..Len(walk)
      /\ Present(d) = {walk[k] : k \in DOMAIN walk}
  BY <1>1 DEF Lists, Elems
<1> HIDE DEF walk
<1>3. \A k, m \in DOMAIN walk : /\ (walk[k] \in UpTo(d, walk[m])) = (k <= m)
                                /\ (walk[k] = walk[m]) = (k = m)
  BY <1>1, ListPlaces
<1>4. i \in 1..Len(walk)
  BY <1>2 DEF walk
<1>5. x \in Present(d)
  BY <1>2, <1>4
<1> HIDE DEF x, next
<1>6. \/ next = NoElement /\ UpTo(d, x) = Present(d)
      \/ /\ next \in Present(d) \ {ROOT_ID}
         /\ Predecessor(d, next) = x
         /\ UpTo(d, next) = UpTo(d, x) \cup {next}
         /\ next \notin UpTo(d, x)
  BY <1>5, SuccessorIs DEF next
<1>7. CASE next = NoElement /\ UpTo(d, x) = Present(d)
  <2>1. Len(walk) \in 1..Len(walk)
    BY <1>2, <1>4
  <2>2. walk[Len(walk)] \in UpTo(d, walk[i])
    BY <1>2, <1>7, <2>1 DEF x
  <2>3. Len(walk) <= i
    BY <1>2, <1>3, <1>4, <2>1, <2>2
  <2>4. i = Len(walk)
    BY <1>2, <1>4, <2>3
  <2> QED  BY <1>5, <1>7, <2>4 DEF x, next, walk
<1>8. CASE /\ next \in Present(d) \ {ROOT_ID}
           /\ Predecessor(d, next) = x
           /\ UpTo(d, next) = UpTo(d, x) \cup {next}
           /\ next \notin UpTo(d, x)
  <2>1. PICK k \in DOMAIN walk : next = walk[k]
    BY <1>2, <1>8
  <2>2. k \in 1..Len(walk) /\ ~(k <= i)
    BY <1>2, <1>3, <1>4, <1>8, <2>1 DEF x
  <2>3. i + 1 \in 1..Len(walk) /\ i + 1 <= k
    BY <1>2, <1>4, <2>2
  <2>4. walk[i + 1] \in UpTo(d, next)
    BY <1>2, <1>3, <2>1, <2>3
  <2>5. walk[i + 1] \notin UpTo(d, x)
    <3>1. ~(i + 1 <= i)
      BY <1>4
    <3> QED  BY <1>2, <1>3, <1>4, <2>3, <3>1 DEF x
  <2>6. next = walk[i + 1] /\ i # Len(walk)
    BY <1>2, <1>8, <2>3, <2>4, <2>5
  <2> QED  BY <1>5, <1>8, <2>6 DEF x, next, walk
<1> QED  BY <1>6, <1>7, <1>8

\* Where a cursor that stands at x is drawn: nowhere if x is not there, and at
\* an anchor if it is.
LEMMA ResolveIs ==
    ASSUME NEW d, IsTree(d), NEW x
    PROVE  /\ x \in Present(d) => ResolveCursorAnchor(d, x) \in Anchors(d)
           /\ (ResolveCursorAnchor(d, x) # NoElement) = (x \in Present(d))
<1>1. ROOT_ID \in Present(d) /\ Present(d) \subseteq ElementID
  BY TreeParts DEF IsTree
<1>2. x \in Present(d) => ResolveCursorAnchor(d, x) \in Anchors(d)
  BY VisiblePredecessorIs DEF ResolveCursorAnchor, Anchors
<1>3. Anchors(d) \subseteq ElementID
  BY <1>1 DEF Anchors
<1>4. x \notin Present(d) => ResolveCursorAnchor(d, x) = NoElement
  BY <1>1 DEF ResolveCursorAnchor
<1> QED  BY <1>2, <1>3, <1>4, NoElementAssumption

\* Nothing comes before the root.
LEMMA UpToRoot ==
    ASSUME NEW d, IsTree(d), NEW x \in UpTo(d, ROOT_ID)
    PROVE  x = ROOT_ID
BY AncestorsOfRoot DEF UpTo, LeftOf

\* What the walk and the text of a document are.
LEMMA WalkAndText ==
    ASSUME NEW d, IsTree(d)
    PROVE  /\ Walk(d) \in Seq(Present(d))
           /\ Len(Walk(d)) \in Nat
           /\ DOMAIN Walk(d) = 1..Len(Walk(d))
           /\ Present(d) = {Walk(d)[k] : k \in DOMAIN Walk(d)}
           /\ Elems(Visible(d)) = Anchors(d) \ {ROOT_ID}
           /\ \A k, m \in DOMAIN Walk(d) :
                 (Walk(d)[k] \in UpTo(d, Walk(d)[m])) = (k <= m)
           /\ \A k \in DOMAIN Walk(d) : Walk(d)[k] \in Present(d)
<1> DEFINE walk == Walk(d)
<1>1. Lists(d, walk, Present(d)) /\ Present(d) \in SUBSET Present(d)
  BY WalkLists
<1>2. /\ walk \in Seq(Present(d)) /\ Len(walk) \in Nat
      /\ DOMAIN walk = 1..Len(walk)
      /\ Present(d) = {walk[k] : k \in DOMAIN walk}
  BY <1>1 DEF Lists, Elems
<1>3. Elems(Visible(d)) = Anchors(d) \ {ROOT_ID}
  BY VisibleLists DEF Lists
<1> HIDE DEF walk
<1>4. \A k, m \in DOMAIN walk : (walk[k] \in UpTo(d, walk[m])) = (k <= m)
  BY <1>1, ListPlaces
<1> QED  BY <1>2, <1>3, <1>4 DEF walk

-----------------------------------------------------------------------------
(***************************************************************************)
(* Walks of documents that grow.                                           *)
(***************************************************************************)

\* The k-th element of a list in walk order has k elements up to it.
LEMMA PlaceIsCount ==
    ASSUME NEW d, IsTree(d), NEW M \in SUBSET Present(d), NEW s, Lists(d, s, M),
           NEW i \in DOMAIN s
    PROVE  Cardinality(UpTo(d, s[i]) \cap M) = i
<1>1. /\ s \in Seq(M) /\ Len(s) \in Nat /\ DOMAIN s = 1..Len(s) /\ i \in 1..Len(s)
      /\ Elems(s) = M
  BY DEF Lists
<1>2. ASSUME NEW j \in DOMAIN s, NEW k \in DOMAIN s
      PROVE  /\ (s[j] \in UpTo(d, s[k])) = (j <= k)
             /\ (s[j] = s[k]) = (j = k)
             /\ s[j] \in M
  BY ListPlaces
<1> DEFINE T == UpTo(d, s[i]) \cap M
           F == [k \in 1..i |-> s[k]]
<1>3. \A k \in 1..i : k \in DOMAIN s /\ k <= i
  BY <1>1
<1>4. F \in [1..i -> T] /\ \A a, b \in 1..i : F[a] = F[b] => a = b
  BY <1>2, <1>3
<1>5. \A x \in T : \E k \in 1..i : F[k] = x
  <2> SUFFICES ASSUME NEW x \in T
               PROVE  \E k \in 1..i : F[k] = x
    OBVIOUS
  <2>1. PICK k \in DOMAIN s : s[k] = x
    BY <1>1 DEF Elems
  <2>2. k <= i
    BY <1>2, <2>1
  <2> QED  BY <1>1, <2>1, <2>2
<1> HIDE DEF F, T
<1>6. F \in Bijection(1..i, T)
  BY <1>4, <1>5, Fun_IsBij
<1>7. ExistsBijection(1..i, T)
  BY <1>6 DEF ExistsBijection
<1>8. IsFiniteSet(1..i) /\ Cardinality(1..i) = i
  <2>1. i \in Int /\ 1 \in Int /\ ~(1 > i) /\ i - 1 + 1 = i
    BY <1>1
  <2> QED  BY <2>1, FS_Interval
<1>9. Cardinality(T) = i
  BY <1>7, <1>8, FS_Bijection
<1> QED  BY <1>9 DEF T

\* There is one list of a set in walk order.
LEMMA UniqueList ==
    ASSUME NEW d, IsTree(d), NEW M \in SUBSET Present(d),
           NEW s, Lists(d, s, M), NEW t, Lists(d, t, M)
    PROVE  s = t
<1>1. /\ s \in Seq(M) /\ Len(s) \in Nat /\ DOMAIN s = 1..Len(s) /\ Elems(s) = M
      /\ t \in Seq(M) /\ Len(t) \in Nat /\ DOMAIN t = 1..Len(t) /\ Elems(t) = M
  BY DEF Lists
<1>2. ASSUME NEW i \in DOMAIN s
      PROVE  i \in DOMAIN t /\ s[i] = t[i]
  <2>1. PICK j \in DOMAIN t : t[j] = s[i]
    BY <1>1 DEF Elems
  <2>2. /\ Cardinality(UpTo(d, s[i]) \cap M) = i
        /\ Cardinality(UpTo(d, t[j]) \cap M) = j
    BY PlaceIsCount
  <2>3. i = j
    BY <2>1, <2>2
  <2> QED  BY <2>1, <2>3
<1>3. ASSUME NEW i \in DOMAIN t
      PROVE  i \in DOMAIN s
  <2>1. PICK j \in DOMAIN s : s[j] = t[i]
    BY <1>1 DEF Elems
  <2>2. /\ Cardinality(UpTo(d, t[i]) \cap M) = i
        /\ Cardinality(UpTo(d, s[j]) \cap M) = j
    BY PlaceIsCount
  <2>3. i = j
    BY <2>1, <2>2
  <2> QED  BY <2>1, <2>3
<1>4. Len(s) = Len(t)
  <2> DEFINE m == Len(s) n == Len(t)
  <2>1. m \in Nat /\ n \in Nat /\ \A i : i \in 1..m <=> i \in 1..n
    BY <1>1, <1>2, <1>3
  <2> HIDE DEF m, n
  <2>2. m # 0 => m \in 1..m
    BY <2>1
  <2>3. n # 0 => n \in 1..n
    BY <2>1
  <2>4. (m # 0 => m <= n) /\ (n # 0 => n <= m)
    BY <2>1, <2>2, <2>3
  <2> QED  BY <2>1, <2>4 DEF m, n
<1> QED  BY <1>1, <1>2, <1>4, SeqEqual

\* The document e has all that d has, under the same parents.
GrowsTo(d, e) ==
    /\ Present(d) \subseteq Present(e)
    /\ \A x \in Present(d) : e.parent_of[x] = d.parent_of[x]

LEMMA AncestorsStay ==
    ASSUME NEW d, IsTree(d), NEW e, IsTree(e), GrowsTo(d, e), NEW x \in Present(d)
    PROVE  Ancestors(e, x) = Ancestors(d, x)
<1> DEFINE S == {y \in Present(d) : Ancestors(e, y) = Ancestors(d, y)}
<1>1. ROOT_ID \in S
  BY AncestorsOfRoot DEF IsTree
<1>2. ASSUME NEW y \in Present(d) \ {ROOT_ID}, d.parent_of[y] \in S
      PROVE  y \in S
  BY <1>2, AncestorsOfChild DEF GrowsTo
<1> HIDE DEF S
<1>3. Present(d) \subseteq S
  BY <1>1, <1>2, TreeInduction
<1> QED  BY <1>3 DEF S

\* The order of the elements never changes.
LEMMA UpToStays ==
    ASSUME NEW d, IsTree(d), NEW e, IsTree(e), GrowsTo(d, e),
           NEW x \in Present(d), NEW y \in Present(d)
    PROVE  (y \in UpTo(e, x)) = (y \in UpTo(d, x))
<1>1. Ancestors(e, x) = Ancestors(d, x) /\ Ancestors(e, y) = Ancestors(d, y)
  BY AncestorsStay
<1>2. Ancestors(d, x) \subseteq Present(d) /\ Ancestors(d, y) \subseteq Present(d)
  BY AncestorsOf
<1>3. \A a, b \in Present(d) : LeftOf(e, a, b) = LeftOf(d, a, b)
  BY DEF GrowsTo, LeftOf
<1>4. y \in Present(e)
  BY DEF GrowsTo
<1> QED  BY <1>1, <1>2, <1>3, <1>4 DEF UpTo

LEMMA ListsStay ==
    ASSUME NEW d, IsTree(d), NEW e, IsTree(e), GrowsTo(d, e),
           NEW M \in SUBSET Present(d), NEW s
    PROVE  Lists(d, s, M) = Lists(e, s, M)
<1>1. ASSUME s \in Seq(M)
      PROVE  InWalkOrder(d, s) = InWalkOrder(e, s)
  <2>1. \A i \in DOMAIN s : s[i] \in Present(d)
    BY <1>1
  <2> QED  BY <2>1, UpToStays DEF InWalkOrder
<1> QED  BY <1>1 DEF Lists

\* Removing an element leaves the walk as it is.
LEMMA SameWalk ==
    ASSUME NEW d, IsTree(d), NEW e, IsTree(e), GrowsTo(d, e),
           Present(e) = Present(d)
    PROVE  Walk(e) = Walk(d)
<1>1. Lists(d, Walk(d), Present(d)) /\ Lists(e, Walk(e), Present(d))
  BY WalkLists
<1>2. Present(d) \in SUBSET Present(d)
  OBVIOUS
<1>3. Lists(d, Walk(e), Present(d))
  BY <1>1, <1>2, ListsStay
<1> QED  BY <1>1, <1>2, <1>3, UniqueList

LEMMA RootFirst ==
    ASSUME NEW d, IsTree(d)
    PROVE  1 \in DOMAIN Walk(d) /\ Walk(d)[1] = ROOT_ID
<1>1. /\ Len(Walk(d)) \in Nat /\ DOMAIN Walk(d) = 1..Len(Walk(d))
      /\ Present(d) = {Walk(d)[k] : k \in DOMAIN Walk(d)}
      /\ \A k, m \in DOMAIN Walk(d) :
            (Walk(d)[k] \in UpTo(d, Walk(d)[m])) = (k <= m)
  BY WalkAndText
<1>2. PICK k \in DOMAIN Walk(d) : Walk(d)[k] = ROOT_ID
  BY <1>1 DEF IsTree
<1>3. 1 \in DOMAIN Walk(d) /\ 1 <= k
  BY <1>1, <1>2
<1>4. Walk(d)[1] \in UpTo(d, ROOT_ID)
  BY <1>1, <1>2, <1>3
<1> QED  BY <1>3, <1>4, UpToRoot

-----------------------------------------------------------------------------
(***************************************************************************)
(* Neighbours.                                                             *)
(***************************************************************************)

\* visible_successor is the next element of the text.
LEMMA SuccessorByPlace ==
    ASSUME NEW d, IsTree(d), NEW i \in DOMAIN Walk(d)
    PROVE  LET walk  == Walk(d)
               after == {k \in DOMAIN walk :
                            walk[k] \in Anchors(d) \ {ROOT_ID} /\ k > i}
               next  == VisibleSuccessor(d, walk[i])
           IN  IF after = {} THEN next = NoElement
               ELSE \E k \in after : next = walk[k] /\ \A j \in after : k <= j
<1> DEFINE walk  == Walk(d)
           after == {k \in DOMAIN walk :
                        walk[k] \in Anchors(d) \ {ROOT_ID} /\ k > i}
           x     == walk[i]
           next  == VisibleSuccessor(d, x)
<1>1. /\ Len(walk) \in Nat /\ DOMAIN walk = 1..Len(walk)
      /\ Present(d) = {walk[k] : k \in DOMAIN walk}
      /\ \A k, m \in DOMAIN walk : (walk[k] \in UpTo(d, walk[m])) = (k <= m)
      /\ \A k \in DOMAIN walk : walk[k] \in Present(d)
  BY WalkAndText
<1> HIDE DEF walk
<1>2. i \in 1..Len(walk)
  BY <1>1 DEF walk
<1>3. x \in Present(d)
  BY <1>1, <1>2
<1> HIDE DEF next
<1>4. \/ /\ next = NoElement
         /\ \A v \in Present(d) \ UpTo(d, x) : IsDeleted(d, v)
      \/ /\ next \in Anchors(d) \ {ROOT_ID}
         /\ next \notin UpTo(d, x)
         /\ \A v \in Present(d) \ UpTo(d, x) :
               IsDeleted(d, v) \/ next \in UpTo(d, v)
  BY <1>3, VisibleSuccessorIs DEF next
<1>5. ASSUME NEW j \in after
      PROVE  walk[j] \in Present(d) \ UpTo(d, x) /\ ~IsDeleted(d, walk[j])
  <2>1. j \in 1..Len(walk) /\ ~(j <= i) /\ walk[j] \in Anchors(d) \ {ROOT_ID}
    BY <1>1, <1>2, <1>5
  <2> QED  BY <1>1, <1>2, <2>1 DEF Anchors
<1> HIDE DEF x
<1>6. CASE /\ next = NoElement
           /\ \A v \in Present(d) \ UpTo(d, x) : IsDeleted(d, v)
  <2>1. after = {}
    <3> HIDE DEF after
    <3> QED  BY <1>5, <1>6
  <2> QED  BY <1>6, <2>1 DEF walk, next, x
<1>7. CASE /\ next \in Anchors(d) \ {ROOT_ID}
           /\ next \notin UpTo(d, x)
           /\ \A v \in Present(d) \ UpTo(d, x) :
                 IsDeleted(d, v) \/ next \in UpTo(d, v)
  <2>1. next \in Present(d)
    BY <1>7 DEF Anchors, IsTree
  <2>2. PICK k \in DOMAIN walk : next = walk[k]
    BY <1>1, <2>1
  <2>3. k \in after
    BY <1>1, <1>2, <1>7, <2>2 DEF x
  <2>4. ASSUME NEW j \in after
        PROVE  k <= j
    <3>1. next \in UpTo(d, walk[j])
      BY <1>5, <1>7, <2>4
    <3> QED  BY <1>1, <2>2, <3>1
  <2> HIDE DEF after
  <2>5. after # {} /\ \E m \in after : next = walk[m] /\ \A j \in after : m <= j
    BY <2>2, <2>3, <2>4
  <2> QED  BY <2>5 DEF walk, after, next, x
<1> QED  BY <1>4, <1>6, <1>7

\* visible_predecessor is the element of the text before, or the root.
LEMMA PredecessorInText ==
    ASSUME NEW d, IsTree(d), NEW i \in DOMAIN Walk(d)
    PROVE  LET walk   == Walk(d)
               before == {k \in DOMAIN walk :
                             walk[k] \in Anchors(d) \ {ROOT_ID} /\ k < i}
               prev   == VisiblePredecessor(d, walk[i])
           IN  IF before = {} THEN prev = ROOT_ID
               ELSE \E k \in before : prev = walk[k] /\ \A j \in before : j <= k
<1> DEFINE walk   == Walk(d)
           before == {k \in DOMAIN walk :
                         walk[k] \in Anchors(d) \ {ROOT_ID} /\ k < i}
           x      == walk[i]
           prev   == VisiblePredecessor(d, x)
<1>1. /\ Len(walk) \in Nat /\ DOMAIN walk = 1..Len(walk)
      /\ Present(d) = {walk[k] : k \in DOMAIN walk}
      /\ \A k, m \in DOMAIN walk : (walk[k] \in UpTo(d, walk[m])) = (k <= m)
      /\ \A k \in DOMAIN walk : walk[k] \in Present(d)
  BY WalkAndText
<1> HIDE DEF walk
<1>2. i \in 1..Len(walk)
  BY <1>1 DEF walk
<1>3. x \in Present(d)
  BY <1>1, <1>2
<1> HIDE DEF prev
<1>4. /\ prev \in Anchors(d)
      /\ x = ROOT_ID => prev = ROOT_ID
      /\ x # ROOT_ID => /\ prev \in UpTo(d, x) \ {x}
                        /\ \A v \in UpTo(d, x) \ {x} :
                              v \in Anchors(d) => v \in UpTo(d, prev)
  BY <1>3, VisiblePredecessorIs DEF prev
<1>5. ASSUME NEW j \in before
      PROVE  /\ walk[j] \in UpTo(d, x) \ {x}
             /\ walk[j] \in Anchors(d) \ {ROOT_ID}
  <2>1. j \in 1..Len(walk) /\ j <= i /\ ~(i <= j)
        /\ walk[j] \in Anchors(d) \ {ROOT_ID}
    BY <1>1, <1>2, <1>5
  <2>2. walk[j] \in UpTo(d, walk[i]) /\ walk[i] \notin UpTo(d, walk[j])
    BY <1>1, <1>2, <2>1
  <2>3. walk[i] \in UpTo(d, walk[i])
    BY <1>1, <1>2
  <2> QED  BY <2>1, <2>2, <2>3
<1>6. prev = ROOT_ID => before = {}
  <2> SUFFICES ASSUME prev = ROOT_ID, NEW j \in before
               PROVE  FALSE
    OBVIOUS
  <2>1. walk[j] \in UpTo(d, ROOT_ID)
    <3> HIDE DEF x, before
    <3>1. CASE x = ROOT_ID
      BY <1>5, <3>1
    <3>2. CASE x # ROOT_ID
      BY <1>4, <1>5, <3>2
    <3> QED  BY <3>1, <3>2
  <2> QED  BY <1>5, <2>1, UpToRoot
<1>7. CASE prev = ROOT_ID
  BY <1>6, <1>7 DEF walk, prev
<1>8. CASE prev # ROOT_ID
  <2>1. x # ROOT_ID /\ prev \in Present(d)
    BY <1>4, <1>8 DEF Anchors, IsTree
  <2>2. PICK k \in DOMAIN walk : prev = walk[k]
    BY <1>1, <2>1
  <2>3. k \in before
    <3>1. k <= i /\ k # i
      BY <1>1, <1>2, <1>4, <2>1, <2>2
    <3> QED  BY <1>1, <1>2, <1>4, <1>8, <2>2, <3>1
  <2>4. ASSUME NEW j \in before
        PROVE  j <= k
    <3>1. walk[j] \in UpTo(d, prev)
      <4> HIDE DEF x
      <4> QED  BY <1>4, <1>5, <2>1, <2>4
    <3> QED  BY <1>1, <2>2, <3>1
  <2> HIDE DEF before
  <2>5. before # {} /\ \E m \in before : prev = walk[m] /\ \A j \in before : j <= m
    BY <2>2, <2>3, <2>4
  <2> QED  BY <2>5 DEF walk, before, prev, x
<1> QED  BY <1>7, <1>8

-----------------------------------------------------------------------------
(***************************************************************************)
(* Selections.  In the text v a selection starts at place i, which is 0    *)
(* for the root, and ends with the element end at place j, which is beyond *)
(* the text when that has no such element.                                 *)
(***************************************************************************)
Distinct(v) == \A k, m \in DOMAIN v : v[k] = v[m] => k = m

Spot(v, i) == IF i = 0 THEN ROOT_ID ELSE v[i]

IsEnd(v, end, j) == \A m \in 1..Len(v) : (v[m] = end) = (m = j)

\* While the k-th element is seen, what lies behind i and before j is collected.
LEMMA CollectingIs ==
    ASSUME NEW V, ROOT_ID \notin V, NEW v \in Seq(V), Distinct(v),
           NEW end, NEW j \in 1..Len(v) + 1, IsEnd(v, end, j),
           NEW i \in 0..Len(v), i < j,
           NEW k \in 0..Len(v)
    PROVE  Collecting(v, Spot(v, i), end)[k] = (i <= k /\ k < j)
<1> DEFINE start == Spot(v, i)
           c == Collecting(v, start, end)
           n == Len(v)
           T == {m \in Nat : m \in 0..n => c[m] = (i <= m /\ m < j)}
<1>1. /\ c[0] = (start = ROOT_ID)
      /\ \A m \in 1..n : c[m] = (v[m] # end /\ (v[m] = start \/ c[m - 1]))
  BY CollectingDef
<1>2. /\ n \in Nat
      /\ \A m \in 1..n : v[m] \in V
      /\ \A m, l \in 1..n : v[m] = v[l] => m = l
  BY DEF Distinct
<1>3. /\ (start = ROOT_ID) = (i = 0)
      /\ \A m \in 1..n : (v[m] = start) = (m = i)
  BY <1>2 DEF Spot
<1> HIDE DEF c, n, start
<1>4. 0 \in T
  <2>1. c[0] = (i <= 0 /\ 0 < j)
    BY <1>1, <1>3
  <2> QED  BY <2>1
<1>5. \A m \in Nat : m \in T => m + 1 \in T
  <2> SUFFICES ASSUME NEW m \in Nat, m \in T, m + 1 \in 0..n
               PROVE  c[m + 1] = (i <= m + 1 /\ m + 1 < j)
    OBVIOUS
  <2>1. m + 1 \in 1..n /\ m + 1 - 1 = m /\ j \in 1..n + 1
    BY <1>2 DEF n
  <2>2. c[m] = (i <= m /\ m < j)
    BY <1>2, <2>1
  <2>3. c[m + 1] = (v[m + 1] # end /\ (v[m + 1] = start \/ c[m]))
    BY <1>1, <2>1
  <2>4. (v[m + 1] # end) = (m + 1 # j)
    BY <2>1 DEF IsEnd, n
  <2>5. (v[m + 1] = start) = (m + 1 = i)
    BY <1>3, <2>1
  <2>6. c[m + 1] = (m + 1 # j /\ (m + 1 = i \/ (i <= m /\ m < j)))
    BY <2>2, <2>3, <2>4, <2>5
  <2>7. (m + 1 # j /\ (m + 1 = i \/ (i <= m /\ m < j)))
           = (i <= m + 1 /\ m + 1 < j)
    BY <2>1
  <2> QED  BY <2>6, <2>7
<1> HIDE DEF T
<1>6. Nat \subseteq T
  BY <1>4, <1>5, NatSetInduction
<1>7. k \in T /\ k \in 0..n
  BY <1>6 DEF n
<1> QED  BY <1>7 DEF T, c, start

\* After the k-th element the ones behind i have been collected, up to j.
LEMMA CollectedIs ==
    ASSUME NEW V, ROOT_ID \notin V, NEW v \in Seq(V), Distinct(v),
           NEW end, NEW j \in 1..Len(v) + 1, IsEnd(v, end, j),
           NEW i \in 0..Len(v), i < j,
           NEW k \in 0..Len(v)
    PROVE  Collected(v, Spot(v, i), Collecting(v, Spot(v, i), end))[k]
              = SubSeq(v, i + 1, IF k < j THEN k ELSE j)
<1> DEFINE start == Spot(v, i)
           c == Collecting(v, start, end)
           r == Collected(v, start, c)
           n == Len(v)
           upto(m) == IF m < j THEN m ELSE j
           T == {m \in Nat : m \in 0..n => r[m] = SubSeq(v, i + 1, upto(m))}
<1>1. /\ r[0] = <<>>
      /\ \A m \in 1..n : r[m] = IF c[m - 1] /\ v[m] # start
                                THEN Append(r[m - 1], v[m]) ELSE r[m - 1]
  BY CollectedDef
<1>2. /\ n \in Nat
      /\ \A m \in 1..n : v[m] \in V
      /\ \A m, l \in 1..n : v[m] = v[l] => m = l
  BY DEF Distinct
<1>3. \A m \in 1..n : (v[m] = start) = (m = i)
  BY <1>2 DEF Spot
<1>4. \A m \in 0..n : c[m] = (i <= m /\ m < j)
  BY CollectingIs
<1> HIDE DEF r, n, start, c
<1>5. 0 \in T
  <2>1. upto(0) = 0
    OBVIOUS
  <2>2. SubSeq(v, i + 1, 0) = <<>>
    BY SubSeqEmpty
  <2> HIDE DEF upto
  <2> QED  BY <1>1, <2>1, <2>2
<1>6. \A m \in Nat : m \in T => m + 1 \in T
  <2> SUFFICES ASSUME NEW m \in Nat, m \in T, m + 1 \in 0..n
               PROVE  r[m + 1] = SubSeq(v, i + 1, upto(m + 1))
    OBVIOUS
  <2>1. m + 1 \in 1..n /\ m + 1 - 1 = m /\ m \in 0..n /\ j \in 1..n + 1 /\ i \in 0..n
    BY <1>2 DEF n
  <2>2. r[m] = SubSeq(v, i + 1, upto(m))
    BY <2>1
  <2>3. r[m + 1] = IF c[m] /\ v[m + 1] # start
                   THEN Append(r[m], v[m + 1]) ELSE r[m]
    BY <1>1, <2>1
  <2>4. c[m] = (i <= m /\ m < j)
    BY <1>4, <2>1
  <2>5. (v[m + 1] = start) = (m + 1 = i)
    BY <1>3, <2>1
  <2>6. CASE i <= m /\ m < j
    <3>1. r[m + 1] = Append(r[m], v[m + 1])
      <4>1. v[m + 1] # start
        BY <2>1, <2>5, <2>6
      <4>2. c[m]
        BY <2>4, <2>6
      <4> HIDE DEF upto
      <4> QED  BY <2>3, <4>1, <4>2
    <3>2. upto(m) = m /\ upto(m + 1) = m + 1
      BY <2>1, <2>6
    <3>3. i + 1 \in 1..Len(v) /\ m + 1 \in i + 1..Len(v) /\ m + 1 - 1 = m
      BY <1>2, <2>1, <2>6 DEF n
    <3>4. SubSeq(v, i + 1, m + 1) = SubSeq(v, i + 1, m) \o <<v[m + 1]>>
      <4> PICK a \in 1..Len(v) : a = i + 1
        BY <3>3
      <4> PICK b \in a..Len(v) : b = m + 1
        BY <3>3
      <4>1. SubSeq(v, a, b) = SubSeq(v, a, b - 1) \o <<v[b]>>
        BY SubSeqRecursiveSecond
      <4> QED  BY <3>3, <4>1
    <3>5. \A q : Append(q, v[m + 1]) = q \o <<v[m + 1]>> \/ q \notin Seq(V)
      <4>1. v[m + 1] \in V
        BY <1>2, <2>1
      <4> SUFFICES ASSUME NEW q \in Seq(V)
                   PROVE  Append(q, v[m + 1]) = q \o <<v[m + 1]>>
        OBVIOUS
      <4> QED  BY <4>1, AppendIsConcat
    <3>6. SubSeq(v, i + 1, m) \in Seq(V)
      <4>1. \A l \in i + 1..m : v[l] \in V
        BY <1>2, <2>1
      <4> QED  BY <2>1, <4>1, SubSeqProperties
    <3> HIDE DEF upto
    <3> QED  BY <2>2, <3>1, <3>2, <3>4, <3>5, <3>6
  <2>7. CASE ~(i <= m /\ m < j)
    <3>1. r[m + 1] = r[m]
      BY <2>3, <2>4, <2>7
    <3>2. CASE m < i
      <4>1. upto(m) = m /\ upto(m + 1) < i + 1 /\ m < i + 1 /\ upto(m + 1) \in Int
        BY <2>1, <3>2
      <4> HIDE DEF upto
      <4>2. SubSeq(v, i + 1, upto(m + 1)) = <<>>
        BY <2>1, <4>1, SubSeqEmpty
      <4>3. SubSeq(v, i + 1, m) = <<>>
        BY <2>1, <4>1, SubSeqEmpty
      <4> QED  BY <2>2, <3>1, <4>1, <4>2, <4>3
    <3>3. CASE ~(m < i)
      <4>1. upto(m) = j /\ upto(m + 1) = j
        BY <2>1, <2>7, <3>3
      <4> HIDE DEF upto
      <4> QED  BY <2>2, <3>1, <4>1
    <3> QED  BY <3>2, <3>3
  <2> QED  BY <2>6, <2>7
<1> HIDE DEF T
<1>7. Nat \subseteq T
  BY <1>5, <1>6, NatSetInduction
<1>8. k \in T /\ k \in 0..n
  BY <1>7 DEF n
<1> QED  BY <1>8 DEF T, c, r, start

\* The same range, in the text and in the text with the root before it.
LEMMA SubSeqAfterRoot ==
    ASSUME NEW V, NEW v \in Seq(V), NEW i \in 0..Len(v), NEW j \in i..Len(v)
    PROVE  SubSeq(<<ROOT_ID>> \o v, i + 2, j + 1) = SubSeq(v, i + 1, j)
<1> DEFINE text == <<ROOT_ID>> \o v
           W == V \cup {ROOT_ID}
           s == SubSeq(text, i + 2, j + 1)
           t == SubSeq(v, i + 1, j)
<1>1. /\ <<ROOT_ID>> \in Seq(W) /\ v \in Seq(W) /\ Len(<<ROOT_ID>>) = 1
      /\ Len(v) \in Nat
  OBVIOUS
<1>2. /\ text \in Seq(W)
      /\ Len(text) = 1 + Len(v)
      /\ \A k \in 1..1 + Len(v) : text[k] = IF k <= 1 THEN <<ROOT_ID>>[k] ELSE v[k - 1]
  BY <1>1, ConcatProperties
<1> HIDE DEF text
<1>3. \A k \in 1..Len(v) : text[k + 1] = v[k]
  <2> SUFFICES ASSUME NEW k \in 1..Len(v)
               PROVE  text[k + 1] = v[k]
    OBVIOUS
  <2>1. k + 1 \in 1..1 + Len(v) /\ ~(k + 1 <= 1) /\ k + 1 - 1 = k
    BY <1>1
  <2> QED  BY <1>2, <2>1
<1>4. \A k \in i + 2..j + 1 : text[k] \in W
  BY <1>1, <1>2
<1>5. \A k \in i + 1..j : v[k] \in W
  BY <1>1
<1>6. i + 2 \in Int /\ j + 1 \in Int /\ i + 1 \in Int /\ j \in Int
  BY <1>1
<1>7. /\ s \in Seq(W)
      /\ Len(s) = IF i + 2 <= j + 1 THEN (j + 1) - (i + 2) + 1 ELSE 0
      /\ \A k \in 1..(j + 1) - (i + 2) + 1 : s[k] = text[(i + 2) + k - 1]
  BY <1>4, <1>6, SubSeqProperties
<1>8. /\ t \in Seq(W)
      /\ Len(t) = IF i + 1 <= j THEN j - (i + 1) + 1 ELSE 0
      /\ \A k \in 1..j - (i + 1) + 1 : t[k] = v[(i + 1) + k - 1]
  BY <1>5, <1>6, SubSeqProperties
<1> HIDE DEF s, t
<1>9. Len(s) = Len(t) /\ Len(s) = j - i
  BY <1>1, <1>7, <1>8
<1>10. ASSUME NEW k \in 1..Len(s)
       PROVE  s[k] = t[k]
  <2>1. /\ k \in 1..(j + 1) - (i + 2) + 1
        /\ k \in 1..j - (i + 1) + 1
        /\ (i + 2) + k - 1 = (i + k) + 1
        /\ (i + 1) + k - 1 = i + k
        /\ i + k \in 1..Len(v)
    BY <1>1, <1>9
  <2> QED  BY <1>3, <1>7, <1>8, <2>1
<1>11. s = t
  BY <1>7, <1>8, <1>9, <1>10, SeqEqual
<1> QED  BY <1>11 DEF s, t, text

LEMMA TextDistinct ==
    ASSUME NEW d, IsTree(d)
    PROVE  Visible(d) \in Seq(Anchors(d) \ {ROOT_ID}) /\ Distinct(Visible(d))
<1>1. /\ Lists(d, Visible(d), Anchors(d) \ {ROOT_ID})
      /\ Anchors(d) \ {ROOT_ID} \in SUBSET Present(d)
  BY VisibleLists DEF Anchors, IsTree
<1> DEFINE v == Visible(d)
<1> HIDE DEF v
<1>2. \A k, m \in DOMAIN v : (v[k] = v[m]) = (k = m)
  BY <1>1, ListPlaces DEF v
<1>3. Distinct(v)
  BY <1>2 DEF Distinct
<1> QED  BY <1>1, <1>3 DEF Lists, v

-----------------------------------------------------------------------------
(***************************************************************************)
(* Lines and columns.  P is the line and column before each of n elements, *)
(* and after the last one; ends are the elements that end a line.          *)
(***************************************************************************)
Places(P, n, ends) ==
    /\ n \in Nat
    /\ P \in [1..n + 1 -> Nat \X Nat]
    /\ P[1] = <<0, 0>>
    /\ \A k \in 1..n :
          P[k + 1] = IF k \in ends THEN <<P[k][1] + 1, 0>>
                     ELSE <<P[k][1], P[k][2] + 1>>

Before(p, q) == p[1] < q[1] \/ (p[1] = q[1] /\ p[2] < q[2])

\* Different places have different lines or columns.
LEMMA PlacesGrow ==
    ASSUME NEW P, NEW n, NEW ends, Places(P, n, ends),
           NEW i \in 1..n + 1, NEW j \in 1..n + 1, i < j
    PROVE  Before(P[i], P[j])
<1> DEFINE T == {m \in Nat : m + 1 \in 1..n + 1 /\ i < m + 1
                                => Before(P[i], P[m + 1])}
<1>1. /\ n \in Nat
      /\ \A k \in 1..n + 1 : P[k][1] \in Nat /\ P[k][2] \in Nat
      /\ \A k \in 1..n :
            P[k + 1] = IF k \in ends THEN <<P[k][1] + 1, 0>>
                       ELSE <<P[k][1], P[k][2] + 1>>
  BY DEF Places
<1>2. 0 \in T
  OBVIOUS
<1>3. \A m \in Nat : m \in T => m + 1 \in T
  <2> SUFFICES ASSUME NEW m \in Nat, m \in T, m + 1 + 1 \in 1..n + 1, i < m + 1 + 1
               PROVE  Before(P[i], P[m + 1 + 1])
    OBVIOUS
  <2>1. PICK k \in 1..n : k = m + 1
    BY <1>1
  <2>2. k \in 1..n + 1
    BY <1>1
  <2>3. Before(P[k], P[k + 1])
    <3>1. P[k][1] \in Nat /\ P[k][2] \in Nat
      BY <1>1, <2>2
    <3>2. CASE k \in ends
      <4>1. P[k + 1] = <<P[k][1] + 1, 0>>
        BY <1>1, <3>2
      <4> QED  BY <3>1, <4>1 DEF Before
    <3>3. CASE k \notin ends
      <4>1. P[k + 1] = <<P[k][1], P[k][2] + 1>>
        BY <1>1, <3>3
      <4> QED  BY <3>1, <4>1 DEF Before
    <3> QED  BY <3>2, <3>3
  <2>4. CASE i = k
    BY <2>1, <2>3, <2>4
  <2>5. CASE i # k
    <3>1. i < m + 1 /\ m + 1 \in 1..n + 1
      BY <2>1, <2>2, <2>5
    <3>2. Before(P[i], P[k])
      BY <2>1, <3>1
    <3>3. Before(P[i], P[k + 1])
      <4>1. /\ P[i][1] \in Nat /\ P[i][2] \in Nat
            /\ P[k][1] \in Nat /\ P[k][2] \in Nat
        BY <1>1, <2>2
      <4>2. P[k + 1][1] \in Nat /\ P[k + 1][2] \in Nat
        <5>1. k + 1 \in 1..n + 1
          BY <1>1
        <5> QED  BY <1>1, <5>1
      <4> DEFINE a == P[i][1] b == P[i][2] c == P[k][1] e == P[k][2]
                 f == P[k + 1][1] g == P[k + 1][2]
      <4>3. /\ a < c \/ (a = c /\ b < e)
            /\ c < f \/ (c = f /\ e < g)
        BY <2>3, <3>2 DEF Before
      <4> HIDE DEF a, b, c, e, f, g, T
      <4>4. a < f \/ (a = f /\ b < g)
        <5>1. a \in Nat /\ b \in Nat /\ c \in Nat /\ e \in Nat /\ f \in Nat /\ g \in Nat
          BY <4>1, <4>2 DEF a, b, c, e, f, g
        <5> QED  BY <4>3, <5>1
      <4> QED  BY <4>4 DEF Before, a, b, f, g
    <3> QED  BY <2>1, <3>3
  <2> QED  BY <2>4, <2>5
<1> HIDE DEF T
<1>4. Nat \subseteq T
  BY <1>2, <1>3, NatSetInduction
<1>5. j - 1 \in T /\ j - 1 + 1 = j
  BY <1>1, <1>4
<1> QED  BY <1>5 DEF T

LEMMA PlacesDiffer ==
    ASSUME NEW P, NEW n, NEW ends, Places(P, n, ends),
           NEW i \in 1..n + 1, NEW j \in 1..n + 1, P[i] = P[j]
    PROVE  i = j
<1>1. /\ n \in Nat
      /\ P[i][1] \in Nat /\ P[i][2] \in Nat
      /\ P[j][1] \in Nat /\ P[j][2] \in Nat
  BY DEF Places
<1>2. ~Before(P[i], P[j]) /\ ~Before(P[j], P[i])
  BY <1>1 DEF Before
<1>3. ~(i < j) /\ ~(j < i)
  BY <1>2, PlacesGrow
<1> QED  BY <1>1, <1>3

\* Among the first m elements: those that end a line, and those of a line.
EndsUpTo(m, ends) == {k \in 1..m : k \in ends}

LineUpTo(P, m, ends, l) == {k \in 1..m : P[k][1] = l /\ k \notin ends}

LEMMA CountOneMore ==
    ASSUME NEW m \in Nat, NEW S \in SUBSET (1..m), NEW T \in SUBSET {m + 1}
    PROVE  /\ IsFiniteSet(S) /\ Cardinality(S) \in Nat
           /\ Cardinality(S \cup T) =
                 IF m + 1 \in T THEN Cardinality(S) + 1 ELSE Cardinality(S)
<1>1. IsFiniteSet(1..m)
  BY FS_Interval
<1>2. IsFiniteSet(S) /\ Cardinality(S) \in Nat
  BY <1>1, FS_Subset, FS_CardinalityType
<1>3. CASE m + 1 \in T
  <2>1. m + 1 \notin S
    <3>1. m + 1 \notin 1..m
      OBVIOUS
    <3> QED  BY <3>1
  <2>2. S \cup T = S \cup {m + 1}
    BY <1>3
  <2> QED  BY <1>2, <1>3, <2>1, <2>2, FS_AddElement
<1>4. CASE m + 1 \notin T
  <2>1. S \cup T = S
    BY <1>4
  <2> QED  BY <1>2, <1>4, <2>1
<1> QED  BY <1>3, <1>4

\* The number of a line is that of the line ends before it.
LEMMA LinesCounted ==
    ASSUME NEW P, NEW n, NEW ends, Places(P, n, ends), NEW i \in 0..n
    PROVE  P[i + 1][1] = Cardinality(EndsUpTo(i, ends))
<1> DEFINE T == {m \in Nat : m \in 0..n =>
                    P[m + 1][1] = Cardinality(EndsUpTo(m, ends))}
<1>1. /\ n \in Nat
      /\ P[1] = <<0, 0>>
      /\ \A k \in 1..n + 1 : P[k][1] \in Nat /\ P[k][2] \in Nat
      /\ \A k \in 1..n :
            P[k + 1] = IF k \in ends THEN <<P[k][1] + 1, 0>>
                       ELSE <<P[k][1], P[k][2] + 1>>
  BY DEF Places
<1>2. 0 \in T
  <2>1. EndsUpTo(0, ends) = {} /\ Cardinality({}) = 0 /\ P[1][1] = 0
    BY <1>1, FS_EmptySet DEF EndsUpTo
  <2>2. 0 + 1 = 1 /\ 0 \in Nat
    OBVIOUS
  <2> QED  BY <2>1, <2>2
<1>3. \A m \in Nat : m \in T => m + 1 \in T
  <2> SUFFICES ASSUME NEW m \in Nat, m \in T, m + 1 \in 0..n
               PROVE  P[m + 1 + 1][1] = Cardinality(EndsUpTo(m + 1, ends))
    OBVIOUS
  <2>1. PICK k \in 1..n : k = m + 1
    BY <1>1
  <2>2. P[k][1] = Cardinality(EndsUpTo(m, ends)) /\ P[k][1] \in Nat
    BY <1>1, <2>1
  <2> DEFINE S == EndsUpTo(m, ends)
             X == {j \in {k} : j \in ends}
  <2>3. EndsUpTo(k, ends) = S \cup X /\ S \in SUBSET (1..m) /\ X \in SUBSET {m + 1}
    BY <2>1 DEF EndsUpTo
  <2>4. (k \in X) = (k \in ends)
    OBVIOUS
  <2> HIDE DEF S, X, T
  <2>5. Cardinality(S \cup X) = IF k \in X THEN Cardinality(S) + 1 ELSE Cardinality(S)
    BY <2>1, <2>3, CountOneMore
  <2>6. P[k + 1][1] = IF k \in ends THEN P[k][1] + 1 ELSE P[k][1]
    <3>1. P[k + 1] = IF k \in ends THEN <<P[k][1] + 1, 0>>
                     ELSE <<P[k][1], P[k][2] + 1>>
      BY <1>1
    <3>2. <<P[k][1] + 1, 0>>[1] = P[k][1] + 1 /\ <<P[k][1], P[k][2] + 1>>[1] = P[k][1]
      OBVIOUS
    <3> QED  BY <3>1, <3>2
  <2>7. P[k + 1][1] = Cardinality(EndsUpTo(k, ends))
    BY <2>2, <2>3, <2>4, <2>5, <2>6 DEF S
  <2> QED  BY <2>1, <2>7
<1> HIDE DEF T
<1>4. Nat \subseteq T
  BY <1>2, <1>3, NatSetInduction
<1>5. i \in T /\ i \in 0..n
  BY <1>1, <1>4
<1> QED  BY <1>5 DEF T

\* Of the first m elements: the last line is as long as the column behind it,
\* the lines beyond are empty, and each column of a line is the place of one.
Filled(P, m, ends) ==
    /\ Cardinality(LineUpTo(P, m, ends, P[m + 1][1])) = P[m + 1][2]
    /\ \A l \in Nat : /\ Cardinality(LineUpTo(P, m, ends, l)) \in Nat
                      /\ l > P[m + 1][1] =>
                            Cardinality(LineUpTo(P, m, ends, l)) = 0
    /\ \A l, c \in Nat :
          l <= P[m + 1][1] /\ c <= Cardinality(LineUpTo(P, m, ends, l)) =>
             \E k \in 1..m + 1 : P[k] = <<l, c>>

LEMMA FilledMore ==
    ASSUME NEW P, NEW n, NEW ends, Places(P, n, ends),
           NEW m \in Nat, NEW k \in 1..n, k = m + 1, Filled(P, m, ends)
    PROVE  Filled(P, k, ends)
<1> DEFINE L == P[k][1]
           C == P[k][2]
           Old(l) == Cardinality(LineUpTo(P, m, ends, l))
           New(l) == Cardinality(LineUpTo(P, k, ends, l))
<1>1. /\ n \in Nat
      /\ L \in Nat /\ C \in Nat
      /\ P[k + 1] = IF k \in ends THEN <<L + 1, 0>> ELSE <<L, C + 1>>
  BY DEF Places
<1>2. /\ Old(L) = C
      /\ \A l \in Nat : Old(l) \in Nat /\ (l > L => Old(l) = 0)
      /\ \A l, c \in Nat :
            l <= L /\ c <= Old(l) => \E i \in 1..m + 1 : P[i] = <<l, c>>
  BY DEF Filled
<1>3. ASSUME NEW l
      PROVE  New(l) = IF l = L /\ k \notin ends THEN Old(l) + 1 ELSE Old(l)
  <2> DEFINE S == LineUpTo(P, m, ends, l)
             X == {j \in {k} : P[j][1] = l /\ j \notin ends}
  <2>1. LineUpTo(P, k, ends, l) = S \cup X
        /\ S \in SUBSET (1..m) /\ X \in SUBSET {m + 1}
    BY DEF LineUpTo
  <2>2. (k \in X) = (l = L /\ k \notin ends)
    OBVIOUS
  <2> HIDE DEF S, X
  <2>3. Cardinality(S \cup X) = IF k \in X THEN Cardinality(S) + 1 ELSE Cardinality(S)
    BY <2>1, CountOneMore
  <2> QED  BY <2>1, <2>2, <2>3 DEF S
<1>4. \A i \in 1..m + 1 : i \in 1..k + 1
  BY <1>1
<1>5. k + 1 \in 1..k + 1 /\ k \in Nat
  BY <1>1
<1> HIDE DEF L, C, Old, New
<1>6. CASE k \in ends
  <2>1. P[k + 1] = <<L + 1, 0>> /\ P[k + 1][1] = L + 1 /\ P[k + 1][2] = 0
    BY <1>1, <1>6
  <2>2. \A l : New(l) = Old(l)
    BY <1>3, <1>6
  <2>3. New(L + 1) = 0
    BY <1>1, <1>2, <2>2
  <2>4. \A l \in Nat : New(l) \in Nat /\ (l > L + 1 => New(l) = 0)
    BY <1>1, <1>2, <2>2
  <2>5. ASSUME NEW l \in Nat, NEW c \in Nat, l <= L + 1, c <= New(l)
        PROVE  \E i \in 1..k + 1 : P[i] = <<l, c>>
    <3>1. CASE l <= L
      BY <1>2, <1>4, <2>2, <2>5, <3>1
    <3>2. CASE l = L + 1
      <4>1. c = 0
        BY <2>3, <2>5, <3>2
      <4> QED  BY <1>5, <2>1, <3>2, <4>1
    <3> QED  BY <1>1, <2>5, <3>1, <3>2
  <2>6. New(P[k + 1][1]) = P[k + 1][2]
    BY <2>1, <2>3
  <2>7. \A l \in Nat : New(l) \in Nat /\ (l > P[k + 1][1] => New(l) = 0)
    BY <2>1, <2>4
  <2>8. \A l, c \in Nat : l <= P[k + 1][1] /\ c <= New(l) =>
           \E i \in 1..k + 1 : P[i] = <<l, c>>
    BY <2>1, <2>5
  <2> QED  BY <2>6, <2>7, <2>8 DEF Filled, New
<1>7. CASE k \notin ends
  <2>1. P[k + 1] = <<L, C + 1>> /\ P[k + 1][1] = L /\ P[k + 1][2] = C + 1
    BY <1>1, <1>7
  <2>2. New(L) = C + 1 /\ \A l : l # L => New(l) = Old(l)
    BY <1>2, <1>3, <1>7
  <2>3. \A l \in Nat : New(l) \in Nat /\ (l > L => New(l) = 0)
    BY <1>1, <1>2, <2>2
  <2>4. ASSUME NEW l \in Nat, NEW c \in Nat, l <= L, c <= New(l)
        PROVE  \E i \in 1..k + 1 : P[i] = <<l, c>>
    <3>1. CASE c <= Old(l)
      BY <1>2, <1>4, <2>4, <3>1
    <3>2. CASE ~(c <= Old(l))
      <4>1. l = L
        BY <2>2, <2>4, <3>2
      <4>2. c <= C + 1 /\ ~(c <= C)
        BY <1>2, <2>2, <2>4, <3>2, <4>1
      <4>3. c = C + 1
        BY <1>1, <4>2
      <4> QED  BY <1>5, <2>1, <4>1, <4>3
    <3> QED  BY <3>1, <3>2
  <2>5. New(P[k + 1][1]) = P[k + 1][2]
    BY <2>1, <2>2
  <2>6. \A l \in Nat : New(l) \in Nat /\ (l > P[k + 1][1] => New(l) = 0)
    BY <2>1, <2>3
  <2>7. \A l, c \in Nat : l <= P[k + 1][1] /\ c <= New(l) =>
           \E i \in 1..k + 1 : P[i] = <<l, c>>
    BY <2>1, <2>4
  <2> QED  BY <2>5, <2>6, <2>7 DEF Filled, New
<1> QED  BY <1>6, <1>7

LEMMA AllFilled ==
    ASSUME NEW P, NEW n, NEW ends, Places(P, n, ends)
    PROVE  Filled(P, n, ends)
<1> DEFINE T == {m \in Nat : m \in 0..n => Filled(P, m, ends)}
<1>1. n \in Nat /\ P[1] = <<0, 0>>
  BY DEF Places
<1>2. 0 \in T
  <2>1. \A l : LineUpTo(P, 0, ends, l) = {}
    BY DEF LineUpTo
  <2>2. Cardinality({}) = 0
    BY FS_EmptySet
  <2>3. 0 + 1 = 1 /\ 1 \in 1..1 /\ P[1][1] = 0 /\ P[1][2] = 0
    BY <1>1
  <2>4. \A l, c \in Nat : l <= 0 /\ c <= 0 => <<l, c>> = P[1]
    BY <1>1
  <2>5. Filled(P, 0, ends)
    <3>1. \A l : Cardinality(LineUpTo(P, 0, ends, l)) = 0
      BY <2>1, <2>2
    <3>2. P[0 + 1] = P[1] /\ 1..(0 + 1) = 1..1
      OBVIOUS
    <3>3. \A l, c \in Nat : l <= 0 /\ c <= 0 => \E k \in 1..0 + 1 : P[k] = <<l, c>>
      BY <2>3, <2>4, <3>2
    <3> QED  BY <2>3, <3>1, <3>2, <3>3 DEF Filled
  <2> QED  BY <2>5
<1>3. \A m \in Nat : m \in T => m + 1 \in T
  <2> SUFFICES ASSUME NEW m \in Nat, m \in T, m + 1 \in 0..n
               PROVE  Filled(P, m + 1, ends)
    OBVIOUS
  <2>1. PICK k \in 1..n : k = m + 1
    BY <1>1
  <2>2. Filled(P, m, ends)
    BY <1>1
  <2>3. Filled(P, k, ends)
    BY <2>1, <2>2, FilledMore
  <2> QED  BY <2>1, <2>3
<1> HIDE DEF T
<1>4. Nat \subseteq T
  BY <1>2, <1>3, NatSetInduction
<1>5. n \in T /\ n \in 0..n
  BY <1>1, <1>4
<1> QED  BY <1>5 DEF T

-----------------------------------------------------------------------------
(***************************************************************************)
(* Places in the text of a document.                                       *)
(***************************************************************************)

\* Counting further gives the same places.
LEMMA CountingAgrees ==
    ASSUME NEW d, NEW text, NEW k \in Nat \ {0}, NEW m \in Nat \ {0},
           NEW i \in 1..k, i \in 1..m
    PROVE  Counting(d, text, k)[i] = Counting(d, text, m)[i]
<1> DEFINE f == Counting(d, text, k)
           g == Counting(d, text, m)
           T == {j \in Nat : j + 1 \in 1..k /\ j + 1 \in 1..m => f[j + 1] = g[j + 1]}
<1>1. f[1] = <<0, 0>> /\ \A j \in 2..k : f[j] = PlaceAfter(d, text[j - 1], f[j - 1])
  BY CountingDef
<1>2. g[1] = <<0, 0>> /\ \A j \in 2..m : g[j] = PlaceAfter(d, text[j - 1], g[j - 1])
  BY CountingDef
<1> HIDE DEF f, g
<1>3. 0 \in T
  <2>1. 0 + 1 = 1 /\ 0 \in Nat
    OBVIOUS
  <2> QED  BY <1>1, <1>2, <2>1
<1>4. \A j \in Nat : j \in T => j + 1 \in T
  <2> SUFFICES ASSUME NEW j \in Nat, j \in T, j + 1 + 1 \in 1..k, j + 1 + 1 \in 1..m
               PROVE  f[j + 1 + 1] = g[j + 1 + 1]
    OBVIOUS
  <2>1. /\ j + 1 + 1 \in 2..k /\ j + 1 + 1 \in 2..m /\ j + 1 + 1 - 1 = j + 1
        /\ j + 1 \in 1..k /\ j + 1 \in 1..m
    OBVIOUS
  <2>2. f[j + 1] = g[j + 1]
    BY <2>1
  <2> HIDE DEF T
  <2> QED  BY <1>1, <1>2, <2>1, <2>2
<1> HIDE DEF T
<1>5. Nat \subseteq T
  BY <1>3, <1>4, NatSetInduction
<1>6. i - 1 \in T /\ i - 1 + 1 = i
  BY <1>5
<1> QED  BY <1>6 DEF T, f, g

LEMMA PositionInSteps ==
    ASSUME NEW d, NEW text
    PROVE  /\ PositionIn(d, text, 1) = <<0, 0>>
           /\ \A k \in Nat \ {0} :
                 PositionIn(d, text, k + 1)
                    = PlaceAfter(d, text[k], PositionIn(d, text, k))
<1>1. \A k : PositionIn(d, text, k) = Counting(d, text, k)[k]
  BY DEF PositionIn, Counting
<1>2. PositionIn(d, text, 1) = <<0, 0>>
  <2>1. 1 \in Nat \ {0}
    OBVIOUS
  <2> QED  BY <1>1, <2>1, CountingDef
<1>3. ASSUME NEW k \in Nat \ {0}
      PROVE  PositionIn(d, text, k + 1)
                = PlaceAfter(d, text[k], PositionIn(d, text, k))
  <2>1. /\ k + 1 \in Nat \ {0} /\ k + 1 \in 2..k + 1 /\ k + 1 - 1 = k
        /\ k \in 1..k /\ k \in 1..k + 1
    OBVIOUS
  <2>2. Counting(d, text, k + 1)[k + 1]
           = PlaceAfter(d, text[k], Counting(d, text, k + 1)[k])
    <3> PICK m \in Nat \ {0} : m = k + 1
      BY <2>1
    <3>1. \A i \in 2..m : Counting(d, text, m)[i] =
             PlaceAfter(d, text[i - 1], Counting(d, text, m)[i - 1])
      BY CountingDef
    <3> QED  BY <2>1, <3>1
  <2>3. Counting(d, text, k + 1)[k] = Counting(d, text, k)[k]
    BY <2>1, CountingAgrees
  <2> QED  BY <1>1, <2>2, <2>3
<1> QED  BY <1>2, <1>3

PlacesOf(d) ==
    [k \in 1..Len(Visible(d)) + 1 |-> PositionIn(d, Visible(d), k)]

EndsOf(d) == {k \in DOMAIN Visible(d) : IsNewLine(d, Visible(d)[k])}

LEMMA PlacesOfText ==
    ASSUME NEW d, IsTree(d)
    PROVE  Places(PlacesOf(d), Len(Visible(d)), EndsOf(d))
<1> DEFINE text == Visible(d)
           n == Len(text)
           P == PlacesOf(d)
<1>1. n \in Nat /\ DOMAIN text = 1..n
  BY TextDistinct
<1>2. P = [k \in 1..n + 1 |-> PositionIn(d, text, k)]
  BY DEF PlacesOf
<1>3. EndsOf(d) = {k \in 1..n : IsNewLine(d, text[k])}
  BY <1>1 DEF EndsOf
<1> HIDE DEF P, text, n
<1>4. P \in [1..n + 1 -> Nat \X Nat]
  BY <1>1, <1>2, PositionInType
<1>5. P[1] = <<0, 0>>
  <2>1. 1 \in 1..n + 1
    BY <1>1
  <2> QED  BY <1>2, <2>1, PositionInSteps
<1>6. ASSUME NEW k \in 1..n
      PROVE  P[k + 1] = IF k \in EndsOf(d) THEN <<P[k][1] + 1, 0>>
                        ELSE <<P[k][1], P[k][2] + 1>>
  <2>1. k \in 1..n + 1 /\ k + 1 \in 1..n + 1 /\ k \in Nat \ {0}
    BY <1>1
  <2>2. P[k + 1] = PlaceAfter(d, text[k], P[k])
    BY <1>2, <2>1, PositionInSteps
  <2> QED  BY <1>3, <2>2 DEF PlaceAfter
<1> QED  BY <1>1, <1>4, <1>5, <1>6 DEF Places, P, n, text

\* Where the cursor is drawn that stands behind the k-th element.
LEMMA CursorAfter ==
    ASSUME NEW d, IsTree(d), NEW k \in 1..Len(Visible(d))
    PROVE  CursorPosition(d, Visible(d)[k]) = PlacesOf(d)[k + 1]
<1> DEFINE text == Visible(d)
           n == Len(text)
           x == text[k]
           i == IndexIn(text, x)
<1>1. text \in Seq(Anchors(d) \ {ROOT_ID}) /\ Distinct(text)
  BY TextDistinct
<1>2. n \in Nat /\ DOMAIN text = 1..n /\ x # ROOT_ID
  BY <1>1
<1>3. i = k
  <2>1. x \in Elems(text)
    BY <1>2 DEF Elems
  <2>2. i \in DOMAIN text /\ text[i] = x
    BY <2>1, IndexInText
  <2> QED  BY <1>1, <1>2, <2>2 DEF Distinct
<1>4. LineColumn(d, x) = PositionIn(d, text, k)
  BY <1>3 DEF LineColumn
<1> HIDE DEF i, x
<1>5. CursorPosition(d, x) = PlaceAfter(d, x, PositionIn(d, text, k))
  BY <1>2, <1>4 DEF CursorPosition, PlaceAfter
<1>6. k \in Nat \ {0} /\ k + 1 \in 1..n + 1
  BY <1>2
<1>7. PlacesOf(d)[k + 1] = PositionIn(d, text, k + 1)
  BY <1>6 DEF PlacesOf
<1>8. PositionIn(d, text, k + 1) = PlaceAfter(d, x, PositionIn(d, text, k))
  BY <1>6, PositionInSteps DEF x
<1> QED  BY <1>5, <1>7, <1>8 DEF x

\* Where the cursor is drawn at a place of the text, and who stands there.
AnchorOf(d, k) == IF k = 1 THEN ROOT_ID ELSE Visible(d)[k - 1]

LEMMA CursorAtPlace ==
    ASSUME NEW d, IsTree(d), NEW k \in 1..Len(Visible(d)) + 1
    PROVE  /\ AnchorOf(d, k) \in Anchors(d)
           /\ HasCursorPosition(d, AnchorOf(d, k))
           /\ CursorPosition(d, AnchorOf(d, k)) = PlacesOf(d)[k]
<1> DEFINE text == Visible(d)
           n == Len(text)
<1>1. text \in Seq(Anchors(d) \ {ROOT_ID}) /\ n \in Nat
  BY TextDistinct
<1> HIDE DEF text, n
<1>2. k \in 1..n + 1
  BY DEF text, n
<1>3. CASE k = 1
  <2>1. PlacesOf(d)[1] = <<0, 0>>
    BY PlacesOfText DEF Places
  <2> QED  BY <1>3, <2>1 DEF AnchorOf, HasCursorPosition, CursorPosition, Anchors
<1>4. CASE k # 1
  <2>1. PICK j \in 1..n : k = j + 1
    <3>1. k - 1 \in 1..n /\ k = k - 1 + 1
      BY <1>1, <1>2, <1>4
    <3> QED  BY <3>1
  <2>2. k - 1 = j
    BY <2>1, <1>1
  <2>3. AnchorOf(d, k) = text[j]
    BY <1>4, <2>2 DEF AnchorOf, text
  <2>4. text[j] \in Anchors(d) \ {ROOT_ID}
    BY <1>1 DEF n
  <2>5. HasCursorPosition(d, text[j])
    BY <2>4 DEF HasCursorPosition, Anchors
  <2>6. CursorPosition(d, text[j]) = PlacesOf(d)[k]
    BY <2>1, CursorAfter DEF text, n
  <2> QED  BY <2>3, <2>4, <2>5, <2>6
<1> QED  BY <1>3, <1>4

\* get_anchor_at finds the anchor of a place.
LEMMA AnchorAtPlace ==
    ASSUME NEW d, IsTree(d), NEW k \in 1..Len(Visible(d)) + 1,
           NEW line, NEW column, PlacesOf(d)[k] = <<line, column>>
    PROVE  AnchorAt(d, line, column) = AnchorOf(d, k)
<1> DEFINE text == Visible(d)
           at == {j \in 1..Len(text) + 1 :
                     PositionIn(d, text, j) = <<line, column>>}
           m == CHOOSE j \in at : TRUE
<1>1. AnchorAt(d, line, column) = IF at = {} THEN NoElement
                                  ELSE IF m = 1 THEN ROOT_ID ELSE text[m - 1]
  BY DEF AnchorAt
<1>2. at = {j \in 1..Len(text) + 1 : PlacesOf(d)[j] = <<line, column>>}
  BY DEF PlacesOf
<1> HIDE DEF at
<1>3. k \in at
  BY <1>2
<1>4. \A j \in at : j = k
  BY <1>2, PlacesOfText, PlacesDiffer
<1>5. at # {} /\ m = k
  BY <1>3, <1>4
<1> QED  BY <1>1, <1>5 DEF AnchorOf

\* The element of the text after the k-th.
LEMMA TextSteps ==
    ASSUME NEW d, IsTree(d), NEW k \in 1..Len(Visible(d))
    PROVE  VisibleSuccessor(d, Visible(d)[k]) =
              IF k = Len(Visible(d)) THEN NoElement ELSE Visible(d)[k + 1]
<1> DEFINE text == Visible(d)
           n == Len(text)
           x == text[k]
           next == VisibleSuccessor(d, x)
           M == Anchors(d) \ {ROOT_ID}
<1>1. Lists(d, text, M) /\ M \in SUBSET Present(d)
  BY VisibleLists DEF Anchors, IsTree
<1>2. text \in Seq(M) /\ n \in Nat /\ DOMAIN text = 1..n /\ Elems(text) = M
  BY <1>1 DEF Lists
<1> HIDE DEF text, M
<1>3. ASSUME NEW i \in DOMAIN text, NEW j \in DOMAIN text
      PROVE  (text[i] \in UpTo(d, text[j])) = (i <= j)
  BY <1>1, ListPlaces
<1>4. k \in 1..n /\ x \in M /\ x \in Present(d)
  BY <1>1, <1>2 DEF text
<1> HIDE DEF n, x, next
<1>5. \/ /\ next = NoElement
         /\ \A v \in Present(d) \ UpTo(d, x) : IsDeleted(d, v)
      \/ /\ next \in M
         /\ next \notin UpTo(d, x)
         /\ \A v \in Present(d) \ UpTo(d, x) :
               IsDeleted(d, v) \/ next \in UpTo(d, v)
  BY <1>4, VisibleSuccessorIs DEF next, M
<1>6. ASSUME NEW j \in 1..n, k < j
      PROVE  text[j] \in Present(d) \ UpTo(d, x) /\ ~IsDeleted(d, text[j])
  <2>1. text[j] \in M /\ ~(j <= k)
    BY <1>2, <1>4, <1>6 DEF n
  <2>2. text[j] \notin UpTo(d, x)
    BY <1>2, <1>3, <1>4, <2>1 DEF x
  <2>3. text[j] \in Present(d) /\ ~IsDeleted(d, text[j])
    BY <1>1, <2>1 DEF M, Anchors
  <2> QED  BY <2>2, <2>3
<1>7. CASE /\ next = NoElement
           /\ \A v \in Present(d) \ UpTo(d, x) : IsDeleted(d, v)
  <2>1. ~(n > k)
    <3> SUFFICES ASSUME k < n
                 PROVE  FALSE
      BY <1>2, <1>4
    <3>1. n \in 1..n
      BY <1>2, <1>4
    <3> QED  BY <1>6, <1>7, <3>1
  <2>2. k = n
    BY <1>2, <1>4, <2>1
  <2> QED  BY <1>7, <2>2 DEF next, x, n, text
<1>8. CASE /\ next \in M
           /\ next \notin UpTo(d, x)
           /\ \A v \in Present(d) \ UpTo(d, x) :
                 IsDeleted(d, v) \/ next \in UpTo(d, v)
  <2>1. PICK j \in 1..n : next = text[j]
    BY <1>2, <1>8 DEF Elems
  <2>2. ~(j <= k)
    BY <1>2, <1>3, <1>4, <1>8, <2>1 DEF x
  <2>3. k + 1 \in 1..n /\ k < k + 1 /\ k # n /\ k + 1 <= j
    BY <1>2, <1>4, <2>2
  <2>4. text[j] \in UpTo(d, text[k + 1])
    BY <1>6, <1>8, <2>1, <2>3
  <2>5. j <= k + 1
    BY <1>2, <1>3, <2>3, <2>4
  <2>6. j = k + 1
    BY <1>2, <1>4, <2>3, <2>5
  <2> QED  BY <2>1, <2>3, <2>6 DEF next, x, n, text
<1> QED  BY <1>5, <1>7, <1>8

\* get_element_at finds the element behind a cursor.
LEMMA ElementAtPlace ==
    ASSUME NEW d, IsTree(d), NEW k \in 1..Len(Visible(d)),
           NEW line, NEW column, PlacesOf(d)[k + 1] = <<line, column>>
    PROVE  ElementAt(d, line, column) =
              IF k = Len(Visible(d)) THEN NoElement ELSE Visible(d)[k + 1]
<1> DEFINE text == Visible(d)
           n == Len(text)
           at == {j \in DOMAIN text :
                     PositionIn(d, text, j) = <<line, column>>}
           m == CHOOSE j \in at : TRUE
<1>1. ElementAt(d, line, column) = IF at = {} THEN NoElement ELSE text[m]
  BY DEF ElementAt
<1>2. n \in Nat /\ DOMAIN text = 1..n
  BY TextDistinct
<1>0. k \in 1..n
  OBVIOUS
<1>3. at = {j \in 1..n : PlacesOf(d)[j] = <<line, column>>}
  <2>1. \A j \in 1..n : j \in 1..n + 1
    BY <1>2
  <2> QED  BY <1>2, <2>1 DEF PlacesOf
<1> HIDE DEF at, n
<1>4. \A j \in at : j = k + 1
  <2>1. \A j \in 1..n : j \in 1..n + 1
    BY <1>2
  <2>2. k + 1 \in 1..n + 1
    BY <1>2 DEF n
  <2>3. Places(PlacesOf(d), n, EndsOf(d))
    BY PlacesOfText DEF n
  <2> QED  BY <1>3, <2>1, <2>2, <2>3, PlacesDiffer
<1>5. CASE k = n
  <2>1. k + 1 \notin 1..n
    BY <1>2, <1>5
  <2>2. at = {}
    BY <1>3, <1>4, <2>1
  <2> QED  BY <1>1, <1>5, <2>2 DEF n
<1>6. CASE k # n
  <2>1. k + 1 \in 1..n
    BY <1>0, <1>2, <1>6
  <2>2. k + 1 \in at
    BY <1>3, <2>1
  <2>3. at # {} /\ m = k + 1
    BY <1>4, <2>2
  <2> QED  BY <1>1, <1>6, <2>3 DEF n
<1> QED  BY <1>5, <1>6

\* clamp_position gives a place of the text.
LEMMA ClampIsPlace ==
    ASSUME NEW d, IsTree(d), NEW line \in Nat, NEW column \in Nat
    PROVE  \E k \in 1..Len(Visible(d)) + 1 :
              PlacesOf(d)[k] = ClampPosition(d, line, column)
<1> DEFINE text == Visible(d)
           n == Len(text)
           P == PlacesOf(d)
           ends == EndsOf(d)
           last == LineCount(d) - 1
           l == IF line < last THEN line ELSE last
           len == LineLength(d, l)
           c == IF column < len THEN column ELSE len
<1>1. Places(P, n, ends) /\ n \in Nat /\ DOMAIN text = 1..n
  BY TextDistinct, PlacesOfText
<1>2. ClampPosition(d, line, column) = <<l, c>>
  BY DEF ClampPosition
<1>3. LineCount(d) = Cardinality(EndsUpTo(n, ends)) + 1
  <2>1. EndsUpTo(n, ends) = {k \in DOMAIN text : IsNewLine(d, text[k])}
    BY <1>1 DEF EndsUpTo, EndsOf
  <2> QED  BY <2>1 DEF LineCount
<1>4. ASSUME NEW j
      PROVE  LineLength(d, j) = Cardinality(LineUpTo(P, n, ends, j))
  <2>1. \A k \in 1..n : k \in 1..n + 1
    BY <1>1
  <2>2. \A k \in 1..n : P[k] = PositionIn(d, text, k)
    BY <2>1 DEF PlacesOf
  <2>3. LineUpTo(P, n, ends, j) = {k \in DOMAIN text :
                                      /\ PositionIn(d, text, k)[1] = j
                                      /\ ~IsNewLine(d, text[k])}
    BY <1>1, <2>2 DEF LineUpTo, EndsOf
  <2> QED  BY <2>3 DEF LineLength
<1> HIDE DEF P, n, ends, text
<1>5. P[n + 1][1] = Cardinality(EndsUpTo(n, ends)) /\ P[n + 1][1] \in Nat
  <2>1. n + 1 \in 1..n + 1 /\ n \in 0..n
    BY <1>1
  <2> QED  BY <1>1, <2>1, LinesCounted DEF Places
<1>6. last = P[n + 1][1] /\ last \in Nat
  BY <1>3, <1>5
<1> HIDE DEF last
<1>7. l \in Nat /\ l <= P[n + 1][1]
  BY <1>6
<1> HIDE DEF l
<1>8. Filled(P, n, ends)
  BY <1>1, AllFilled
<1>9. len \in Nat /\ len = Cardinality(LineUpTo(P, n, ends, l))
  BY <1>4, <1>7, <1>8 DEF Filled
<1> HIDE DEF len
<1>10. c \in Nat /\ c <= len
  BY <1>9
<1> HIDE DEF c
<1>11. \E k \in 1..n + 1 : P[k] = <<l, c>>
  BY <1>7, <1>8, <1>9, <1>10 DEF Filled
<1> QED  BY <1>2, <1>11 DEF P, n, text

\* The walk begins at the root.
LEMMA RootBeforeAll ==
    ASSUME NEW d, IsTree(d)
    PROVE  \A x \in Present(d) : ROOT_ID \in UpTo(d, x)
<1> DEFINE S == {x \in Present(d) : ROOT_ID \in UpTo(d, x)}
<1>1. ROOT_ID \in S
  BY AncestorsOfRoot DEF UpTo, IsTree
<1>2. ASSUME NEW x \in Present(d) \ {ROOT_ID}, d.parent_of[x] \in S
      PROVE  x \in S
  BY <1>2, UpToParent
<1> HIDE DEF S
<1>3. Present(d) \subseteq S
  BY <1>1, <1>2, TreeInduction
<1> QED  BY <1>3 DEF S
=============================================================================
