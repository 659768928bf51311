--------------------------- MODULE RestartsProofs ---------------------------
(***************************************************************************)
(* Theorems about Restarts.tla, for any set of sites and characters and    *)
(* any bounds: what editors that are closed and started again may rely on. *)
(* They rest on the inductive invariant IInv of that module, whose steps   *)
(* use the lemmas about single documents in DocumentProofs.tla; the last   *)
(* of them needs Screens as well, which holds of every editor's document.  *)
(***************************************************************************)
EXTENDS Restarts, DocumentProofs

Message == Operation \cup {SyncComplete}

LEMMA ServerIsNoSite ==
    Server \notin Site
BY SiteAssumption DEF Server

LEMMA MessageKinds ==
    /\ SyncComplete \notin Operation
    /\ \A op \in Operation : IsOperation(op)
BY DEF SyncComplete, Operation, InsertOperation, RemoveOperation, IsOperation

-----------------------------------------------------------------------------
\* Sequences of messages, and the sets of their elements.
LEMMA TailElems ==
    ASSUME NEW S, NEW q \in Seq(S), q # <<>>
    PROVE  /\ Head(q) \in S
           /\ Tail(q) \in Seq(S)
           /\ Elems(q) = {Head(q)} \cup Elems(Tail(q))
<1>1. Head(q) = q[1] /\ Len(q) \in Nat \ {0} /\ DOMAIN q = 1..Len(q)
  OBVIOUS
<1>2. /\ Tail(q) \in Seq(S)
      /\ DOMAIN Tail(q) = 1..Len(q) - 1
      /\ \A i \in 1..Len(q) - 1 : Tail(q)[i] = q[i + 1]
  OBVIOUS
<1>3. ASSUME NEW i \in DOMAIN q
      PROVE  q[i] \in {Head(q)} \cup Elems(Tail(q))
  <2>1. CASE i = 1
    BY <1>1, <2>1
  <2>2. CASE i # 1
    <3>1. i - 1 \in 1..Len(q) - 1 /\ Tail(q)[i - 1] = q[i]
      BY <1>1, <1>2, <2>2
    <3> QED  BY <1>2, <3>1 DEF Elems
  <2> QED  BY <2>1, <2>2
<1>4. ASSUME NEW i \in DOMAIN Tail(q)
      PROVE  Tail(q)[i] \in Elems(q)
  <2>1. i + 1 \in DOMAIN q /\ Tail(q)[i] = q[i + 1]
    BY <1>1, <1>2
  <2> QED  BY <2>1 DEF Elems
<1>5. Head(q) \in S /\ Head(q) \in Elems(q)
  <2>1. 1 \in DOMAIN q /\ q[1] \in S
    BY <1>1
  <2> QED  BY <1>1, <2>1 DEF Elems
<1>6. Elems(q) \subseteq {Head(q)} \cup Elems(Tail(q))
  BY ONLY <1>3 DEF Elems
<1>7. Elems(Tail(q)) \subseteq Elems(q)
  BY ONLY <1>4 DEF Elems
<1>8. Elems(q) = {Head(q)} \cup Elems(Tail(q))
  BY ONLY <1>5, <1>6, <1>7
<1> QED  BY <1>2, <1>5, <1>8

LEMMA AppendElems ==
    ASSUME NEW S, NEW q \in Seq(S), NEW m \in S
    PROVE  /\ Append(q, m) \in Seq(S)
           /\ Elems(Append(q, m)) = Elems(q) \cup {m}
           /\ Append(q, m) # <<>>
           /\ q # <<>> => Head(Append(q, m)) = Head(q)
           /\ q = <<>> => Head(Append(q, m)) = m
<1>1. /\ Append(q, m) \in Seq(S)
      /\ Len(Append(q, m)) = Len(q) + 1
      /\ DOMAIN Append(q, m) = 1..Len(q) + 1
      /\ \A i \in 1..Len(q) : Append(q, m)[i] = q[i]
      /\ Append(q, m)[Len(q) + 1] = m
      /\ DOMAIN q = 1..Len(q) /\ Len(q) \in Nat
  OBVIOUS
<1>2. Elems(Append(q, m)) = Elems(q) \cup {m}
  <2>1. ASSUME NEW i \in DOMAIN Append(q, m)
        PROVE  Append(q, m)[i] \in Elems(q) \cup {m}
    <3>1. i \in 1..Len(q) \/ i = Len(q) + 1
      BY <1>1
    <3> QED  BY <1>1, <3>1 DEF Elems
  <2>2. ASSUME NEW i \in DOMAIN q
        PROVE  q[i] \in Elems(Append(q, m))
    <3>1. i \in DOMAIN Append(q, m) /\ Append(q, m)[i] = q[i]
      BY <1>1
    <3> QED  BY <3>1 DEF Elems
  <2>3. m \in Elems(Append(q, m))
    <3>1. Len(q) + 1 \in DOMAIN Append(q, m)
      BY <1>1
    <3> QED  BY <1>1, <3>1 DEF Elems
  <2> QED  BY <2>1, <2>2, <2>3 DEF Elems
<1>3. Head(Append(q, m)) = Append(q, m)[1] /\ Append(q, m) # <<>>
  BY <1>1
<1>4. q # <<>> => 1 \in 1..Len(q) /\ Head(q) = q[1]
  BY <1>1
<1> QED  BY <1>1, <1>2, <1>3, <1>4

LEMMA PrefixElems ==
    ASSUME NEW S, NEW q \in Seq(S), NEW n \in 0..Len(q)
    PROVE  /\ SubSeq(q, 1, n) \in Seq(S)
           /\ Elems(SubSeq(q, 1, n)) \subseteq Elems(q)
           /\ q = <<>> => SubSeq(q, 1, n) = <<>>
           /\ SubSeq(q, 1, n) # <<>> => Head(SubSeq(q, 1, n)) = Head(q)
<1> DEFINE p == SubSeq(q, 1, n)
<1>1. /\ p \in Seq(S)
      /\ Len(p) = n
      /\ DOMAIN p = 1..n
      /\ \A i \in 1..n : p[i] = q[i]
      /\ DOMAIN q = 1..Len(q) /\ Len(q) \in Nat
  OBVIOUS
<1>2. Elems(p) \subseteq Elems(q)
  BY <1>1 DEF Elems
<1>3. q = <<>> => p = <<>>
  BY <1>1
<1>4. p # <<>> => Head(p) = Head(q)
  <2> SUFFICES ASSUME p # <<>> PROVE Head(p) = Head(q)
    OBVIOUS
  <2>1. n # 0 /\ 1 \in 1..n /\ q # <<>>
    BY <1>1
  <2>2. Head(p) = p[1] /\ Head(q) = q[1]
    BY <1>1, <2>1
  <2> QED  BY <1>1, <2>1, <2>2
<1> QED  BY <1>1, <1>2, <1>3, <1>4

LEMMA NothingElems ==
    Elems(<<>>) = {}
BY DEF Elems

-----------------------------------------------------------------------------
(***************************************************************************)
(* Documents of impatient editors: their shape is kept by any operation.   *)
(***************************************************************************)
LEMMA ShapeOfEmpty ==
    HasShape(EmptyDocument)
BY DEF HasShape, EmptyDocument, Present, ElementID

LEMMA ShapeKept ==
    ASSUME NEW d, HasShape(d), NEW op \in Operation
    PROVE  HasShape(Apply(d, op))
<1> DEFINE fields == {"elements", "tombstones", "buffered_inserts",
                      "buffered_insert_ids", "buffered_deletes"}
<1>1. fields \subseteq DOMAIN d /\ Present(d) \subseteq ElementID
      /\ d.buffered_inserts \subseteq InsertOperation
  BY DEF HasShape
<1>2. CASE ~IsInsert(op)
  <2>1. CASE op.target \in Present(d)
    <3> DEFINE e == [d EXCEPT !.tombstones = @ \cup {op.target}]
    <3>1. DOMAIN e = DOMAIN d /\ e.elements = d.elements
          /\ e.buffered_inserts = d.buffered_inserts
      BY <1>1
    <3>2. Apply(d, op) = e
      BY <1>2, <2>1 DEF Apply, ApplyDelete
    <3> HIDE DEF e
    <3> QED  BY <1>1, <3>1, <3>2 DEF HasShape, Present
  <2>2. CASE op.target \notin Present(d)
    <3> DEFINE e == [d EXCEPT !.buffered_deletes = @ \cup {op.target}]
    <3>1. DOMAIN e = DOMAIN d /\ e.elements = d.elements
          /\ e.buffered_inserts = d.buffered_inserts
      BY <1>1
    <3>2. Apply(d, op) = e
      BY <1>2, <2>2 DEF Apply, ApplyDelete
    <3> HIDE DEF e
    <3> QED  BY <1>1, <3>1, <3>2 DEF HasShape, Present
  <2> QED  BY <2>1, <2>2
<1>3. CASE IsInsert(op)
  <2>1. op \in InsertOperation /\ op.id \in GeneratedID
    BY <1>3, OperationFields DEF Operation
  <2>2. Apply(d, op) = ApplyInsert(d, op)
    BY <1>3 DEF Apply
  <2>3. CASE op.id \in Present(d)
    BY <2>2, <2>3 DEF ApplyInsert
  <2>4. CASE op.id \notin Present(d) /\ op.parent \notin Present(d)
    <3>1. CASE op.id \in d.buffered_insert_ids
      BY <2>2, <2>4, <3>1 DEF ApplyInsert, BufferInsert
    <3>2. CASE op.id \notin d.buffered_insert_ids
      <4> DEFINE e == [d EXCEPT !.buffered_inserts    = @ \cup {op},
                                !.buffered_insert_ids = @ \cup {op.id}]
      <4>1. DOMAIN e = DOMAIN d /\ e.elements = d.elements
            /\ e.buffered_inserts = d.buffered_inserts \cup {op}
        BY <1>1
      <4>2. Apply(d, op) = e
        BY <2>2, <2>4, <3>2 DEF ApplyInsert, BufferInsert
      <4> HIDE DEF e
      <4> QED  BY <1>1, <2>1, <4>1, <4>2 DEF HasShape, Present
    <3> QED  BY <3>1, <3>2
  <2>5. CASE op.id \notin Present(d) /\ op.parent \in Present(d)
    <3> DEFINE R == Cascade(d, op.id)
               new == {op} \cup {b \in R : b.id \notin Present(d) \cup {op.id}}
               e == Attach(d, op)
    <3>1. R \subseteq d.buffered_inserts
      BY CascadeLeast
    <3>2. Ids(new) \subseteq ElementID
      BY <1>1, <2>1, <3>1, OperationFields DEF Ids, ElementID
    <3>3. /\ fields \subseteq DOMAIN e
          /\ DOMAIN e.elements = Present(d) \cup Ids(new)
          /\ e.buffered_inserts = d.buffered_inserts \ R
      BY DEF Attach
    <3>4. Apply(d, op) = e
      BY <2>2, <2>5 DEF ApplyInsert
    <3> HIDE DEF e, new, R
    <3> QED  BY <1>1, <3>2, <3>3, <3>4 DEF HasShape, Present
  <2> QED  BY <2>3, <2>4, <2>5
<1> QED  BY <1>2, <1>3

-----------------------------------------------------------------------------
(***************************************************************************)
(* What the invariant says of one site, and of what is held.               *)
(***************************************************************************)
LEMMA SiteFacts ==
    ASSUME IInv, NEW s \in Site
    PROVE  /\ s \in Replica /\ s # Server /\ Server \in Patient
           /\ wire[s] \in Seq(Message)
           /\ WireOps(s) \subseteq Operation
           /\ pending[s] \cup incoming[s] \subseteq Operation
           /\ pending[s] \cup incoming[s] \subseteq applied[Server]
           /\ clock[s] \in Nat
           /\ LinkAgrees(s)
<1>1. s \in Replica /\ s # Server
  BY ServerIsNoSite DEF Replica
<1>2. Server \in Patient
  BY ServerIsNoSite DEF IInv, VariablesTyped, Patient, Replica
<1>3. /\ wire[s] \in Seq(Message)
      /\ pending[s] \cup incoming[s] \subseteq Operation
      /\ clock[s] \in Nat
  BY DEF IInv, VariablesTyped, Message
<1>4. WireOps(s) \subseteq Operation
  <2>1. Elems(wire[s]) \subseteq Message
    BY <1>3 DEF Elems
  <2> QED  BY <2>1 DEF WireOps, Message, IsOperation
<1>5. LinkAgrees(s)
  BY DEF IInv, LinksAgree
<1> QED  BY <1>1, <1>2, <1>3, <1>4, <1>5 DEF LinkAgrees

LEMMA HeldHas ==
    /\ \A r \in Patient : applied[r] \subseteq Held
    /\ \A s \in Site : Accepted(s) \subseteq Held
BY DEF Held

LEMMA HeldOnly ==
    ASSUME NEW X,
           \A r \in Patient' : applied'[r] \subseteq X,
           \A s \in Site : Accepted(s)' \subseteq X
    PROVE  Held' \subseteq X
BY DEF Held

LEMMA HeldIds ==
    ASSUME IInv, NEW o \in Inserts(Held)
    PROVE  o.id \in GeneratedID /\ o.id[1] \in Nat /\ o.id[2] \in Site
<1>1. o.id \in GeneratedID /\ o.id \in ElementID
  BY LegalSubset, OperationFields DEF IInv, ElementID
<1> QED  BY <1>1, IdParts DEF IInv, OwnIdsAreBehind

LEMMA HeldInserts ==
    ASSUME NEW X, NEW Y, X \subseteq Y
    PROVE  Inserts(X) \subseteq Inserts(Y)
BY DEF Inserts

\* What the server will take from a wire that is as it was, or cut.
LEMMA AcceptedSame ==
    ASSUME NEW s \in Site, conn'[s] = conn[s], wire'[s] = wire[s]
    PROVE  WireOps(s)' = WireOps(s) /\ Accepted(s)' = Accepted(s)
BY DEF Accepted, WireOps

LEMMA AcceptedNothing ==
    ASSUME NEW s \in Site, wire'[s] = <<>>
    PROVE  WireOps(s)' = {} /\ Accepted(s)' = {}
BY NothingElems DEF Accepted, WireOps

LEMMA AcceptedCut ==
    ASSUME IInv, NEW s \in Site, CutWire(s)
    PROVE  /\ wire' \in [Site -> Seq(Message)]
           /\ \A p \in Site : p # s => wire'[p] = wire[p]
           /\ wire[s] = <<>> => wire'[s] = <<>>
           /\ WireOps(s)' \subseteq WireOps(s)
           /\ conn' = conn => Accepted(s)' \subseteq Accepted(s)
<1>1. PICK n \in 0..Len(wire[s]) :
         wire' = [wire EXCEPT ![s] = SubSeq(@, 1, n)]
  BY DEF CutWire
<1>2. wire \in [Site -> Seq(Message)]
  BY DEF IInv, VariablesTyped, Message
<1> DEFINE q == SubSeq(wire[s], 1, n)
<1>3. /\ q \in Seq(Message)
      /\ Elems(q) \subseteq Elems(wire[s])
      /\ wire[s] = <<>> => q = <<>>
      /\ q # <<>> => Head(q) = Head(wire[s])
  BY <1>2, PrefixElems
<1>4. wire'[s] = q /\ \A p \in Site : p # s => wire'[p] = wire[p]
  BY <1>1, <1>2
<1>5. wire' \in [Site -> Seq(Message)]
  BY <1>1, <1>2, <1>3
<1> HIDE DEF q
<1>6. WireOps(s)' \subseteq WireOps(s)
  BY <1>3, <1>4 DEF WireOps
<1>7. conn' = conn => Accepted(s)' \subseteq Accepted(s)
  BY <1>3, <1>4, <1>6 DEF Accepted
<1> QED  BY <1>3, <1>4, <1>5, <1>6, <1>7

-----------------------------------------------------------------------------
(***************************************************************************)
(* The parts of the invariant under steps that leave most of it alone.     *)
(***************************************************************************)
LEMMA DocumentsKept ==
    ASSUME IInv, UNCHANGED documents, Held' \subseteq Held
    PROVE  DocumentsHaveShape' /\ PatientConvergence' /\ Legal(Held)'
<1>1. Legal(Held')
  BY LegalSubset DEF IInv
<1> QED  BY <1>1 DEF IInv, documents, DocumentsHaveShape, PatientConvergence, Patient

LEMMA IdsKept ==
    ASSUME IInv, Held' \subseteq Held, UNCHANGED <<clock, progress>>,
           \A s \in Site : incoming[s] \subseteq incoming'[s]
    PROVE  OwnIdsAreBehind'
<1>1. Inserts(Held') \subseteq Inserts(Held)
  BY HeldInserts
<1> QED  BY <1>1 DEF IInv, OwnIdsAreBehind

LEMMA ProvenanceKept ==
    ASSUME IInv, UNCHANGED documents,
           \A s \in Site : WireOps(s)' \subseteq WireOps(s)
    PROVE  Provenance'
<1>1. \A s \in Site : Inserts(WireOps(s)') \subseteq Inserts(WireOps(s))
  BY HeldInserts
<1> QED  BY <1>1 DEF IInv, Provenance, documents

\* Held does not grow when documents stay and every wire is as it was, or cut.
LEMMA HeldKept ==
    ASSUME IInv, UNCHANGED documents,
           \A s \in Site : Accepted(s)' \subseteq Accepted(s)
    PROVE  Held' \subseteq Held
<1>1. \A r \in Patient' : applied'[r] \subseteq Held
  BY HeldHas DEF documents, Patient
<1>2. \A s \in Site : Accepted(s)' \subseteq Held
  BY HeldHas
<1> QED  BY <1>1, <1>2, HeldOnly

-----------------------------------------------------------------------------
(***************************************************************************)
(* The process and its connection.                                         *)
(***************************************************************************)
LEMMA StartIInv ==
    ASSUME IInv, NEW s \in Site, Start(s) \/ Refused(s)
    PROVE  IInv'
<1>1. /\ UNCHANGED <<conn, wire, pending, incoming, progress, documents>>
      /\ net' = [net EXCEPT ![s] = "OPENING"] \/ net' = [net EXCEPT ![s] = "LOST"]
      /\ net[s] \in {"OFF", "OPENING"}
  BY DEF Start, Refused
<1>2. VariablesTyped'
  <2>1. count' \in [keys : 0..MaxKeys, starts : 0..MaxStarts]
    <3>1. CASE Start(s)
      <4>1. count \in [keys : 0..MaxKeys, starts : 0..MaxStarts]
        BY DEF IInv, VariablesTyped
      <4>2. count' = [count EXCEPT !.starts = @ + 1] /\ count.starts < MaxStarts
        BY <3>1 DEF Start
      <4> QED  BY <4>1, <4>2, BoundAssumption
    <3>2. CASE Refused(s)
      BY <3>2 DEF Refused, IInv, VariablesTyped
    <3> QED  BY <3>1, <3>2
  <2> QED  BY <1>1, <2>1 DEF IInv, VariablesTyped, documents
<1>3. \A p \in Site : /\ WireOps(p)' = WireOps(p)
                      /\ Accepted(p)' = Accepted(p)
  BY <1>1, AcceptedSame
<1>4. Held' \subseteq Held
  BY <1>1, <1>3, HeldKept
<1>5. DocumentsHaveShape' /\ PatientConvergence' /\ Legal(Held)'
  BY <1>1, <1>4, DocumentsKept
<1>6. OwnIdsAreBehind' /\ Provenance'
  BY <1>1, <1>3, <1>4, IdsKept, ProvenanceKept DEF documents
<1>7. LinksAgree'
  <2> SUFFICES ASSUME NEW p \in Site PROVE LinkAgrees(p)'
    BY DEF LinksAgree
  <2>1. LinkAgrees(p) /\ LinkAgrees(s)
    BY SiteFacts
  <2>2. net'[p] = net[p] \/ (p = s /\ net'[p] \in {"OPENING", "LOST"})
    BY <1>1 DEF IInv, VariablesTyped
  <2> QED  BY <1>1, <2>1, <2>2 DEF LinkAgrees, documents
<1>8. NothingLost'
  <2>1. \A p \in Site : net'[p] = "OPEN" => net[p] = "OPEN"
    BY <1>1 DEF IInv, VariablesTyped
  <2> QED  BY <1>1, <1>3, <2>1 DEF IInv, NothingLost, Patient, documents
<1> QED  BY <1>2, <1>5, <1>6, <1>7, <1>8 DEF IInv

LEMMA OpenIInv ==
    ASSUME IInv, NEW s \in Site, Open(s)
    PROVE  IInv'
<1>1. /\ net[s] = "OPENING" /\ conn[s] = "NONE"
      /\ net' = [net EXCEPT ![s] = "OPEN"]
      /\ conn' = [conn EXCEPT ![s] = "SYNCING"]
      /\ incoming' = [incoming EXCEPT ![s] = applied[Server]]
      /\ progress' = [progress EXCEPT ![s] = "SENT"]
      /\ UNCHANGED <<wire, pending, documents, count>>
  BY DEF Open
<1>2. /\ wire[s] = <<>> /\ pending[s] = {} /\ incoming[s] = {}
      /\ progress[s] = "WAITING"
      /\ s \notin early => applied[s] = {}
  BY <1>1, SiteFacts DEF LinkAgrees
<1>3. VariablesTyped'
  <2>1. applied[Server] \in SUBSET Operation
    BY DEF IInv, VariablesTyped, Replica
  <2> QED  BY <1>1, <2>1 DEF IInv, VariablesTyped, documents
<1>4. \A p \in Site :
         /\ p # s => /\ net'[p] = net[p] /\ conn'[p] = conn[p]
                     /\ incoming'[p] = incoming[p]
                     /\ progress'[p] = progress[p]
         /\ p = s => /\ net'[p] = "OPEN" /\ conn'[p] = "SYNCING"
                     /\ incoming'[p] = applied[Server]
                     /\ progress'[p] = "SENT"
  BY <1>1 DEF IInv, VariablesTyped
<1>5. \A p \in Site : WireOps(p)' = WireOps(p) /\ Accepted(p)' \subseteq Accepted(p)
  <2>1. \A p \in Site : p # s => WireOps(p)' = WireOps(p) /\ Accepted(p)' = Accepted(p)
    BY <1>1, <1>4, AcceptedSame
  <2>2. Accepted(s)' = {} /\ WireOps(s)' = {} /\ WireOps(s) = {}
    BY <1>1, <1>2, AcceptedNothing, NothingElems DEF WireOps
  <2> QED  BY <2>1, <2>2
<1>6. Held' \subseteq Held
  BY <1>1, <1>5, HeldKept
<1>7. DocumentsHaveShape' /\ PatientConvergence' /\ Legal(Held)'
  BY <1>1, <1>6, DocumentsKept
<1>8. Provenance'
  BY <1>1, <1>5, ProvenanceKept
<1>9. ASSUME NEW o \in Inserts(Held), o.id[2] = s
      PROVE  o.id[1] <= clock[s] \/ o \in applied[Server]
  <2>1. IsInsert(o)
    BY DEF Inserts
  <2>2. CASE \E r \in Patient : o \in applied[r]
    <3>1. PICK r \in Patient : o \in applied[r]
      BY <2>2
    <3>2. CASE r = Server
      BY <3>1, <3>2
    <3>3. CASE r \in Site
      <4>1. o \in Inserts(applied[r])
        BY <2>1, <3>1 DEF Inserts
      <4> QED  BY <1>9, <3>3, <4>1 DEF IInv, Provenance
    <3> QED  BY <3>1, <3>2, <3>3 DEF Patient, Replica
  <2>3. CASE \E p \in Site : o \in Accepted(p)
    <3>1. PICK p \in Site : o \in Accepted(p)
      BY <2>3
    <3>2. o \in Inserts(WireOps(p))
      BY <2>1, <3>1 DEF Accepted, Inserts
    <3>3. p = s
      BY <1>9, <3>2 DEF IInv, Provenance
    <3> QED  BY <1>2, <3>2, <3>3, NothingElems DEF WireOps, Inserts
  <2> QED  BY <2>2, <2>3 DEF Held, Inserts
<1>10. OwnIdsAreBehind'
  <2> SUFFICES ASSUME NEW o \in Inserts(Held')
               PROVE  /\ o.id[2] \in Site
                      /\ progress'[o.id[2]] = "LOADED" => o.id[1] <= clock'[o.id[2]]
                      /\ progress'[o.id[2]] \in {"SENT", "READING"} =>
                            o.id[1] <= clock'[o.id[2]] \/ o \in incoming'[o.id[2]]
    BY DEF OwnIdsAreBehind
  <2>1. o \in Inserts(Held)
    BY <1>6, HeldInserts
  <2>2. CASE o.id[2] = s
    BY <1>1, <1>4, <1>9, <2>1, <2>2 DEF documents
  <2>3. CASE o.id[2] # s
    BY <1>1, <1>4, <2>1, <2>3 DEF IInv, OwnIdsAreBehind, documents
  <2> QED  BY <2>2, <2>3
<1>11. LinksAgree'
  <2> SUFFICES ASSUME NEW p \in Site PROVE LinkAgrees(p)'
    BY DEF LinksAgree
  <2>1. LinkAgrees(p)
    BY SiteFacts
  <2>2. SyncComplete \notin Elems(wire[s])
    BY <1>2, NothingElems
  <2> QED  BY <1>1, <1>2, <1>4, <2>1, <2>2 DEF LinkAgrees, documents
<1>12. NothingLost'
  <2> SUFFICES ASSUME NEW p \in Site, p \notin early, net'[p] = "OPEN"
               PROVE  applied[p] \cup incoming'[p] \cup pending[p]
                         = applied[Server] \cup WireOps(p)
    BY <1>1, <1>5 DEF NothingLost, Patient, documents
  <2>1. CASE p = s
    <3>1. WireOps(s) = {}
      BY <1>2, NothingElems DEF WireOps
    <3> QED  BY <1>2, <1>4, <2>1, <3>1
  <2>2. CASE p # s
    BY <1>4, <2>2 DEF IInv, NothingLost, Patient, Replica
  <2> QED  BY <2>1, <2>2
<1> QED  BY <1>3, <1>7, <1>8, <1>10, <1>11, <1>12 DEF IInv

LEMMA ConnectionEndsIInv ==
    ASSUME IInv, NEW s \in Site, ConnectionEnds(s)
    PROVE  IInv'
<1>1. /\ net' = [net EXCEPT ![s] = "LOST"] /\ net[s] = "OPEN"
      /\ UNCHANGED <<conn, pending, incoming, progress, documents, count>>
      /\ CutWire(s)
  BY DEF ConnectionEnds
<1>2. /\ wire' \in [Site -> Seq(Message)]
      /\ \A p \in Site : p # s => wire'[p] = wire[p]
      /\ wire[s] = <<>> => wire'[s] = <<>>
      /\ WireOps(s)' \subseteq WireOps(s)
      /\ Accepted(s)' \subseteq Accepted(s)
  BY <1>1, AcceptedCut
<1>3. \A p \in Site : net'[p] = IF p = s THEN "LOST" ELSE net[p]
  BY <1>1 DEF IInv, VariablesTyped
<1>4. VariablesTyped'
  BY <1>1, <1>2 DEF IInv, VariablesTyped, documents, Message
<1>5. \A p \in Site : /\ WireOps(p)' \subseteq WireOps(p)
                      /\ Accepted(p)' \subseteq Accepted(p)
                      /\ p # s => WireOps(p)' = WireOps(p)
  BY <1>1, <1>2, AcceptedSame
<1>6. Held' \subseteq Held
  BY <1>1, <1>5, HeldKept
<1>7. DocumentsHaveShape' /\ PatientConvergence' /\ Legal(Held)'
  BY <1>1, <1>6, DocumentsKept
<1>8. OwnIdsAreBehind' /\ Provenance'
  BY <1>1, <1>5, <1>6, IdsKept, ProvenanceKept DEF documents
<1>9. LinksAgree'
  <2> SUFFICES ASSUME NEW p \in Site PROVE LinkAgrees(p)'
    BY DEF LinksAgree
  <2>1. LinkAgrees(p)
    BY SiteFacts
  <2> QED  BY <1>1, <1>2, <1>3, <2>1 DEF LinkAgrees, documents
<1>10. NothingLost'
  BY <1>1, <1>3, <1>5 DEF IInv, NothingLost, Patient, documents
<1> QED  BY <1>4, <1>7, <1>8, <1>9, <1>10 DEF IInv

\* A document that is new is the one of no operations.
LEMMA QuitIInv ==
    ASSUME IInv, NEW s \in Site, Quit(s)
    PROVE  IInv'
<1>1. /\ net' = [net EXCEPT ![s] = "OFF"]
      /\ incoming' = [incoming EXCEPT ![s] = {}]
      /\ progress' = [progress EXCEPT ![s] = "WAITING"]
      /\ doc' = [doc EXCEPT ![s] = EmptyDocument]
      /\ applied' = [applied EXCEPT ![s] = {}]
      /\ clock' = [clock EXCEPT ![s] = 0]
      /\ early' = early \ {s}
      /\ UNCHANGED <<conn, pending, count>>
      /\ CutWire(s)
  BY DEF Quit
<1>2. /\ wire' \in [Site -> Seq(Message)]
      /\ \A p \in Site : p # s => wire'[p] = wire[p]
      /\ wire[s] = <<>> => wire'[s] = <<>>
      /\ WireOps(s)' \subseteq WireOps(s)
      /\ Accepted(s)' \subseteq Accepted(s)
  BY <1>1, AcceptedCut
<1>3. \A p \in Site :
         /\ p # s => /\ net'[p] = net[p] /\ incoming'[p] = incoming[p]
                     /\ progress'[p] = progress[p] /\ clock'[p] = clock[p]
         /\ p = s => /\ net'[p] = "OFF" /\ incoming'[p] = {}
                     /\ progress'[p] = "WAITING" /\ clock'[p] = 0
  BY <1>1 DEF IInv, VariablesTyped
<1>4. /\ s \in Replica /\ Server \in Replica /\ Server # s
      /\ \A r \in Replica :
            /\ applied'[r] = IF r = s THEN {} ELSE applied[r]
            /\ doc'[r] = IF r = s THEN EmptyDocument ELSE doc[r]
  BY <1>1, SiteFacts DEF IInv, VariablesTyped, Replica
<1>5. VariablesTyped'
  BY <1>1, <1>2 DEF IInv, VariablesTyped, Message
<1>6. \A p \in Site : /\ WireOps(p)' \subseteq WireOps(p)
                      /\ Accepted(p)' \subseteq Accepted(p)
                      /\ p # s => WireOps(p)' = WireOps(p)
  BY <1>1, <1>2, AcceptedSame
<1>7. Held' \subseteq Held
  <2>1. ASSUME NEW r \in Patient' PROVE applied'[r] \subseteq Held
    <3>1. CASE r = s
      BY <1>4, <3>1
    <3>2. CASE r # s
      <4>1. r \in Patient /\ applied'[r] = applied[r]
        BY <1>1, <1>4, <3>2 DEF Patient
      <4> QED  BY <4>1, HeldHas
    <3> QED  BY <3>1, <3>2
  <2>2. \A p \in Site : Accepted(p)' \subseteq Held
    BY <1>6, HeldHas
  <2> QED  BY <2>1, <2>2, HeldOnly
<1>8. Legal(Held)'
  BY <1>7, LegalSubset DEF IInv
<1>9. DocumentsHaveShape'
  BY <1>4, ShapeOfEmpty DEF IInv, DocumentsHaveShape
<1>10. PatientConvergence'
  <2> SUFFICES ASSUME NEW r \in Replica, r \notin early'
               PROVE  doc'[r] = DocumentOf(applied'[r])
    BY DEF PatientConvergence, Patient
  <2>1. CASE r = s
    BY <1>4, <2>1, EmptyDocumentOf
  <2>2. CASE r # s
    BY <1>1, <1>4, <2>2 DEF IInv, PatientConvergence, Patient
  <2> QED  BY <2>1, <2>2
<1>11. OwnIdsAreBehind'
  <2> SUFFICES ASSUME NEW o \in Inserts(Held')
               PROVE  /\ o.id[2] \in Site
                      /\ progress'[o.id[2]] = "LOADED" => o.id[1] <= clock'[o.id[2]]
                      /\ progress'[o.id[2]] \in {"SENT", "READING"} =>
                            o.id[1] <= clock'[o.id[2]] \/ o \in incoming'[o.id[2]]
    BY DEF OwnIdsAreBehind
  <2>1. o \in Inserts(Held)
    BY <1>7, HeldInserts
  <2> QED  BY <1>3, <2>1 DEF IInv, OwnIdsAreBehind
<1>12. Provenance'
  <2> SUFFICES ASSUME NEW p \in Site
               PROVE  /\ \A o \in Inserts(applied'[p]) :
                            /\ o.id[1] <= clock'[p]
                            /\ o.id[2] = p \/ o \in applied'[Server]
                      /\ \A o \in Inserts(WireOps(p)') : o.id[2] = p
    BY DEF Provenance
  <2>1. \A o \in Inserts(WireOps(p)') : o.id[2] = p
    <3>1. Inserts(WireOps(p)') \subseteq Inserts(WireOps(p))
      BY <1>6, HeldInserts
    <3> QED  BY <3>1 DEF IInv, Provenance
  <2>2. CASE p = s
    BY <1>4, <2>1, <2>2 DEF Inserts
  <2>3. CASE p # s
    <3>1. applied'[p] = applied[p] /\ applied'[Server] = applied[Server]
      BY <1>4, <2>3 DEF Replica
    <3> QED  BY <1>3, <2>1, <2>3, <3>1 DEF IInv, Provenance
  <2> QED  BY <2>2, <2>3
<1>13. LinksAgree'
  <2> SUFFICES ASSUME NEW p \in Site PROVE LinkAgrees(p)'
    BY DEF LinksAgree
  <2>1. LinkAgrees(p) /\ p \in Replica
    BY SiteFacts
  <2>2. CASE p = s
    BY <1>1, <1>2, <1>3, <1>4, <2>1, <2>2 DEF LinkAgrees
  <2>3. CASE p # s
    BY <1>1, <1>2, <1>3, <1>4, <2>1, <2>3 DEF LinkAgrees
  <2> QED  BY <2>2, <2>3
<1>14. NothingLost'
  <2> SUFFICES ASSUME NEW p \in Site, p \notin early', net'[p] = "OPEN"
               PROVE  applied'[p] \cup incoming'[p] \cup pending'[p]
                         = applied'[Server] \cup WireOps(p)'
    BY DEF NothingLost, Patient
  <2>1. p # s /\ p \in Replica /\ p \notin early
    BY <1>1, <1>3 DEF Replica
  <2>2. applied[p] \cup incoming[p] \cup pending[p] = applied[Server] \cup WireOps(p)
    BY <1>3, <2>1 DEF IInv, NothingLost, Patient
  <2> QED  BY <1>1, <1>3, <1>4, <1>6, <2>1, <2>2
<1> QED  BY <1>5, <1>8, <1>9, <1>10, <1>11, <1>12, <1>13, <1>14 DEF IInv

-----------------------------------------------------------------------------
(***************************************************************************)
(* The server.                                                             *)
(***************************************************************************)
LEMMA UnregisterIInv ==
    ASSUME IInv, NEW s \in Site, Unregister(s),
           UNCHANGED <<incoming, progress, documents, count>>
    PROVE  IInv'
<1>1. /\ conn' = [conn EXCEPT ![s] = "NONE"]
      /\ pending' = [pending EXCEPT ![s] = {}]
      /\ wire' = [wire EXCEPT ![s] = <<>>]
      /\ net' = [net EXCEPT ![s] = IF @ = "OPEN" THEN "LOST" ELSE @]
  BY DEF Unregister
<1>2. \A p \in Site :
         /\ p # s => /\ conn'[p] = conn[p] /\ pending'[p] = pending[p]
                     /\ wire'[p] = wire[p] /\ net'[p] = net[p]
         /\ p = s => /\ conn'[p] = "NONE" /\ pending'[p] = {}
                     /\ wire'[p] = <<>>
                     /\ net'[p] = IF net[p] = "OPEN" THEN "LOST" ELSE net[p]
  BY <1>1 DEF IInv, VariablesTyped
<1>3. VariablesTyped'
  BY <1>1 DEF IInv, VariablesTyped, documents
<1>4. \A p \in Site : /\ WireOps(p)' \subseteq WireOps(p)
                      /\ Accepted(p)' \subseteq Accepted(p)
                      /\ p # s => WireOps(p)' = WireOps(p)
  BY <1>2, AcceptedSame, AcceptedNothing
<1>5. Held' \subseteq Held
  BY <1>4, HeldKept
<1>6. DocumentsHaveShape' /\ PatientConvergence' /\ Legal(Held)'
  BY <1>5, DocumentsKept
<1>7. OwnIdsAreBehind' /\ Provenance'
  BY <1>4, <1>5, IdsKept, ProvenanceKept DEF documents
<1>8. LinksAgree'
  <2> SUFFICES ASSUME NEW p \in Site PROVE LinkAgrees(p)'
    BY DEF LinksAgree
  <2>1. LinkAgrees(p)
    BY SiteFacts
  <2> QED  BY <1>2, <2>1 DEF LinkAgrees, documents
<1>9. NothingLost'
  BY <1>2, <1>4 DEF IInv, NothingLost, Patient, documents
<1> QED  BY <1>3, <1>6, <1>7, <1>8, <1>9 DEF IInv

LEMMA FinishSyncIInv ==
    ASSUME IInv, NEW s \in Site, wire[s] # <<>>, Head(wire[s]) = SyncComplete,
           FinishSync(s), UNCHANGED count
    PROVE  IInv'
<1>1. /\ conn[s] = "SYNCING"
      /\ conn' = [conn EXCEPT ![s] = "LIVE"]
      /\ wire' = [wire EXCEPT ![s] = Tail(@)]
      /\ pending' = [pending EXCEPT ![s] = {}]
      /\ incoming' = [incoming EXCEPT ![s] =
                         IF net[s] = "OPEN" THEN @ \cup pending[s] ELSE @]
      /\ UNCHANGED <<net, progress, documents>>
  BY DEF FinishSync
<1>2. /\ Tail(wire[s]) \in Seq(Message)
      /\ Elems(wire[s]) = {SyncComplete} \cup Elems(Tail(wire[s]))
  BY SiteFacts, TailElems
<1>3. \A p \in Site :
         /\ p # s => /\ conn'[p] = conn[p] /\ pending'[p] = pending[p]
                     /\ wire'[p] = wire[p] /\ incoming'[p] = incoming[p]
         /\ p = s => /\ conn'[p] = "LIVE" /\ pending'[p] = {}
                     /\ wire'[p] = Tail(wire[p])
                     /\ incoming'[p] = IF net[p] = "OPEN"
                                       THEN incoming[p] \cup pending[p]
                                       ELSE incoming[p]
  BY <1>1 DEF IInv, VariablesTyped
<1>4. VariablesTyped'
  <2>1. wire' \in [Site -> Seq(Message)]
    BY <1>1, <1>2 DEF IInv, VariablesTyped, Message
  <2>2. incoming' \in [Site -> SUBSET Operation]
    BY <1>1 DEF IInv, VariablesTyped
  <2> QED  BY <1>1, <2>1, <2>2 DEF IInv, VariablesTyped, documents, Message
<1>5. WireOps(s)' = WireOps(s)
  BY <1>2, <1>3 DEF WireOps, IsOperation
<1>6. Accepted(s) = WireOps(s) /\ Accepted(s)' \subseteq WireOps(s)
  BY <1>1, <1>5 DEF Accepted
<1>7. \A p \in Site : /\ WireOps(p)' = WireOps(p)
                      /\ Accepted(p)' \subseteq Accepted(p)
  BY <1>3, <1>5, <1>6, AcceptedSame
<1>8. Held' \subseteq Held
  BY <1>1, <1>7, HeldKept
<1>9. DocumentsHaveShape' /\ PatientConvergence' /\ Legal(Held)'
  BY <1>1, <1>8, DocumentsKept
<1>10. OwnIdsAreBehind' /\ Provenance'
  <2>1. \A p \in Site : incoming[p] \subseteq incoming'[p]
    BY <1>3
  <2> QED  BY <1>1, <1>7, <1>8, <2>1, IdsKept, ProvenanceKept DEF documents
<1>11. LinksAgree'
  <2> SUFFICES ASSUME NEW p \in Site PROVE LinkAgrees(p)'
    BY DEF LinksAgree
  <2>1. LinkAgrees(p)
    BY SiteFacts
  <2>2. CASE p # s
    BY <1>1, <1>3, <2>1, <2>2 DEF LinkAgrees, documents
  <2>3. CASE p = s
    BY <1>1, <1>2, <1>3, <2>1, <2>3 DEF LinkAgrees, documents
  <2> QED  BY <2>2, <2>3
<1>12. NothingLost'
  <2> SUFFICES ASSUME NEW p \in Site, p \notin early, net[p] = "OPEN"
               PROVE  applied[p] \cup incoming'[p] \cup pending'[p]
                         = applied[Server] \cup WireOps(p)
    BY <1>1, <1>7 DEF NothingLost, Patient, documents
  <2>1. applied[p] \cup incoming[p] \cup pending[p] = applied[Server] \cup WireOps(p)
    BY DEF IInv, NothingLost, Patient, Replica
  <2> QED  BY <1>3, <2>1
<1> QED  BY <1>4, <1>9, <1>10, <1>11, <1>12 DEF IInv

-----------------------------------------------------------------------------
\* One operation more in one document: the document stays the function of the
\* operations applied to it where these are legal, and keeps its shape anyway.
LEMMA ApplyKeeps ==
    ASSUME IInv, NEW q \in Replica, NEW op \in Operation,
           applied' = [applied EXCEPT ![q] = @ \cup {op}],
           \/ doc' = [doc EXCEPT ![q] = Apply(@, op)]
           \/ op \in applied[q] /\ doc' = doc,
           Legal(Held'), Patient' \subseteq Patient
    PROVE  /\ applied' \in [Replica -> SUBSET Operation]
           /\ DOMAIN doc' = Replica
           /\ \A r \in Replica :
                 applied'[r] = IF r = q THEN applied[q] \cup {op} ELSE applied[r]
           /\ DocumentsHaveShape'
           /\ PatientConvergence'
<1>1. /\ applied \in [Replica -> SUBSET Operation]
      /\ DOMAIN doc = Replica
  BY DEF IInv, VariablesTyped
<1>2. /\ applied' \in [Replica -> SUBSET Operation]
      /\ DOMAIN doc' = Replica
      /\ \A r \in Replica :
            /\ applied'[r] = IF r = q THEN applied[q] \cup {op} ELSE applied[r]
            /\ r # q => doc'[r] = doc[r]
  BY <1>1
<1>3. doc'[q] = Apply(doc[q], op) \/ (op \in applied[q] /\ doc'[q] = doc[q])
  BY <1>1
<1>4. DocumentsHaveShape'
  <2> SUFFICES ASSUME NEW r \in Replica PROVE HasShape(doc'[r])
    BY DEF DocumentsHaveShape
  <2>1. HasShape(doc[r])
    BY DEF IInv, DocumentsHaveShape
  <2> QED  BY <1>2, <1>3, <2>1, ShapeKept
<1>5. PatientConvergence'
  <2> SUFFICES ASSUME NEW r \in Patient' PROVE doc'[r] = DocumentOf(applied'[r])
    BY DEF PatientConvergence
  <2>1. r \in Replica /\ doc[r] = DocumentOf(applied[r])
    BY DEF IInv, PatientConvergence, Patient
  <2>2. CASE r # q
    BY <1>2, <2>1, <2>2
  <2>3. CASE r = q
    <3>1. applied'[r] \subseteq Held'
      BY DEF Held
    <3>2. Legal(applied[q] \cup {op})
      BY <1>2, <2>3, <3>1, LegalSubset
    <3>3. Apply(DocumentOf(applied[q]), op) = DocumentOf(applied[q] \cup {op})
      BY <3>2, ApplyStep
    <3>4. op \in applied[q] => applied[q] \cup {op} = applied[q]
      OBVIOUS
    <3> QED  BY <1>2, <1>3, <2>1, <2>3, <3>3, <3>4
  <2> QED  BY <2>2, <2>3
<1> QED  BY <1>2, <1>4, <1>5

LEMMA ReceiveOperationIInv ==
    ASSUME IInv, NEW s \in Site, NEW op, wire[s] # <<>>, op = Head(wire[s]),
           IsOperation(op), ReceiveOperation(s, op), UNCHANGED count
    PROVE  IInv'
<1>1. /\ conn[s] = "LIVE"
      /\ wire' = [wire EXCEPT ![s] = Tail(@)]
      /\ applied' = [applied EXCEPT ![Server] = @ \cup {op}]
      /\ doc' = [doc EXCEPT ![Server] = Apply(@, op)]
      /\ pending' = [p \in Site |-> IF p # s /\ conn[p] = "SYNCING"
                                    THEN pending[p] \cup {op} ELSE pending[p]]
      /\ incoming' = [p \in Site |->
                         IF p # s /\ conn[p] = "LIVE" /\ net[p] = "OPEN"
                         THEN incoming[p] \cup {op} ELSE incoming[p]]
      /\ UNCHANGED <<net, conn, progress, clock, early, count>>
  BY DEF ReceiveOperation, Store, Route
<1>2. /\ op \in Message
      /\ Tail(wire[s]) \in Seq(Message)
      /\ Elems(wire[s]) = {op} \cup Elems(Tail(wire[s]))
  BY SiteFacts, TailElems
<1>3. op \in Operation
  BY <1>2 DEF Message, IsOperation
<1>4. \A p \in Site :
         /\ p # s => wire'[p] = wire[p]
         /\ p = s => wire'[p] = Tail(wire[p])
  BY <1>1 DEF IInv, VariablesTyped
<1>5. WireOps(s) = {op} \cup WireOps(s)'
  BY <1>2, <1>4 DEF WireOps
<1>6. Accepted(s) = WireOps(s) /\ Accepted(s)' = WireOps(s)'
  BY <1>1 DEF Accepted
<1>7. \A p \in Site : /\ WireOps(p)' \subseteq WireOps(p)
                      /\ Accepted(p)' \subseteq Accepted(p)
                      /\ p # s => WireOps(p)' = WireOps(p)
  BY <1>1, <1>4, <1>5, <1>6, AcceptedSame
<1>8. Server \in Patient /\ Server \in Replica
  BY SiteFacts DEF Replica
<1>9. Held' \subseteq Held
  <2>1. op \in Held /\ applied[Server] \subseteq Held
    BY <1>5, <1>6, <1>8, HeldHas
  <2>2. ASSUME NEW r \in Patient' PROVE applied'[r] \subseteq Held
    <3>1. r \in Patient /\ r \in Replica
      BY <1>1 DEF Patient
    <3>2. applied'[r] = IF r = Server THEN applied[r] \cup {op} ELSE applied[r]
      BY <1>1, <3>1 DEF IInv, VariablesTyped
    <3> QED  BY <2>1, <3>1, <3>2, HeldHas
  <2>3. \A p \in Site : Accepted(p)' \subseteq Held
    BY <1>7, HeldHas
  <2> QED  BY <2>2, <2>3, HeldOnly
<1>10. Legal(Held')
  BY <1>9, LegalSubset DEF IInv
<1>11. /\ applied' \in [Replica -> SUBSET Operation]
       /\ DOMAIN doc' = Replica
       /\ \A r \in Replica : applied'[r] = IF r = Server
                                           THEN applied[Server] \cup {op}
                                           ELSE applied[r]
       /\ DocumentsHaveShape'
       /\ PatientConvergence'
  BY <1>1, <1>3, <1>8, <1>10, ApplyKeeps DEF Patient
<1>12. /\ applied'[Server] = applied[Server] \cup {op}
       /\ \A p \in Site : applied'[p] = applied[p]
  BY <1>8, <1>11, SiteFacts
<1>13. \A p \in Site :
         /\ pending'[p] = IF p # s /\ conn[p] = "SYNCING"
                          THEN pending[p] \cup {op} ELSE pending[p]
         /\ incoming'[p] = IF p # s /\ conn[p] = "LIVE" /\ net[p] = "OPEN"
                           THEN incoming[p] \cup {op} ELSE incoming[p]
  BY <1>1
<1>14. VariablesTyped'
  <2>1. wire' \in [Site -> Seq(Message)]
    BY <1>1, <1>2 DEF IInv, VariablesTyped, Message
  <2>2. pending' \in [Site -> SUBSET Operation]
    BY <1>1, <1>3 DEF IInv, VariablesTyped
  <2>3. incoming' \in [Site -> SUBSET Operation]
    BY <1>1, <1>3 DEF IInv, VariablesTyped
  <2> QED  BY <1>1, <1>11, <2>1, <2>2, <2>3 DEF IInv, VariablesTyped, Message
<1>15. OwnIdsAreBehind'
  BY <1>1, <1>9, <1>13, IdsKept
<1>16. Provenance'
  <2>1. \A p \in Site : Inserts(WireOps(p)') \subseteq Inserts(WireOps(p))
    BY <1>7, HeldInserts
  <2> QED  BY <1>1, <1>12, <2>1 DEF IInv, Provenance
<1>17. LinksAgree'
  <2> SUFFICES ASSUME NEW p \in Site PROVE LinkAgrees(p)'
    BY DEF LinksAgree
  <2>1. LinkAgrees(p)
    BY SiteFacts
  <2>2. p = s /\ net[p] = "OPEN" => progress[p] = "LOADED"
    BY <1>1, <2>1 DEF LinkAgrees
  <2> QED  BY <1>1, <1>4, <1>12, <1>13, <2>1, <2>2 DEF LinkAgrees
<1>18. NothingLost'
  <2> SUFFICES ASSUME NEW p \in Site, p \notin early, net[p] = "OPEN"
               PROVE  applied[p] \cup incoming'[p] \cup pending'[p]
                         = applied[Server] \cup {op} \cup WireOps(p)'
    BY <1>1, <1>12 DEF NothingLost, Patient
  <2>1. applied[p] \cup incoming[p] \cup pending[p] = applied[Server] \cup WireOps(p)
    BY DEF IInv, NothingLost, Patient, Replica
  <2>2. CASE p = s
    BY <1>5, <1>13, <2>1, <2>2
  <2>3. CASE p # s
    <3>1. conn[p] \in {"SYNCING", "LIVE"}
      BY SiteFacts DEF LinkAgrees, IInv, VariablesTyped
    <3>2. WireOps(p)' = WireOps(p)
      BY <1>7, <2>3
    <3>3. incoming'[p] \cup pending'[p] = incoming[p] \cup pending[p] \cup {op}
      BY <1>13, <2>3, <3>1
    <3> QED  BY <2>1, <3>2, <3>3
  <2> QED  BY <2>2, <2>3
<1> QED  BY <1>10, <1>11, <1>14, <1>15, <1>16, <1>17, <1>18 DEF IInv

-----------------------------------------------------------------------------
(***************************************************************************)
(* The session.                                                            *)
(***************************************************************************)
LEMMA ApplyOnceForm ==
    ASSUME NEW s \in Site, NEW op, ApplyOnce(s, op)
    PROVE  /\ applied' = [applied EXCEPT ![s] = @ \cup {op}]
           /\ \/ doc' = [doc EXCEPT ![s] = Apply(@, op)]
              \/ op \in applied[s] /\ doc' = doc
BY DEF ApplyOnce

\* TakeHistory and TakeOperation.
LEMMA TakeIInv ==
    ASSUME IInv, NEW s \in Site, NEW op, Take(s, op),
           progress[s] # "WAITING",
           \/ progress' = progress
           \/ /\ progress[s] \in {"SENT", "READING"}
              /\ progress' = [progress EXCEPT ![s] = "READING"]
    PROVE  IInv'
<1>1. /\ op \in incoming[s]
      /\ incoming' = [incoming EXCEPT ![s] = @ \ {op}]
      /\ clock' = IF IsInsert(op)
                  THEN [clock EXCEPT ![s] = SyncClock(@, op.id[1])]
                  ELSE clock
      /\ ApplyOnce(s, op)
      /\ UNCHANGED <<net, conn, wire, pending, early, count>>
  BY DEF Take
<1>2. /\ op \in Operation /\ op \in applied[Server]
      /\ s \in Replica /\ s # Server /\ Server \in Patient /\ Server \in Replica
  BY <1>1, SiteFacts DEF Replica
<1>3. op \in Held
  BY <1>2, HeldHas
<1>4. ASSUME NEW p \in Site
      PROVE  incoming'[p] = IF p = s THEN incoming[p] \ {op} ELSE incoming[p]
  BY <1>1 DEF IInv, VariablesTyped
<1>5. ASSUME NEW p \in Site
       PROVE  \/ progress'[p] = progress[p]
              \/ /\ p = s
                 /\ progress'[p] = "READING"
                 /\ progress[p] \in {"SENT", "READING"}
  BY DEF IInv, VariablesTyped
<1>6. IsInsert(op) => op.id[1] <= clock'[s] /\ op.id[1] \in Nat
  <2>1. IsInsert(op) => op.id[1] \in Nat
    BY <1>3, HeldIds DEF Inserts
  <2> QED  BY <1>1, <2>1 DEF IInv, VariablesTyped, SyncClock
<1>7. ASSUME NEW p \in Site
       PROVE  clock[p] \in Nat /\ clock'[p] \in Nat /\ clock[p] <= clock'[p]
  <2>1. clock \in [Site -> Nat]
    BY DEF IInv, VariablesTyped
  <2>2. CASE IsInsert(op)
    BY <1>1, <1>6, <2>1, <2>2 DEF SyncClock
  <2>3. CASE ~IsInsert(op)
    BY <1>1, <2>1, <2>3
  <2> QED  BY <2>2, <2>3
<1>8. \A p \in Site : WireOps(p)' = WireOps(p) /\ Accepted(p)' = Accepted(p)
  BY <1>1, AcceptedSame
<1>9. Held' \subseteq Held
  <2>1. ASSUME NEW r \in Patient' PROVE applied'[r] \subseteq Held
    <3>1. r \in Patient /\ r \in Replica
      BY <1>1 DEF Patient
    <3>2. applied'[r] \subseteq applied[r] \cup {op}
      BY <1>1, <3>1 DEF ApplyOnce, IInv, VariablesTyped
    <3> QED  BY <1>3, <3>1, <3>2, HeldHas
  <2>2. \A p \in Site : Accepted(p)' \subseteq Held
    BY <1>8, HeldHas
  <2> QED  BY <2>1, <2>2, HeldOnly
<1>10. Legal(Held')
  BY <1>9, LegalSubset DEF IInv
<1>11. /\ applied' \in [Replica -> SUBSET Operation]
       /\ DOMAIN doc' = Replica
       /\ \A r \in Replica :
             applied'[r] = IF r = s THEN applied[s] \cup {op} ELSE applied[r]
       /\ DocumentsHaveShape'
       /\ PatientConvergence'
  BY <1>1, <1>2, <1>10, ApplyOnceForm, ApplyKeeps DEF Patient
<1>12. VariablesTyped'
  <2>1. incoming' \in [Site -> SUBSET Operation]
    BY <1>1 DEF IInv, VariablesTyped
  <2>2. clock' \in [Site -> Nat]
    BY <1>1, <1>6 DEF IInv, VariablesTyped, SyncClock
  <2>3. progress' \in [Site -> {"WAITING", "SENT", "READING", "LOADED"}]
    <3>1. progress \in [Site -> {"WAITING", "SENT", "READING", "LOADED"}]
      BY DEF IInv, VariablesTyped
    <3>2. progress' \in {progress, [progress EXCEPT ![s] = "READING"]}
      OBVIOUS
    <3> QED  BY ONLY <3>1, <3>2
  <2>4. applied' \in [Replica -> SUBSET Operation] /\ DOMAIN doc' = Replica
    BY <1>11
  <2>5. /\ net' = net /\ conn' = conn /\ wire' = wire
        /\ pending' = pending /\ early' = early /\ count' = count
    BY <1>1
  <2>6. VariablesTyped
    BY DEF IInv
  <2> QED  BY ONLY <2>1, <2>2, <2>3, <2>4, <2>5, <2>6 DEF VariablesTyped
<1>13. OwnIdsAreBehind'
  <2> SUFFICES ASSUME NEW o \in Inserts(Held')
               PROVE  /\ o.id[2] \in Site
                      /\ progress'[o.id[2]] = "LOADED" => o.id[1] <= clock'[o.id[2]]
                      /\ progress'[o.id[2]] \in {"SENT", "READING"} =>
                            o.id[1] <= clock'[o.id[2]] \/ o \in incoming'[o.id[2]]
    BY DEF OwnIdsAreBehind
  <2>1. o \in Inserts(Held) /\ IsInsert(o)
    BY <1>9, HeldInserts DEF Inserts
  <2>2. o.id[2] \in Site /\ o.id[1] \in Nat
    BY <2>1, HeldIds
  <2>3. CASE o = op /\ o.id[2] = s
    BY <1>6, <2>1, <2>2, <2>3
  <2>4. CASE o # op \/ o.id[2] # s
    <3> DEFINE t == o.id[2]
    <3>1. /\ progress[t] = "LOADED" => o.id[1] <= clock[t]
          /\ progress[t] \in {"SENT", "READING"} =>
                o.id[1] <= clock[t] \/ o \in incoming[t]
      BY <2>1 DEF IInv, OwnIdsAreBehind
    <3>2. o \in incoming[t] => o \in incoming'[t]
      BY <1>4, <2>2, <2>4
    <3>3. o.id[1] <= clock[t] => o.id[1] <= clock'[t]
      BY <1>7, <2>2
    <3>4. progress'[t] = progress[t] \/ ( /\ progress'[t] = "READING"
                                          /\ progress[t] \in {"SENT", "READING"})
      BY <1>5, <2>2
    <3> HIDE DEF t
    <3>5. /\ progress'[t] = "LOADED" => o.id[1] <= clock'[t]
          /\ progress'[t] \in {"SENT", "READING"} =>
                o.id[1] <= clock'[t] \/ o \in incoming'[t]
      BY <3>1, <3>2, <3>3, <3>4
    <3> QED  BY <2>2, <3>5 DEF t
  <2> QED  BY <2>3, <2>4
<1>14. Provenance'
  <2> SUFFICES ASSUME NEW p \in Site
               PROVE  /\ \A o \in Inserts(applied'[p]) :
                            /\ o.id[1] <= clock'[p]
                            /\ o.id[2] = p \/ o \in applied'[Server]
                      /\ \A o \in Inserts(WireOps(p)') : o.id[2] = p
    BY DEF Provenance
  <2>1. \A o \in Inserts(WireOps(p)') : o.id[2] = p
    BY <1>8 DEF IInv, Provenance
  <2>2. p \in Replica /\ applied'[Server] = applied[Server]
    BY <1>2, <1>11 DEF Replica
  <2>3. ASSUME NEW o \in Inserts(applied'[p])
        PROVE  o.id[1] <= clock'[p] /\ (o.id[2] = p \/ o \in applied[Server])
    <3>1. CASE o = op /\ p = s
      BY <1>2, <1>6, <2>3, <3>1 DEF Inserts
    <3>2. CASE o \in Inserts(applied[p])
      <4>1. o.id[1] <= clock[p] /\ (o.id[2] = p \/ o \in applied[Server])
        BY <3>2 DEF IInv, Provenance
      <4>2. o.id[1] \in Nat
        <5>1. applied[p] \subseteq Operation
          BY <2>2 DEF IInv, VariablesTyped
        <5>2. o.id \in ElementID
          BY <3>2, <5>1, OperationFields DEF ElementID
        <5> QED  BY <5>2, IdParts
      <4> QED  BY <1>7, <4>1, <4>2
    <3>3. o \in applied[p] \/ (o = op /\ p = s)
      BY <1>11, <2>2 DEF Inserts
    <3> QED  BY <3>1, <3>2, <3>3 DEF Inserts
  <2> QED  BY <2>1, <2>2, <2>3
<1>15. LinksAgree'
  <2> SUFFICES ASSUME NEW p \in Site PROVE LinkAgrees(p)'
    BY DEF LinksAgree
  <2>1. LinkAgrees(p)
    BY SiteFacts
  <2>2. applied'[Server] = applied[Server] /\ (p # s => applied'[p] = applied[p])
    BY <1>2, <1>11 DEF Replica
  <2>3. progress'[p] = "WAITING" <=> progress[p] = "WAITING"
    BY <1>5
  <2>4. progress'[p] = "LOADED" <=> progress[p] = "LOADED"
    BY <1>5
  <2>5. p = s => progress[p] # "WAITING"
    OBVIOUS
  <2>6. incoming'[p] \subseteq incoming[p]
    BY <1>4
  <2> QED  BY <1>1, <2>1, <2>2, <2>3, <2>4, <2>5, <2>6 DEF LinkAgrees
<1>16. NothingLost'
  <2> SUFFICES ASSUME NEW p \in Site, p \notin early, net[p] = "OPEN"
               PROVE  applied'[p] \cup incoming'[p] \cup pending[p]
                         = applied'[Server] \cup WireOps(p)
    BY <1>1, <1>8 DEF NothingLost, Patient
  <2>1. /\ p \in Replica /\ applied'[Server] = applied[Server]
        /\ applied[p] \cup incoming[p] \cup pending[p] = applied[Server] \cup WireOps(p)
    BY <1>2, <1>11 DEF IInv, NothingLost, Patient, Replica
  <2> QED  BY <1>1, <1>4, <1>11, <2>1
<1> QED  BY <1>10, <1>11, <1>12, <1>13, <1>14, <1>15, <1>16 DEF IInv

LEMMA FinishHistoryIInv ==
    ASSUME IInv, NEW s \in Site, FinishHistory(s)
    PROVE  IInv'
<1>1. /\ progress[s] \in {"SENT", "READING"}
      /\ incoming[s] = {}
      /\ progress' = [progress EXCEPT ![s] = "LOADED"]
      /\ wire' = IF net[s] = "OPEN"
                 THEN [wire EXCEPT ![s] = Append(@, SyncComplete)]
                 ELSE wire
      /\ UNCHANGED <<net, conn, pending, incoming, documents, count>>
  BY DEF FinishHistory
<1> DEFINE longer == Append(wire[s], SyncComplete)
<1>2. /\ longer \in Seq(Message)
      /\ Elems(longer) = Elems(wire[s]) \cup {SyncComplete}
      /\ wire[s] # <<>> => Head(longer) = Head(wire[s])
  BY SiteFacts, AppendElems DEF Message
<1>3. /\ \A p \in Site : /\ p # s => progress'[p] = progress[p]
                         /\ p = s => progress'[p] = "LOADED"
                         /\ p # s \/ net[s] # "OPEN" => wire'[p] = wire[p]
      /\ net[s] = "OPEN" => wire'[s] = longer
  BY <1>1 DEF IInv, VariablesTyped
<1> HIDE DEF longer
<1>4. VariablesTyped'
  <2>1. wire' \in [Site -> Seq(Message)]
    <3>1. wire \in [Site -> Seq(Message)]
      BY DEF IInv, VariablesTyped, Message
    <3> QED  BY <1>1, <1>2, <3>1 DEF longer
  <2> QED  BY <1>1, <2>1 DEF IInv, VariablesTyped, documents, Message
<1>5. net[s] = "OPEN" => /\ conn[s] = "SYNCING"
                         /\ SyncComplete \notin Elems(wire[s])
  BY <1>1, SiteFacts DEF LinkAgrees
<1>6. WireOps(s)' = WireOps(s) /\ Accepted(s)' \subseteq WireOps(s)
  <2>1. WireOps(s)' = WireOps(s)
    BY <1>2, <1>3 DEF WireOps, IsOperation
  <2> QED  BY <2>1 DEF Accepted
<1>7. Accepted(s)' \subseteq Accepted(s)
  <2>1. CASE net[s] # "OPEN"
    BY <1>1, <1>3, <2>1, AcceptedSame
  <2>2. CASE net[s] = "OPEN" /\ wire[s] = <<>>
    <3>1. WireOps(s) = {}
      BY <2>2, NothingElems DEF WireOps
    <3> QED  BY <1>6, <3>1
  <2>3. CASE net[s] = "OPEN" /\ wire[s] # <<>>
    <3>1. Head(wire[s]) \in Elems(wire[s])
      BY <2>3, SiteFacts, TailElems
    <3>2. Head(wire'[s]) # SyncComplete /\ conn'[s] = "SYNCING"
      BY <1>1, <1>2, <1>3, <1>5, <2>3, <3>1
    <3> QED  BY <3>2 DEF Accepted
  <2> QED  BY <2>1, <2>2, <2>3
<1>8. \A p \in Site : /\ WireOps(p)' = WireOps(p)
                      /\ Accepted(p)' \subseteq Accepted(p)
  BY <1>1, <1>3, <1>6, <1>7, AcceptedSame
<1>9. Held' \subseteq Held
  BY <1>1, <1>8, HeldKept
<1>10. DocumentsHaveShape' /\ PatientConvergence' /\ Legal(Held)'
  BY <1>1, <1>9, DocumentsKept
<1>11. OwnIdsAreBehind'
  <2> SUFFICES ASSUME NEW o \in Inserts(Held')
               PROVE  /\ o.id[2] \in Site
                      /\ progress'[o.id[2]] = "LOADED" => o.id[1] <= clock'[o.id[2]]
                      /\ progress'[o.id[2]] \in {"SENT", "READING"} =>
                            o.id[1] <= clock'[o.id[2]] \/ o \in incoming'[o.id[2]]
    BY DEF OwnIdsAreBehind
  <2>1. o \in Inserts(Held)
    BY <1>9, HeldInserts
  <2>2. CASE o.id[2] = s
    BY <1>1, <1>3, <2>1, <2>2 DEF IInv, OwnIdsAreBehind, documents
  <2>3. CASE o.id[2] # s
    BY <1>1, <1>3, <2>1, <2>3 DEF IInv, OwnIdsAreBehind, documents
  <2> QED  BY <2>2, <2>3
<1>12. Provenance'
  BY <1>1, <1>8, ProvenanceKept
<1>13. LinksAgree'
  <2> SUFFICES ASSUME NEW p \in Site PROVE LinkAgrees(p)'
    BY DEF LinksAgree
  <2>1. LinkAgrees(p)
    BY SiteFacts
  <2> QED  BY <1>1, <1>3, <1>5, <2>1 DEF LinkAgrees, documents
<1>14. NothingLost'
  BY <1>1, <1>8 DEF IInv, NothingLost, Patient, documents
<1> QED  BY <1>4, <1>10, <1>11, <1>12, <1>13, <1>14 DEF IInv

-----------------------------------------------------------------------------
(***************************************************************************)
(* A key.  Behind the history the clock has passed every identifier of the *)
(* site that anyone holds, so the next one is new.  In front of it the     *)
(* session is early, and the server takes nothing from its wire.           *)
(***************************************************************************)
LEMMA IssueIInv ==
    ASSUME IInv, NEW s \in Site, NEW op \in Operation, Issue(s, op),
           \/ ~IsInsert(op) /\ clock' = clock
           \/ /\ IsInsert(op)
              /\ op.id = <<clock[s] + 1, s>>
              /\ clock' = [clock EXCEPT ![s] = @ + 1]
    PROVE  IInv'
<1>1. /\ count.keys < MaxKeys
      /\ count' = [count EXCEPT !.keys = @ + 1]
      /\ net[s] # "OFF"
      /\ ApplyOnce(s, op)
      /\ wire' = IF net[s] = "OPEN"
                 THEN [wire EXCEPT ![s] = Append(@, op)]
                 ELSE wire
      /\ early' = IF progress[s] = "LOADED" THEN early ELSE early \cup {s}
      /\ UNCHANGED <<net, conn, pending, incoming, progress>>
  BY DEF Issue
<1>2. s \in Replica /\ s # Server /\ Server \in Patient /\ Server \in Replica
  BY SiteFacts DEF Replica
<1>3. /\ clock' \in [Site -> Nat]
      /\ \A p \in Site :
            clock[p] \in Nat /\ clock'[p] \in Nat /\ clock[p] <= clock'[p]
  <2>1. clock \in [Site -> Nat]
    BY DEF IInv, VariablesTyped
  <2>2. clock' = clock \/ clock' = [clock EXCEPT ![s] = @ + 1]
    OBVIOUS
  <2> QED  BY <2>1, <2>2
<1>4. IsInsert(op) => /\ op.id[2] = s
                      /\ op.id[1] = clock[s] + 1
                      /\ op.id[1] = clock'[s]
  BY DEF IInv, VariablesTyped
<1>5. op # SyncComplete /\ IsOperation(op)
  BY MessageKinds
<1> DEFINE longer == Append(wire[s], op)
<1>6. /\ longer \in Seq(Message)
      /\ Elems(longer) = Elems(wire[s]) \cup {op}
      /\ wire[s] # <<>> => Head(longer) = Head(wire[s])
      /\ wire[s] = <<>> => Head(longer) = op
  BY SiteFacts, AppendElems DEF Message
<1>7. /\ \A p \in Site : p # s \/ net[s] # "OPEN" => wire'[p] = wire[p]
      /\ net[s] = "OPEN" => wire'[s] = longer
      /\ wire' \in [Site -> Seq(Message)]
  <2>1. wire \in [Site -> Seq(Message)]
    BY DEF IInv, VariablesTyped, Message
  <2> QED  BY <1>1, <1>6, <2>1
<1> HIDE DEF longer
<1>8. /\ net[s] = "OPEN" => WireOps(s)' = WireOps(s) \cup {op}
      /\ \A p \in Site : p # s \/ net[s] # "OPEN" =>
            WireOps(p)' = WireOps(p) /\ Accepted(p)' = Accepted(p)
  <2>1. net[s] = "OPEN" => WireOps(s)' = WireOps(s) \cup {op}
    BY <1>5, <1>6, <1>7 DEF WireOps
  <2>2. \A p \in Site : p # s \/ net[s] # "OPEN" =>
            WireOps(p)' = WireOps(p) /\ Accepted(p)' = Accepted(p)
    BY <1>1, <1>7, AcceptedSame
  <2> QED  BY <2>1, <2>2
<1>9. /\ \A p \in Site : Accepted(p)' \subseteq Accepted(p) \cup {op}
      /\ progress[s] # "LOADED" =>
            \A p \in Site : Accepted(p)' \subseteq Accepted(p)
  <2>1. CASE net[s] # "OPEN"
    BY <1>8, <2>1
  <2>2. CASE net[s] = "OPEN"
    <3>1. CASE conn[s] = "LIVE"
      <4>1. progress[s] = "LOADED"
        BY <2>2, <3>1, SiteFacts DEF LinkAgrees
      <4>2. Accepted(s) = WireOps(s) /\ Accepted(s)' = WireOps(s) \cup {op}
        BY <1>1, <1>8, <2>2, <3>1 DEF Accepted
      <4> QED  BY <1>8, <4>1, <4>2
    <3>2. CASE conn[s] # "LIVE" /\ wire[s] = <<>>
      <4>1. Accepted(s)' = {}
        BY <1>1, <1>5, <1>6, <1>7, <2>2, <3>2 DEF Accepted
      <4> QED  BY <1>8, <4>1
    <3>3. CASE conn[s] # "LIVE" /\ wire[s] # <<>>
      <4>1. Accepted(s)' = IF conn[s] = "SYNCING" /\ Head(wire[s]) = SyncComplete
                           THEN WireOps(s) \cup {op} ELSE {}
        <5>1. longer # <<>>
          BY <1>6, NothingElems
        <5> QED  BY <1>1, <1>6, <1>7, <1>8, <2>2, <3>3, <5>1 DEF Accepted
      <4>2. Accepted(s) = IF conn[s] = "SYNCING" /\ Head(wire[s]) = SyncComplete
                          THEN WireOps(s) ELSE {}
        BY <3>3 DEF Accepted
      <4>3. progress[s] # "LOADED" => Head(wire[s]) # SyncComplete
        <5>1. Head(wire[s]) \in Elems(wire[s])
          BY <3>3, SiteFacts, TailElems
        <5> QED  BY <2>2, <5>1, SiteFacts DEF LinkAgrees
      <4> QED  BY <1>8, <4>1, <4>2, <4>3
    <3> QED  BY <3>1, <3>2, <3>3
  <2> QED  BY <2>1, <2>2
<1>10. /\ Held' \subseteq Held \cup {op}
       /\ progress[s] # "LOADED" => Held' \subseteq Held
  <2>1. ASSUME NEW r \in Patient'
        PROVE  /\ applied'[r] \subseteq Held \cup {op}
               /\ progress[s] # "LOADED" => applied'[r] \subseteq Held
    <3>1. r \in Patient /\ r \in Replica /\ (progress[s] # "LOADED" => r # s)
      BY <1>1 DEF Patient
    <3>2. applied'[r] = IF r = s THEN applied[r] \cup {op} ELSE applied[r]
      BY <1>1, <3>1 DEF ApplyOnce, IInv, VariablesTyped
    <3> QED  BY <3>1, <3>2, HeldHas
  <2>2. Held' \subseteq Held \cup {op}
    <3>1. \A p \in Site : Accepted(p)' \subseteq Held \cup {op}
      BY <1>9, HeldHas
    <3> QED  BY <2>1, <3>1, HeldOnly
  <2>3. progress[s] # "LOADED" => Held' \subseteq Held
    <3> SUFFICES ASSUME progress[s] # "LOADED" PROVE Held' \subseteq Held
      OBVIOUS
    <3>1. \A p \in Site : Accepted(p)' \subseteq Held
      BY <1>9, HeldHas
    <3> QED  BY <2>1, <3>1, HeldOnly
  <2> QED  BY <2>2, <2>3
<1>11. Legal(Held')
  <2>1. CASE progress[s] # "LOADED"
    BY <1>10, <2>1, LegalSubset DEF IInv
  <2>2. CASE progress[s] = "LOADED"
    <3>1. Held \subseteq Operation /\ IsFiniteSet(Held)
          /\ \A o, p \in Inserts(Held) : o.id = p.id => o = p
      BY DEF IInv, Legal
    <3>2. ASSUME IsInsert(op), NEW o \in Inserts(Held), o.id = op.id
          PROVE  FALSE
      <4>1. o.id[1] <= clock[s]
        BY <1>4, <2>2, <3>2 DEF IInv, OwnIdsAreBehind
      <4> QED  BY <1>3, <1>4, <3>2, <4>1
    <3>3. ASSUME NEW o \in Inserts(Held \cup {op}),
                 NEW p \in Inserts(Held \cup {op}), o.id = p.id
          PROVE  o = p
      BY <3>1, <3>2, <3>3 DEF Inserts
    <3>4. IsFiniteSet(Held \cup {op})
      BY <3>1, FS_AddElement
    <3>5. Legal(Held \cup {op})
      BY <3>1, <3>3, <3>4 DEF Legal
    <3> QED  BY <1>10, <3>5, LegalSubset
  <2> QED  BY <2>1, <2>2
<1>12. /\ applied' \in [Replica -> SUBSET Operation]
       /\ DOMAIN doc' = Replica
       /\ \A r \in Replica :
             applied'[r] = IF r = s THEN applied[s] \cup {op} ELSE applied[r]
       /\ DocumentsHaveShape'
       /\ PatientConvergence'
  <2>1. Patient' \subseteq Patient
    BY <1>1 DEF Patient
  <2> QED  BY <1>1, <1>2, <1>11, <2>1, ApplyOnceForm, ApplyKeeps
<1>13. /\ applied'[Server] = applied[Server]
       /\ \A p \in Site :
             /\ p \in Replica
             /\ applied'[p] = IF p = s THEN applied[p] \cup {op} ELSE applied[p]
  BY <1>2, <1>12 DEF Replica
<1>14. VariablesTyped'
  <2>1. count' \in [keys : 0..MaxKeys, starts : 0..MaxStarts]
    <3>1. count \in [keys : 0..MaxKeys, starts : 0..MaxStarts]
      BY DEF IInv, VariablesTyped
    <3> QED  BY <1>1, <3>1, BoundAssumption
  <2>2. early' \subseteq Site
    BY <1>1 DEF IInv, VariablesTyped
  <2> QED  BY <1>1, <1>3, <1>7, <1>12, <2>1, <2>2 DEF IInv, VariablesTyped, Message
<1>15. OwnIdsAreBehind'
  <2> SUFFICES ASSUME NEW o \in Inserts(Held')
               PROVE  /\ o.id[2] \in Site
                      /\ progress[o.id[2]] = "LOADED" => o.id[1] <= clock'[o.id[2]]
                      /\ progress[o.id[2]] \in {"SENT", "READING"} =>
                            o.id[1] <= clock'[o.id[2]] \/ o \in incoming[o.id[2]]
    BY <1>1 DEF OwnIdsAreBehind
  <2>1. IsInsert(o) /\ o \in Held'
    BY DEF Inserts
  <2>2. CASE o \in Held
    <3> DEFINE t == o.id[2]
    <3>1. o \in Inserts(Held)
      BY <2>1, <2>2 DEF Inserts
    <3>2. t \in Site /\ o.id[1] \in Nat
      BY <3>1, HeldIds
    <3>3. /\ progress[t] = "LOADED" => o.id[1] <= clock[t]
          /\ progress[t] \in {"SENT", "READING"} =>
                o.id[1] <= clock[t] \/ o \in incoming[t]
      BY <3>1 DEF IInv, OwnIdsAreBehind
    <3>4. o.id[1] <= clock[t] => o.id[1] <= clock'[t]
      BY <1>3, <3>2
    <3> HIDE DEF t
    <3>5. /\ progress[t] = "LOADED" => o.id[1] <= clock'[t]
          /\ progress[t] \in {"SENT", "READING"} =>
                o.id[1] <= clock'[t] \/ o \in incoming[t]
      BY <3>3, <3>4
    <3> QED  BY <3>2, <3>5 DEF t
  <2>3. CASE o \notin Held
    <3>1. o = op /\ progress[s] = "LOADED"
      BY <1>10, <2>1, <2>3
    <3>2. o.id[2] = s /\ o.id[1] = clock'[s]
      BY <1>4, <2>1, <3>1
    <3> QED  BY <1>3, <3>1, <3>2
  <2> QED  BY <2>2, <2>3
<1>16. Provenance'
  <2> SUFFICES ASSUME NEW p \in Site
               PROVE  /\ \A o \in Inserts(applied'[p]) :
                            /\ o.id[1] <= clock'[p]
                            /\ o.id[2] = p \/ o \in applied[Server]
                      /\ \A o \in Inserts(WireOps(p)') : o.id[2] = p
    BY <1>13 DEF Provenance
  <2>1. ASSUME NEW o \in Inserts(WireOps(p)') PROVE o.id[2] = p
    <3>1. IsInsert(o) /\ o \in WireOps(p)'
      BY DEF Inserts
    <3>2. CASE o \in WireOps(p)
      BY <3>1, <3>2 DEF IInv, Provenance, Inserts
    <3>3. CASE o \notin WireOps(p)
      BY <1>4, <1>8, <3>1, <3>3
    <3> QED  BY <3>2, <3>3
  <2>2. ASSUME NEW o \in Inserts(applied'[p])
        PROVE  o.id[1] <= clock'[p] /\ (o.id[2] = p \/ o \in applied[Server])
    <3>1. IsInsert(o) /\ (o \in applied[p] \/ (o = op /\ p = s))
      BY <1>13, <2>2 DEF Inserts
    <3>2. CASE o \in applied[p]
      <4>1. o.id[1] <= clock[p] /\ (o.id[2] = p \/ o \in applied[Server])
        BY <3>1, <3>2 DEF IInv, Provenance, Inserts
      <4>2. o.id[1] \in Nat
        <5>1. applied[p] \subseteq Operation
          BY <1>13 DEF IInv, VariablesTyped
        <5>2. o.id \in ElementID
          BY <3>1, <3>2, <5>1, OperationFields DEF ElementID, Inserts
        <5> QED  BY <5>2, IdParts
      <4> QED  BY <1>3, <4>1, <4>2
    <3>3. CASE o = op /\ p = s
      BY <1>3, <1>4, <3>1, <3>3
    <3> QED  BY <3>1, <3>2, <3>3
  <2> QED  BY <2>1, <2>2
<1>17. LinksAgree'
  <2> SUFFICES ASSUME NEW p \in Site PROVE LinkAgrees(p)'
    BY DEF LinksAgree
  <2>1. LinkAgrees(p)
    BY SiteFacts
  <2>2. CASE p # s
    BY <1>1, <1>7, <1>13, <2>1, <2>2 DEF LinkAgrees
  <2>3. CASE p = s /\ net[s] # "OPEN"
    BY <1>1, <1>7, <1>13, <2>1, <2>3 DEF LinkAgrees
  <2>4. CASE p = s /\ net[s] = "OPEN"
    <3>1. SyncComplete \in Elems(wire'[s]) => SyncComplete \in Elems(wire[s])
      BY <1>5, <1>6, <1>7, <2>4
    <3> QED  BY <1>1, <1>13, <2>1, <2>4, <3>1 DEF LinkAgrees
  <2> QED  BY <2>2, <2>3, <2>4
<1>18. NothingLost'
  <2> SUFFICES ASSUME NEW p \in Site, p \notin early', net[p] = "OPEN"
               PROVE  applied'[p] \cup incoming[p] \cup pending[p]
                         = applied[Server] \cup WireOps(p)'
    BY <1>1, <1>13 DEF NothingLost, Patient
  <2>1. p \notin early
    BY <1>1
  <2>2. applied[p] \cup incoming[p] \cup pending[p] = applied[Server] \cup WireOps(p)
    BY <2>1 DEF IInv, NothingLost, Patient, Replica
  <2>3. CASE p = s
    BY <1>8, <1>13, <2>2, <2>3
  <2>4. CASE p # s
    BY <1>8, <1>13, <2>2, <2>4
  <2> QED  BY <2>3, <2>4
<1> QED  BY <1>11, <1>12, <1>14, <1>15, <1>16, <1>17, <1>18 DEF IInv

LEMMA TypeCharacterIInv ==
    ASSUME IInv, NEW s \in Site, NEW anchor \in Anchors(doc[s]),
           NEW c \in Char, TypeCharacter(s, anchor, c)
    PROVE  IInv'
<1> DEFINE op == [type |-> "INSERT", parent |-> anchor,
                  id |-> NextID(clock[s], s), char |-> c]
<1>1. anchor \in ElementID
  BY SiteFacts DEF IInv, DocumentsHaveShape, HasShape, Anchors, ElementID
<1>2. clock[s] \in Nat
  BY SiteFacts
<1>3. op.id = <<clock[s] + 1, s>> /\ op.id \in GeneratedID
  BY <1>2 DEF NextID, GeneratedID
<1>4. op \in Operation
  BY <1>1, <1>3 DEF Operation, InsertOperation
<1>5. IsInsert(op)
  BY DEF IsInsert
<1>6. Issue(s, op) /\ clock' = [clock EXCEPT ![s] = @ + 1]
  BY DEF TypeCharacter
<1> HIDE DEF op
<1> QED  BY <1>3, <1>4, <1>5, <1>6, IssueIInv

LEMMA RemoveElementIInv ==
    ASSUME IInv, NEW s \in Site, NEW target \in Anchors(doc[s]),
           RemoveElement(s, target)
    PROVE  IInv'
<1> DEFINE op == [type |-> "REMOVE", target |-> target]
<1>1. target \in ElementID
  BY SiteFacts DEF IInv, DocumentsHaveShape, HasShape, Anchors, ElementID
<1>2. op \in Operation /\ ~IsInsert(op)
  BY <1>1 DEF Operation, RemoveOperation, IsInsert
<1>3. Issue(s, op) /\ clock' = clock
  BY DEF RemoveElement
<1> HIDE DEF op
<1> QED  BY <1>2, <1>3, IssueIInv

-----------------------------------------------------------------------------
(***************************************************************************)
(* The specification.                                                      *)
(***************************************************************************)
LEMMA InitIInv ==
    Init => IInv
<1> SUFFICES ASSUME Init PROVE IInv
  OBVIOUS
<1>1. \A s \in Site : WireOps(s) = {} /\ Accepted(s) = {}
  BY NothingElems DEF Init, WireOps, Accepted
<1>2. Held = {}
  BY <1>1 DEF Held, Init, Patient, Replica
<1>3. VariablesTyped
  BY BoundAssumption DEF Init, VariablesTyped
<1>4. DocumentsHaveShape /\ PatientConvergence
  BY ShapeOfEmpty, EmptyDocumentOf
     DEF Init, DocumentsHaveShape, PatientConvergence, Patient
<1>5. Legal(Held)
  BY <1>2, FS_EmptySet DEF Legal, Inserts
<1>6. OwnIdsAreBehind /\ Provenance
  BY <1>1, <1>2 DEF Init, OwnIdsAreBehind, Provenance, Inserts, Replica
<1>7. LinksAgree /\ NothingLost
  BY DEF Init, LinksAgree, LinkAgrees, NothingLost, Replica
<1> QED  BY <1>3, <1>4, <1>5, <1>6, <1>7 DEF IInv

LEMMA StepIInv ==
    ASSUME IInv, [Next]_vars
    PROVE  IInv'
<1>1. ASSUME NEW s \in Site, Process(s)
      PROVE  IInv'
  BY <1>1, StartIInv, OpenIInv, ConnectionEndsIInv, QuitIInv DEF Process
<1>2. ASSUME NEW s \in Site, Serve(s)
      PROVE  IInv'
  <2>1. CASE ServerReadsEnd(s)
    BY <2>1, UnregisterIInv DEF ServerReadsEnd
  <2>2. CASE ServerReads(s)
    <3> DEFINE m == Head(wire[s])
    <3>1. wire[s] # <<>> /\ UNCHANGED count
      BY <2>2 DEF ServerReads
    <3>2. CASE IsOperation(m) /\ ReceiveOperation(s, m)
      BY <3>1, <3>2, ReceiveOperationIInv
    <3>3. CASE IsOperation(m) /\ Reject(s)
      BY <3>1, <3>3, UnregisterIInv DEF Reject
    <3>4. CASE m = SyncComplete /\ FinishSync(s)
      BY <3>1, <3>4, FinishSyncIInv
    <3> QED  BY <2>2, <3>2, <3>3, <3>4 DEF ServerReads
  <2> QED  BY <1>2, <2>1, <2>2 DEF Serve
<1>3. ASSUME NEW s \in Site, Session(s)
      PROVE  IInv'
  <2>1. ASSUME NEW op \in incoming[s], TakeHistory(s, op)
        PROVE  IInv'
    BY <2>1, TakeIInv DEF TakeHistory
  <2>2. ASSUME NEW op \in incoming[s], TakeOperation(s, op)
        PROVE  IInv'
    BY <2>2, TakeIInv DEF TakeOperation
  <2> QED  BY <1>3, <2>1, <2>2, FinishHistoryIInv, TypeCharacterIInv,
              RemoveElementIInv DEF Session
<1>4. CASE UNCHANGED vars
  <2>1. UNCHANGED documents /\ UNCHANGED <<links, count>>
    BY <1>4 DEF vars
  <2>2. \A s \in Site : WireOps(s)' = WireOps(s) /\ Accepted(s)' = Accepted(s)
    BY <2>1, AcceptedSame DEF links
  <2>3. Held' \subseteq Held
    BY <2>1, <2>2, HeldKept
  <2>4. DocumentsHaveShape' /\ PatientConvergence' /\ Legal(Held)'
    BY <2>1, <2>3, DocumentsKept
  <2>5. OwnIdsAreBehind' /\ Provenance'
    BY <2>1, <2>2, <2>3, IdsKept, ProvenanceKept DEF links, documents
  <2>6. VariablesTyped'
    BY <2>1 DEF IInv, VariablesTyped, links, documents
  <2>7. LinksAgree' /\ NothingLost'
    BY <2>1, <2>2 DEF IInv, LinksAgree, LinkAgrees, NothingLost, Patient,
                      links, documents
  <2> QED  BY <2>4, <2>5, <2>6, <2>7 DEF IInv
<1> QED  BY <1>1, <1>2, <1>3, <1>4 DEF Next

(***************************************************************************)
(* The inductive invariant: what is held by the server, by the editors     *)
(* that waited for their history and by the wires the server will read is  *)
(* legal, and every clock is past what its site has in it, or about to be  *)
(* when the history is read (EditorSession::apply_history).                *)
(***************************************************************************)
THEOREM RestartsInvariance == Spec => []IInv
BY InitIInv, StepIInv, PTL DEF Spec

(***************************************************************************)
(* design.md, "IDs are unique": closing and opening an editor repeats no   *)
(* identifier among those who waited for the history, although             *)
(* Id_generator begins at zero each time.                                  *)
(***************************************************************************)
THEOREM RestartsKeepIdsUnique == Spec => []IdsStayUnique
<1>1. IInv => IdsStayUnique
  BY DEF IInv, Legal, IdsStayUnique
<1> QED  BY <1>1, RestartsInvariance, PTL

(***************************************************************************)
(* The document of a patient replica is the function of what was applied   *)
(* to it: the order of the history, its overlap with what is routed, and   *)
(* earlier runs do not show (Document::apply_operation).                   *)
(***************************************************************************)
THEOREM PatientReplicasConverge == Spec => []PatientConvergence
<1>1. IInv => PatientConvergence
  BY DEF IInv
<1> QED  BY <1>1, RestartsInvariance, PTL

(***************************************************************************)
(* An editor with nothing under way has the document of the server: the    *)
(* history, what finish_sync adds and what is routed leave nothing out.    *)
(***************************************************************************)
THEOREM ARestartRestores == Spec => []RestartRestores
<1>1. IInv => RestartRestores
  <2> SUFFICES ASSUME IInv, NEW s \in Site \cap Patient, net[s] = "OPEN",
                      wire[s] = <<>>, incoming[s] = {}, pending[s] = {}
               PROVE  doc[s] = doc[Server]
    BY DEF RestartRestores
  <2>1. WireOps(s) = {}
    BY NothingElems DEF WireOps
  <2>2. applied[s] = applied[Server]
    BY <2>1 DEF IInv, NothingLost
  <2> QED  BY <2>2, SiteFacts DEF IInv, PatientConvergence
<1> QED  BY <1>1, RestartsInvariance, PTL

-----------------------------------------------------------------------------
(***************************************************************************)
(* Where a character lands.  This is about the editors that did not wait   *)
(* for their history as well, whose documents need not be the function of  *)
(* what was applied; so a second invariant says only that a document holds *)
(* no element that was not applied to it.                                  *)
(***************************************************************************)
Comprises(d, O) ==
    /\ {"elements", "children", "buffered_inserts", "tombstones"} \subseteq DOMAIN d
    /\ ROOT_ID \in Present(d)
    /\ Present(d) \subseteq {ROOT_ID} \cup Ids(Inserts(O))
    /\ d.buffered_inserts \subseteq Inserts(O)
    /\ \A p \in Present(d) : Elems(d.children[p]) \subseteq Ids(Inserts(O))

Screens ==
    \A s \in Site : IsFiniteSet(applied[s]) /\ Comprises(doc[s], applied[s])

LEMMA InsertsGrow ==
    ASSUME NEW O, NEW op
    PROVE  /\ Inserts(O) \subseteq Inserts(O \cup {op})
           /\ Ids(Inserts(O)) \subseteq Ids(Inserts(O \cup {op}))
           /\ IsInsert(op) => /\ op \in Inserts(O \cup {op})
                              /\ op.id \in Ids(Inserts(O \cup {op}))
BY DEF Inserts, Ids

LEMMA FiniteIds ==
    ASSUME NEW O \in SUBSET Operation, IsFiniteSet(O),
           NEW S \in SUBSET Ids(Inserts(O))
    PROVE  S \in SUBSET ElementID /\ IsFiniteSet(S)
<1> DEFINE I == Inserts(O)
           T == Ids(I)
           f == [o \in I |-> o.id]
<1>1. IsFiniteSet(I)
  BY FS_Subset DEF Inserts
<1>2. f \in Surjection(I, T)
  BY DEF Surjection, Ids
<1>3. T \subseteq ElementID
  BY OperationFields DEF Ids, ElementID
<1> HIDE DEF I, T, f
<1>4. IsFiniteSet(T)
  BY <1>1, <1>2, FS_Surjection
<1> QED  BY <1>3, <1>4, FS_Subset DEF I, T

\* The children of p in a document to which Attach gives op.
SiblingsOf(d, op, p) ==
    (IF p \in Present(d) THEN Elems(d.children[p]) ELSE {})
       \cup ChildIds({op} \cup {b \in Cascade(d, op.id) :
                                   b.id \notin Present(d) \cup {op.id}}, p)

LEMMA AttachedTo ==
    ASSUME NEW O \in SUBSET Operation, IsFiniteSet(O), NEW op \in InsertOperation,
           NEW d, Comprises(d, O)
    PROVE  LET e == Attach(d, op)
           IN  /\ {"elements", "children", "buffered_inserts", "tombstones"}
                     \subseteq DOMAIN e
               /\ Present(d) \cup {op.id} \subseteq Present(e)
               /\ Present(e) \subseteq {ROOT_ID} \cup Ids(Inserts(O)) \cup {op.id}
               /\ e.buffered_inserts \subseteq d.buffered_inserts
               /\ \A p \in Present(e) :
                     /\ e.children[p] = Descending(SiblingsOf(d, op, p))
                     /\ SiblingsOf(d, op, p) \subseteq Ids(Inserts(O)) \cup {op.id}
               /\ op.id \in SiblingsOf(d, op, op.parent)
<1> DEFINE R == Cascade(d, op.id)
           new == {op} \cup {b \in R : b.id \notin Present(d) \cup {op.id}}
           e == Attach(d, op)
<1>1. R \subseteq Inserts(O)
  BY CascadeLeast DEF Comprises
<1>2. Ids(new) \subseteq Ids(Inserts(O)) \cup {op.id} /\ op.id \in Ids(new)
  BY <1>1 DEF Ids
<1>3. \A p : ChildIds(new, p) \subseteq Ids(new)
  BY DEF ChildIds, Ids
<1>4. op.id \in ChildIds(new, op.parent)
  BY DEF ChildIds, Ids
<1>5. \A p : SiblingsOf(d, op, p) =
                (IF p \in Present(d) THEN Elems(d.children[p]) ELSE {})
                   \cup ChildIds(new, p)
  BY DEF SiblingsOf
<1>6. /\ {"elements", "children", "buffered_inserts", "tombstones"} \subseteq DOMAIN e
      /\ Present(e) = Present(d) \cup Ids(new)
      /\ e.buffered_inserts = d.buffered_inserts \ R
      /\ e.children = [p \in Present(d) \cup Ids(new) |->
                          Descending(SiblingsOf(d, op, p))]
  BY DEF Attach, Present, SiblingsOf
<1> HIDE DEF R, new, e
<1>7. \A p : SiblingsOf(d, op, p) \subseteq Ids(Inserts(O)) \cup {op.id}
  BY <1>2, <1>3, <1>5 DEF Comprises
<1>8. op.id \in SiblingsOf(d, op, op.parent)
  BY <1>4, <1>5
<1>9. /\ Present(d) \cup {op.id} \subseteq Present(e)
      /\ Present(e) \subseteq {ROOT_ID} \cup Ids(Inserts(O)) \cup {op.id}
  BY <1>2, <1>6 DEF Comprises
<1> QED  BY <1>6, <1>7, <1>8, <1>9 DEF e

LEMMA ComprisesKept ==
    ASSUME NEW O \in SUBSET Operation, IsFiniteSet(O), NEW op \in Operation,
           NEW d, Comprises(d, O)
    PROVE  Comprises(Apply(d, op), O \cup {op})
<1> DEFINE P == O \cup {op}
<1>1. Inserts(O) \subseteq Inserts(P) /\ Ids(Inserts(O)) \subseteq Ids(Inserts(P))
  BY InsertsGrow
<1>2. Comprises(d, P)
  BY <1>1 DEF Comprises
<1>3. CASE ~IsInsert(op)
  <2> DEFINE u == [d EXCEPT !.tombstones = @ \cup {op.target}]
             v == [d EXCEPT !.buffered_deletes = @ \cup {op.target}]
  <2>1. /\ DOMAIN u = DOMAIN d /\ u.elements = d.elements
        /\ u.children = d.children /\ u.buffered_inserts = d.buffered_inserts
    BY DEF Comprises
  <2>2. /\ DOMAIN v = DOMAIN d /\ v.elements = d.elements
        /\ v.children = d.children /\ v.buffered_inserts = d.buffered_inserts
    BY DEF Comprises
  <2>3. Apply(d, op) \in {u, v}
    BY <1>3 DEF Apply, ApplyDelete
  <2> HIDE DEF u, v
  <2>4. Comprises(u, P)
    BY <1>2, <2>1 DEF Comprises, Present
  <2>5. Comprises(v, P)
    BY <1>2, <2>2 DEF Comprises, Present
  <2> QED  BY <2>3, <2>4, <2>5
<1>4. CASE IsInsert(op)
  <2>1. op \in InsertOperation /\ op \in Inserts(P) /\ op.id \in Ids(Inserts(P))
    BY <1>4, OperationFields, InsertsGrow DEF Operation
  <2>2. Apply(d, op) = ApplyInsert(d, op)
    BY <1>4 DEF Apply
  <2>3. CASE Apply(d, op) = d
    BY <1>2, <2>3
  <2>4. CASE Apply(d, op) = BufferInsert(d, op) /\ op.id \notin d.buffered_insert_ids
    <3> DEFINE u == [d EXCEPT !.buffered_inserts    = @ \cup {op},
                              !.buffered_insert_ids = @ \cup {op.id}]
    <3>1. /\ DOMAIN u = DOMAIN d /\ u.elements = d.elements
          /\ u.children = d.children
          /\ u.buffered_inserts = d.buffered_inserts \cup {op}
      BY DEF Comprises
    <3>2. Apply(d, op) = u
      BY <2>4 DEF BufferInsert
    <3> HIDE DEF u
    <3> QED  BY <1>2, <2>1, <3>1, <3>2 DEF Comprises, Present
  <2>5. CASE Apply(d, op) = Attach(d, op)
    <3> DEFINE e == Attach(d, op)
    <3>1. /\ {"elements", "children", "buffered_inserts", "tombstones"}
                \subseteq DOMAIN e
          /\ Present(d) \cup {op.id} \subseteq Present(e)
          /\ Present(e) \subseteq {ROOT_ID} \cup Ids(Inserts(O)) \cup {op.id}
          /\ e.buffered_inserts \subseteq d.buffered_inserts
          /\ \A p \in Present(e) :
                /\ e.children[p] = Descending(SiblingsOf(d, op, p))
                /\ SiblingsOf(d, op, p) \subseteq Ids(Inserts(O)) \cup {op.id}
      BY <2>1, AttachedTo
    <3> HIDE DEF e
    <3>2. IsFiniteSet(P) /\ P \in SUBSET Operation
      BY FS_AddElement
    <3>3. ASSUME NEW p \in Present(e)
          PROVE  Elems(e.children[p]) \subseteq Ids(Inserts(P))
      <4> DEFINE S == SiblingsOf(d, op, p)
      <4>1. S \in SUBSET Ids(Inserts(P)) /\ e.children[p] = Descending(S)
        BY <1>1, <2>1, <3>1
      <4> HIDE DEF S, P
      <4>2. S \in SUBSET ElementID /\ IsFiniteSet(S)
        BY <3>2, <4>1, FiniteIds
      <4>3. Elems(Descending(S)) = S
        BY <4>2, DescendingLists
      <4> QED  BY <4>1, <4>3
    <3>4. Comprises(e, P)
      BY <1>1, <1>2, <2>1, <3>1, <3>3 DEF Comprises
    <3> QED  BY <2>5, <3>4 DEF e
  <2> QED  BY <2>2, <2>3, <2>4, <2>5 DEF ApplyInsert, BufferInsert
<1> QED  BY <1>3, <1>4

\* The greatest of some identifiers comes first.
LEMMA GreatestComesFirst ==
    ASSUME NEW S \in SUBSET ElementID, IsFiniteSet(S), NEW x \in S,
           \A y \in S : ~Greater(y, x)
    PROVE  Descending(S)[1] = x
<1> DEFINE D == Descending(S)
           n == Cardinality(S)
           above(i) == {y \in S : Greater(y, D[i])}
<1>1. /\ D \in Seq(S) /\ Elems(D) = S /\ Len(D) = n
      /\ \A i \in 1..n : Cardinality(above(i)) = i - 1
  BY DescendingLists
<1>2. DOMAIN D = 1..n
  BY <1>1
<1> HIDE DEF D, n
<1>3. PICK i \in 1..n : D[i] = x
  BY <1>1, <1>2 DEF Elems
<1>4. above(i) = {}
  BY <1>3
<1>5. i - 1 = 0
  BY <1>1, <1>4, FS_EmptySet
<1>6. i = 1
  BY <1>1, <1>3, <1>5, FS_CardinalityType DEF n
<1> QED  BY <1>3, <1>6 DEF D

LEMMA ScreensInit ==
    ASSUME Init
    PROVE  Screens
<1>1. \A s \in Site : applied[s] = {} /\ doc[s] = EmptyDocument
  BY DEF Init, Replica
<1>2. IsFiniteSet({}) /\ Comprises(EmptyDocument, {})
  BY FS_EmptySet DEF Comprises, EmptyDocument, Present, Elems
<1> QED  BY <1>1, <1>2 DEF Screens

\* A session that applies an operation, once.
LEMMA ScreensApplied ==
    ASSUME IInv, Screens, NEW s \in Site, NEW op \in Operation, ApplyOnce(s, op)
    PROVE  Screens'
<1>1. /\ applied \in [Replica -> SUBSET Operation] /\ DOMAIN doc = Replica
      /\ Site \subseteq Replica
  BY DEF IInv, VariablesTyped, Replica
<1>2. \A p \in Site :
         /\ applied'[p] = IF p = s THEN applied[s] \cup {op} ELSE applied[p]
         /\ p # s => doc'[p] = doc[p]
         /\ \/ doc'[s] = Apply(doc[s], op)
            \/ op \in applied[s] /\ doc'[s] = doc[s]
  BY <1>1, ApplyOnceForm
<1>3. IsFiniteSet(applied[s]) /\ Comprises(doc[s], applied[s])
  BY DEF Screens
<1>4. IsFiniteSet(applied[s] \cup {op})
  BY <1>3, FS_AddElement
<1>5. Comprises(Apply(doc[s], op), applied[s] \cup {op})
  BY <1>1, <1>3, ComprisesKept
<1>6. op \in applied[s] => applied[s] \cup {op} = applied[s]
  OBVIOUS
<1>7. Comprises(doc'[s], applied'[s])
  BY <1>2, <1>3, <1>5, <1>6
<1> QED  BY <1>2, <1>4, <1>7 DEF Screens

\* What every other action leaves of the documents of the sites.
LEMMA ScreensKept ==
    ASSUME Screens,
           \A p \in Site : applied'[p] = applied[p] /\ doc'[p] = doc[p]
    PROVE  Screens'
BY DEF Screens

LEMMA ScreensStep ==
    ASSUME IInv, Screens, [Next]_vars
    PROVE  Screens'
<1>1. /\ applied \in [Replica -> SUBSET Operation] /\ DOMAIN doc = Replica
      /\ Site \subseteq Replica /\ Server \notin Site
      /\ \A s \in Site : incoming[s] \subseteq Operation
  BY ServerIsNoSite DEF IInv, VariablesTyped, Replica
<1>2. CASE UNCHANGED documents
  BY <1>2, ScreensKept DEF documents
<1>3. CASE UNCHANGED vars
  BY <1>2, <1>3 DEF vars
<1>4. ASSUME NEW s \in Site, Process(s)
      PROVE  Screens'
  <2>1. CASE Quit(s)
    <3>1. \A p \in Site :
             /\ applied'[p] = IF p = s THEN {} ELSE applied[p]
             /\ doc'[p] = IF p = s THEN EmptyDocument ELSE doc[p]
      BY <1>1, <2>1 DEF Quit
    <3>2. IsFiniteSet({}) /\ Comprises(EmptyDocument, {})
      BY FS_EmptySet DEF Comprises, EmptyDocument, Present, Elems
    <3> QED  BY <3>1, <3>2 DEF Screens
  <2> QED  BY <1>2, <1>4, <2>1 DEF Process, Start, Open, Refused, ConnectionEnds
<1>5. ASSUME NEW s \in Site, Serve(s)
      PROVE  Screens'
  <2>1. CASE UNCHANGED documents
    BY <1>2, <2>1
  <2>2. ASSUME NEW op, Store(op)
        PROVE  Screens'
    <3>1. \A p \in Site : applied'[p] = applied[p] /\ doc'[p] = doc[p]
      BY <1>1, <2>2 DEF Store
    <3> QED  BY <3>1, ScreensKept
  <2> QED  BY <1>5, <2>1, <2>2
           DEF Serve, ServerReads, ServerReadsEnd, ReceiveOperation, Reject, FinishSync
<1>6. ASSUME NEW s \in Site, Session(s)
      PROVE  Screens'
  <2>1. ASSUME NEW op \in incoming[s], Take(s, op)
        PROVE  Screens'
    <3>1. ApplyOnce(s, op) /\ op \in Operation
      BY <1>1, <2>1 DEF Take
    <3> QED  BY <3>1, ScreensApplied
  <2>2. CASE FinishHistory(s)
    BY <1>2, <2>2 DEF FinishHistory
  <2>3. ASSUME NEW anchor \in Anchors(doc[s])
        PROVE  anchor \in ElementID
    BY SiteFacts DEF IInv, DocumentsHaveShape, HasShape, Anchors, ElementID
  <2>4. ASSUME NEW anchor \in Anchors(doc[s]), NEW c \in Char,
               TypeCharacter(s, anchor, c)
        PROVE  Screens'
    <3> DEFINE op == [type |-> "INSERT", parent |-> anchor,
                      id |-> NextID(clock[s], s), char |-> c]
    <3>1. op \in Operation
      BY <2>3, SiteFacts DEF NextID, GeneratedID, Operation, InsertOperation
    <3>2. ApplyOnce(s, op)
      BY <2>4 DEF TypeCharacter, Issue
    <3> QED  BY <3>1, <3>2, ScreensApplied
  <2>5. ASSUME NEW target \in Anchors(doc[s]), RemoveElement(s, target)
        PROVE  Screens'
    <3> DEFINE op == [type |-> "REMOVE", target |-> target]
    <3>1. op \in Operation
      BY <2>3 DEF Operation, RemoveOperation
    <3>2. ApplyOnce(s, op)
      BY <2>5 DEF RemoveElement, Issue
    <3> QED  BY <3>1, <3>2, ScreensApplied
  <2> QED  BY <1>6, <2>1, <2>2, <2>4, <2>5 DEF Session, TakeHistory, TakeOperation
<1> QED  BY <1>3, <1>4, <1>5, <1>6 DEF Next

LEMMA ScreensHold == Spec => []Screens
<1>1. Init => Screens
  BY ScreensInit
<1>2. IInv /\ Screens /\ [Next]_vars => Screens'
  BY ScreensStep
<1> QED  BY <1>1, <1>2, RestartsInvariance, PTL DEF Spec

\* The character of a key is the first child of the element at the cursor.
LEMMA CharacterLands ==
    ASSUME IInv, Screens, NEW s \in Site, NEW anchor \in Anchors(doc[s]),
           NEW c \in Char, TypeCharacter(s, anchor, c)
    PROVE  \E o \in Inserts(applied'[s] \ applied[s]) :
              /\ o.id \in Present(doc'[s])
              /\ doc'[s].children[o.parent][1] = o.id
<1> DEFINE op == [type |-> "INSERT", parent |-> anchor,
                  id |-> NextID(clock[s], s), char |-> c]
           d == doc[s]
           O == applied[s]
           e == Attach(d, op)
<1>1. /\ applied \in [Replica -> SUBSET Operation] /\ DOMAIN doc = Replica
      /\ s \in Replica /\ clock[s] \in Nat
  BY SiteFacts DEF IInv, VariablesTyped
<1>2. anchor \in ElementID
  BY SiteFacts DEF IInv, DocumentsHaveShape, HasShape, Anchors, ElementID
<1>3. /\ op \in InsertOperation /\ op \in Operation /\ IsInsert(op)
      /\ op.id = <<clock[s] + 1, s>> /\ op.parent = anchor
  BY <1>1, <1>2
  DEF NextID, GeneratedID, Operation, InsertOperation, IsInsert
<1>4. ApplyOnce(s, op)
  BY DEF TypeCharacter, Issue
<1>5. O \in SUBSET Operation /\ IsFiniteSet(O) /\ Comprises(d, O)
  BY <1>1 DEF Screens
<1>6. \A o \in Inserts(O) : o.id[1] <= clock[s]
  BY DEF IInv, Provenance
<1>7. anchor \in Present(d)
  BY <1>5 DEF Anchors, Comprises
<1> HIDE DEF op, d, O
<1>8. op.id[1] = clock[s] + 1
  BY <1>3
<1>9. \A x \in Ids(Inserts(O)) : x # op.id /\ ~Greater(x, op.id)
  <2> SUFFICES ASSUME NEW o \in Inserts(O)
               PROVE  o.id # op.id /\ ~Greater(o.id, op.id)
    BY DEF Ids
  <2>1. o.id[1] <= clock[s] /\ o.id[1] \in Nat
    <3>1. o.id \in ElementID
      BY <1>5, OperationFields DEF Inserts, ElementID
    <3> QED  BY <1>6, <3>1, IdParts
  <2> QED  BY <1>1, <1>8, <2>1 DEF Greater
<1>10. op \notin O /\ op.id \notin Present(d)
  <2>1. op \notin O
    BY <1>3, <1>9 DEF Inserts, Ids
  <2>2. op.id # ROOT_ID
    BY <1>1, <1>3 DEF ROOT_ID
  <2> QED  BY <1>5, <1>9, <2>1, <2>2 DEF Comprises
<1>11. Apply(d, op) = e
  BY <1>3, <1>7, <1>10 DEF Apply, ApplyInsert
<1>12. doc'[s] = e /\ op \in Inserts(applied'[s] \ applied[s])
  <2>1. doc' = [doc EXCEPT ![s] = Apply(@, op)] /\ applied'[s] = O \cup {op}
    BY <1>1, <1>4, <1>10 DEF ApplyOnce, O
  <2> QED  BY <1>1, <1>3, <1>10, <1>11, <2>1 DEF d, O, Inserts
<1>13. /\ op.id \in Present(e) /\ anchor \in Present(e)
       /\ e.children[anchor] = Descending(SiblingsOf(d, op, anchor))
       /\ SiblingsOf(d, op, anchor) \subseteq Ids(Inserts(O)) \cup {op.id}
       /\ op.id \in SiblingsOf(d, op, anchor)
  <2> HIDE DEF e
  <2>1. /\ Present(d) \cup {op.id} \subseteq Present(e)
        /\ \A p \in Present(e) :
              /\ e.children[p] = Descending(SiblingsOf(d, op, p))
              /\ SiblingsOf(d, op, p) \subseteq Ids(Inserts(O)) \cup {op.id}
        /\ op.id \in SiblingsOf(d, op, anchor)
    BY <1>3, <1>5, AttachedTo DEF e
  <2> QED  BY <1>7, <2>1
<1> HIDE DEF e
<1>14. Descending(SiblingsOf(d, op, anchor))[1] = op.id
  <2> DEFINE S == SiblingsOf(d, op, anchor)
             P == O \cup {op}
  <2>1. P \in SUBSET Operation /\ IsFiniteSet(P)
    BY <1>3, <1>5, FS_AddElement
  <2>2. S \in SUBSET Ids(Inserts(P))
    BY <1>3, <1>13, InsertsGrow
  <2> HIDE DEF S, P
  <2>3. S \in SUBSET ElementID /\ IsFiniteSet(S)
    BY <2>1, <2>2, FiniteIds
  <2>4. ~Greater(op.id, op.id)
    BY <1>3, OperationFields, GreaterIrreflexive DEF ElementID
  <2>5. op.id \in S /\ \A y \in S : ~Greater(y, op.id)
    BY <1>9, <1>13, <2>4 DEF S
  <2>6. Descending(S)[1] = op.id
    BY <2>3, <2>5, GreatestComesFirst
  <2> QED  BY <2>6 DEF S
<1> QED  BY <1>3, <1>12, <1>13, <1>14

(***************************************************************************)
(* The character of a key lands at the cursor of the editor, whether or    *)
(* not it waited for its history: Id_generator::next gives it an           *)
(* identifier above all that were applied, and Document::applyInsert sorts *)
(* it in front of its siblings.                                            *)
(***************************************************************************)
THEOREM KeysLandAtCursor == Spec => LandsAtCursor
<1> DEFINE Lands ==
        \A s \in Site :
            count'.keys > count.keys /\ clock'[s] > clock[s] =>
                \E o \in Inserts(applied'[s] \ applied[s]) :
                    /\ o.id \in Present(doc'[s])
                    /\ doc'[s].children[o.parent][1] = o.id
<1>1. ASSUME IInv, Screens, [Next]_vars
      PROVE  [Lands]_vars
  <2> SUFFICES ASSUME Next, NEW s \in Site,
                      count'.keys > count.keys, clock'[s] > clock[s]
               PROVE  \E o \in Inserts(applied'[s] \ applied[s]) :
                         /\ o.id \in Present(doc'[s])
                         /\ doc'[s].children[o.parent][1] = o.id
    BY <1>1
  <2>1. /\ clock \in [Site -> Nat] /\ count.keys \in Nat
        /\ count \in [keys : 0..MaxKeys, starts : 0..MaxStarts]
    BY <1>1, BoundAssumption DEF IInv, VariablesTyped
  <2>2. count' # count /\ count'.keys # count.keys /\ clock'[s] # clock[s]
    BY <2>1
  <2>3. PICK p \in Site : Process(p) \/ Serve(p) \/ Session(p)
    BY DEF Next
  <2>4. ~Process(p)
    <3>1. ~Start(p)
      BY <2>1, <2>2 DEF Start
    <3> QED  BY <2>2, <3>1 DEF Process, Open, Refused, ConnectionEnds, Quit
  <2>5. ~Serve(p)
    BY <2>2 DEF Serve, ServerReads, ServerReadsEnd
  <2>6. PICK anchor \in Anchors(doc[p]), c \in Char : TypeCharacter(p, anchor, c)
    <3>1. ASSUME NEW op, TakeHistory(p, op) \/ TakeOperation(p, op)
          PROVE  FALSE
      BY <2>2, <3>1 DEF TakeHistory, TakeOperation, Take
    <3>2. ~FinishHistory(p)
      BY <2>2 DEF FinishHistory
    <3>3. \A target : ~RemoveElement(p, target)
      BY <2>2 DEF RemoveElement
    <3> QED  BY <2>3, <2>4, <2>5, <3>1, <3>2, <3>3 DEF Session
  <2>7. p = s
    BY <2>1, <2>2, <2>6 DEF TypeCharacter
  <2> QED  BY <1>1, <2>6, <2>7, CharacterLands
<1>2. IInv /\ Screens /\ [Next]_vars => [Lands]_vars
  BY <1>1
<1>3. LandsAtCursor <=> [][Lands]_vars
  BY DEF LandsAtCursor
<1> HIDE DEF Lands
<1> QED  BY <1>2, <1>3, RestartsInvariance, ScreensHold, PTL DEF Spec
=============================================================================
