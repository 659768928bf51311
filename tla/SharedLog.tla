----------------------------- MODULE SharedLog -----------------------------
(***************************************************************************)
(* What the server promises the sessions that edit one document: there is  *)
(* a single log of the document, an operation enters it once, the          *)
(* operations of a session enter it in the order they were typed, and at   *)
(* every moment a session knows its own operations and a prefix of the     *)
(* log: nothing is skipped, repeated or seen before what it rests on.      *)
(***************************************************************************)
EXTENDS Naturals, Sequences, FiniteSets

CONSTANTS Session,
          Text,         \* the documents
          TextOf        \* [Session -> Text], the document a session edits

VARIABLES
    log,        \* [Text -> Seq(Operation)]
    known       \* [Session -> SUBSET Operation]

logVars == <<log, known>>

\* Operation <<s, n>> is the n-th that session s typed.
Typed(s) == {op \in known[s] : op[1] = s}

Entries(seq) == {seq[i] : i \in DOMAIN seq}

LogInit ==
    /\ log = [t \in Text |-> <<>>]
    /\ known = [s \in Session |-> {}]

Type(s) ==
    /\ known' = [known EXCEPT ![s] = @ \cup {<<s, Cardinality(Typed(s)) + 1>>}]
    /\ UNCHANGED log

Enter(s) ==
    LET t == TextOf[s]
    IN  /\ \E op \in Typed(s) :
              /\ \A e \in Entries(log[t]) : e[1] = s => e[2] < op[2]
              /\ log' = [log EXCEPT ![t] = Append(@, op)]
        /\ UNCHANGED known

Read(s) ==
    LET t == TextOf[s]
    IN  /\ \E n \in 0..Len(log[t]) :
              LET prefix == Entries(SubSeq(log[t], 1, n))
              IN  /\ known[s] \subseteq Typed(s) \cup prefix
                  /\ known' = [known EXCEPT ![s] = Typed(s) \cup prefix]
        /\ UNCHANGED log

LogNext == \E s \in Session : Type(s) \/ Enter(s) \/ Read(s)

LogSpec == LogInit /\ [][LogNext]_logVars
=============================================================================
