---------------------------- MODULE MCSyncServer ----------------------------
(* Model-checking instances of SyncServer. *)
EXTENDS SyncServer

CONSTANTS s1, s2, s3, alice, bob, doc1, doc2

TwoClients == [s \in {s1, s2} |-> IF s = s1 THEN alice ELSE bob]
OneDocument == [s \in {s1, s2} |-> doc1]

\* alice starts the editor a second time, on another document; bob is on her
\* first one.
AliceTwice == [s \in {s1, s2, s3} |-> IF s = s3 THEN bob ELSE alice]
TwoDocuments == [s \in {s1, s2, s3} |-> IF s = s2 THEN doc2 ELSE doc1]
=============================================================================
