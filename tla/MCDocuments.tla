---------------------------- MODULE MCDocuments ----------------------------
(* Model-checking instance of DocumentRecursion: a first character, two    *)
(* concurrent ones that may follow it, and one that may follow any.        *)
EXTENDS DocumentRecursion

TreeId == {<<1, 1>>, <<2, 1>>, <<2, 2>>, <<3, 1>>}
=============================================================================
