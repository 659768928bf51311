------------------------------ MODULE MCEditor ------------------------------
(* Model-checking instance of EditorSession. *)
EXTENDS EditorSession

\* States that differ only in what the user did last, or in view, which is a
\* function of the session, are one state to TLC.
Essential == <<session, selecting, issued, updates>>
=============================================================================
