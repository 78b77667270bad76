----------------------------- MODULE MCJobOutput -----------------------------
(* One job, a ring of two or three events, a buffer of two characters.       *)
EXTENDS JobOutput
=============================================================================
