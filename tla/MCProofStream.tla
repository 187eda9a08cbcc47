--------------------------- MODULE MCProofStream ---------------------------
(* Model-checking instances of ProofStream.                                *)
EXTENDS ProofStream, TLC

CONSTANTS x1, x2, m1, m2, q1
=============================================================================
