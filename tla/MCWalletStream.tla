--------------------------- MODULE MCWalletStream ---------------------------
(* Model-checking instances of WalletStream.                               *)
EXTENDS WalletStream, TLC

CONSTANTS x1, x2, n1, q1, w1, w2, d1, d2

Symmetry == Permutations({x1, x2})
=============================================================================
