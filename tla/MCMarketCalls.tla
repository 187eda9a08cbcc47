--------------------------- MODULE MCMarketCalls ---------------------------
(* Model-checking instances of MarketCalls.                                *)
EXTENDS MarketCalls, TLC

CONSTANTS x1, x2, m1, m2, q1

Symmetry == Permutations({x1, x2}) \cup Permutations({m1, m2})
=============================================================================
