--------------------------- MODULE MCMarketStream ---------------------------
(* Model-checking instances of MarketStream.                               *)
EXTENDS MarketStream, TLC

CONSTANTS x1, x2, m1, m2, q1
=============================================================================
