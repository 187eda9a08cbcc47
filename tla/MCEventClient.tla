--------------------------- MODULE MCEventClient ---------------------------
(* Model-checking instances of EventClient.                                *)
EXTENDS EventClient, TLC

CONSTANTS r1, w1
=============================================================================
