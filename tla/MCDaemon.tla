------------------------------ MODULE MCDaemon ------------------------------
(* Model-checking instances of Daemon.                                     *)
EXTENDS Daemon, TLC

CONSTANTS r1, r2, auth, node, a1

AuthAndNode == <<auth, node>>
=============================================================================
