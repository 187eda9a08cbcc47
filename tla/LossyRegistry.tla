--------------------------- MODULE LossyRegistry ---------------------------
(***************************************************************************)
(* What the proof stream promises the callers that look for the clients of *)
(* a miner: Registry, but for one thing.  A connection that has ended, when *)
(* it has left itself, may once take out all others of its miner with it,  *)
(* and these do not come back either.                                      *)
(***************************************************************************)
CONSTANTS
    Conns,        \* connections
    Miners,       \* the miners they serve
    None          \* no miner

VARIABLES
    listed,       \* listed[m]: the connections a lookup of miner m yields
    home,         \* home[x]: the miner x has had its chance to be entered under
    ended,        \* connections that have ended
    cleared       \* connections that have nothing left to take out

vars == <<listed, home, ended, cleared>>

Init ==
    /\ listed = [m \in Miners |-> {}] /\ home = [x \in Conns |-> None]
    /\ ended \subseteq Conns /\ cleared = {}

Enter(x, m) ==
    /\ home[x] = None /\ home' = [home EXCEPT ![x] = m]
    /\ \/ listed' = [listed EXCEPT ![m] = @ \cup {x}]
       \/ UNCHANGED listed
    /\ UNCHANGED <<ended, cleared>>

End(x) == ended' = ended \cup {x} /\ UNCHANGED <<listed, home, cleared>>

Leave(x) ==
    /\ x \in ended \ cleared /\ home[x] # None
    /\ listed' = [listed EXCEPT ![home[x]] = @ \ {x}]
    /\ UNCHANGED <<home, ended, cleared>>

Clear(x) ==
    /\ x \in ended \ cleared /\ cleared' = cleared \cup {x}
    /\ home[x] # None /\ x \notin listed[home[x]]
    /\ \/ listed' = [listed EXCEPT ![home[x]] = {}]
       \/ UNCHANGED listed
    /\ UNCHANGED <<home, ended>>

Next ==
    \E x \in Conns : End(x) \/ Leave(x) \/ Clear(x) \/ \E m \in Miners : Enter(x, m)

Spec == Init /\ [][Next]_vars
=============================================================================
