------------------------------ MODULE Registry ------------------------------
(***************************************************************************)
(* What a stream promises the callers that look for the clients of a       *)
(* miner.  A connection is entered at most once, under one miner; it may   *)
(* be missed then, but one that has been found stays until it has ended,   *)
(* and one that has been taken out does not come back.                     *)
(***************************************************************************)
CONSTANTS
    Conns,        \* connections
    Miners        \* the miners they serve

VARIABLES
    listed,       \* listed[m]: the connections a lookup of miner m yields
    met,          \* connections that have had their chance to be entered
    ended         \* connections that have ended

vars == <<listed, met, ended>>

Init == listed = [m \in Miners |-> {}] /\ met = {} /\ ended \subseteq Conns

Enter(x, m) ==
    /\ x \notin met /\ met' = met \cup {x}
    /\ listed' = [listed EXCEPT ![m] = @ \cup {x}]
    /\ UNCHANGED ended

Miss(x) ==
    /\ x \notin met /\ met' = met \cup {x}
    /\ UNCHANGED <<listed, ended>>

End(x) == ended' = ended \cup {x} /\ UNCHANGED <<listed, met>>

Leave(x, m) ==
    /\ x \in ended
    /\ listed' = [listed EXCEPT ![m] = @ \ {x}]
    /\ UNCHANGED <<met, ended>>

Next ==
    \E x \in Conns :
        \/ Miss(x) \/ End(x)
        \/ \E m \in Miners : Enter(x, m) \/ Leave(x, m)

Spec == Init /\ [][Next]_vars
=============================================================================
