---------------------------- MODULE MCBaseEvent ----------------------------
(* Model-checking instances of BaseEvent.                                  *)
EXTENDS BaseEvent, TLC

CONSTANTS c1, c2, k1, k2

Symmetry == Permutations({k1, k2})

\* Calls that meet on one channel: refused, plain, or listing it twice.
SharedLists == {<<>>, <<c1>>, <<c1, c1>>}

\* One fan-out of two attempts, both to the channel that is not the first.
FanLists == {<<c1, c2, c2>>}

\* One fan-out of a single attempt.
PairLists == {<<c1, c2>>}

\* Liveness is asked of a broker whose ticker is not stopped.
TickingSpec == Init /\ [][Next /\ cleaning']_vars /\ Fairness
=============================================================================
