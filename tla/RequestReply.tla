---------------------------- MODULE RequestReply ----------------------------
(***************************************************************************)
(* What the request broker promises its callers, without queues, locks,    *)
(* goroutines or timers.  Each call owns a few requests; a request is a    *)
(* write-once register, opened by its call and settled by an answer of a   *)
(* client or by the ticker; a call returns once, and a reply it returns is *)
(* the content of one of its own registers.                                *)
(***************************************************************************)
EXTENDS Naturals

CONSTANTS Calls, MaxLen, Answers, Errors

Req == Calls \X (1..MaxLen)

VARIABLES slot,    \* slot[r]: "unsent", "open", or what settled r
          status   \* status[k]: "idle", "pending", or what call k returned

Init ==
    /\ slot = [r \in Req |-> "unsent"]
    /\ status = [k \in Calls |-> "idle"]

Ask(k) ==
    /\ status[k] = "idle"
    /\ status' = [status EXCEPT ![k] = "pending"]
    /\ UNCHANGED slot

Refuse(k) ==
    /\ status[k] = "idle"
    /\ status' = [status EXCEPT ![k] = "noChannel"]
    /\ UNCHANGED slot

\* A call that returned early may still open requests it had begun to make.
Open(r) ==
    /\ slot[r] = "unsent" /\ status[r[1]] \notin {"idle", "noChannel"}
    /\ slot' = [slot EXCEPT ![r] = "open"]
    /\ UNCHANGED status

Answer(r, a) ==
    /\ slot[r] = "open"
    /\ slot' = [slot EXCEPT ![r] = a]
    /\ UNCHANGED status

TimeOut(late) ==
    /\ \A r \in late : slot[r] = "open"
    /\ slot' = [r \in Req |-> IF r \in late THEN "timeout" ELSE slot[r]]
    /\ UNCHANGED status

Reply(k, i) ==
    /\ status[k] = "pending" /\ slot[<<k, i>>] \in Answers \cup {"timeout"}
    /\ status' = [status EXCEPT ![k] = slot[<<k, i>>]]
    /\ UNCHANGED slot

Fail(k, e) ==
    /\ status[k] = "pending"
    /\ status' = [status EXCEPT ![k] = e]
    /\ UNCHANGED slot

Next ==
    \/ \E k \in Calls : Ask(k) \/ Refuse(k)
    \/ \E k \in Calls, i \in 1..MaxLen : Reply(k, i)
    \/ \E k \in Calls, e \in Errors : Fail(k, e)
    \/ \E r \in Req : Open(r)
    \/ \E r \in Req, a \in Answers : Answer(r, a)
    \/ \E late \in SUBSET Req : TimeOut(late)

Spec == Init /\ [][Next]_<<slot, status>>
=============================================================================
