-------------------------- MODULE BaseEventProofs --------------------------
(***************************************************************************)
(* Theorems about BaseEvent, for any set of calls, channels and lists.     *)
(*                                                                         *)
(* The argument: a request's reply is a token that exists once.  It is in  *)
(* the map (the entry), in a handler (replying), in the Result buffer, or  *)
(* with the attempt (got), and settled remembers what it is once it has    *)
(* left the map.                                                           *)
(***************************************************************************)
EXTENDS BaseEvent, SequenceTheorems, FiniteSetTheorems, TLAPS

\* A request is a call and a position.
LEMMA ReqParts == \A r \in Req : r[1] \in Calls /\ r[2] \in 1..MaxLen /\ r = <<r[1], r[2]>>
BY DEF Req

\* No list is longer than MaxLen, so every position of a call's list is a request.
LEMMA ListLen == \A l \in Lists \cup {<<>>} : l \in Seq(Channels) /\ Len(l) \in 0..MaxLen
<1>1. <<>> \in Seq(Channels) /\ Len(<<>>) = 0
  OBVIOUS
<1>2. Len(<<>>) \in 0..MaxLen
  BY <1>1, BoundAssumption
<1> QED BY <1>1, <1>2, ListsAssumption

LEMMA OthersReq ==
  ASSUME CallersOK, NEW k \in Calls
  PROVE  /\ Others(k) \subseteq Req /\ Len(list[k]) \in 0..MaxLen
         /\ \A r \in Others(k) : r[1] = k /\ r[2] \in 2..Len(list[k])
<1>1. Len(list[k]) \in 0..MaxLen
  BY ListLen DEF CallersOK
<1> QED BY <1>1, BoundAssumption DEF Others, Req

\* What sendOnce returns is something SendRequest may return.
LEMMA GotIsOutcome ==
  ASSUME AttemptsOK, NEW r \in Req PROVE got[r] \in Outcomes \cup {"none"}
BY DEF AttemptsOK, Outcomes

\* Return keeps the callers' types.
LEMMA ReturnType ==
  ASSUME CallersOK, NEW k \in Calls, NEW o \in Outcomes \cup {"none"}, Return(k, o)
  PROVE  CallersOK'
BY DEF CallersOK, Return, Pcs

\* The first position of a call is a request.
LEMMA FirstReq == \A k \in Calls : <<k, 1>> \in Req
BY BoundAssumption DEF Req

\* Every action preserves the types.
LEMMA TypeStep == TypeOK /\ [Next]_vars => TypeOK'
<1> SUFFICES ASSUME TypeOK, [Next]_vars PROVE TypeOK'
  OBVIOUS
<1> USE DEF TypeOK
<1>1. ASSUME NEW k \in Calls, NEW l \in Lists, SendRequest(k, l) PROVE TypeOK'
  <2>1. CallersOK'
    <3>1. CASE Return(k, "noChannel")
      BY <3>1, ReturnType DEF Outcomes
    <3>2. CASE ~Return(k, "noChannel")
      BY <1>1, <3>2 DEF SendRequest, CallersOK, Pcs
    <3> QED BY <3>1, <3>2
  <2>2. AttemptsOK'
    BY <1>1 DEF SendRequest, AttemptsOK, Places
  <2> QED BY <1>1, <2>1, <2>2 DEF SendRequest, RegistryOK, StreamsOK, registry, streams
<1>2. ASSUME NEW k \in Calls, CallStep(k) PROVE TypeOK'
  <2>1. CASE FirstReturns(k)
    <3>1. CallersOK'
      BY <2>1, ReturnType, FirstReq, GotIsOutcome DEF FirstReturns
    <3>2. AttemptsOK'
      BY <2>1 DEF FirstReturns, AttemptsOK, Places
    <3> QED BY <2>1, <3>1, <3>2 DEF FirstReturns, RegistryOK, StreamsOK, registry, streams
  <2>2. CASE FanOut(k)
    <3>1. CallersOK'
      BY <2>2 DEF FanOut, CallersOK, Pcs
    <3>2. AttemptsOK'
      BY <2>2 DEF FanOut, AttemptsOK, Places
    <3> QED BY <2>2, <3>1, <3>2 DEF FanOut, RegistryOK, StreamsOK, registry, streams
  <2>3. CASE ReceiveReply(k)
    <3>1. PICK r \in Others(k) :
            /\ at[r] = "offer" /\ Return(k, got[r])
            /\ at' = [at EXCEPT ![r] = "exit"]
            /\ UNCHANGED <<registry, streams, got, crashed>>
      BY <2>3 DEF ReceiveReply
    <3>2. r \in Req
      BY <3>1, OthersReq
    <3>3. CallersOK'
      BY <3>1, <3>2, ReturnType, GotIsOutcome
    <3>4. AttemptsOK'
      BY <3>1 DEF AttemptsOK, Places
    <3> QED BY <3>1, <3>3, <3>4 DEF RegistryOK, StreamsOK, registry, streams
  <2>4. CASE SelectCtxDone(k)
    <3>1. CallersOK'
      BY <2>4, ReturnType DEF SelectCtxDone, Outcomes, Failures
    <3> QED BY <2>4, <3>1 DEF SelectCtxDone, RegistryOK, StreamsOK, AttemptsOK,
                              registry, streams, attempts
  <2> QED BY <1>2, <2>1, <2>2, <2>3, <2>4 DEF CallStep
<1>3. ASSUME NEW r \in Req, AttemptStep(r) PROVE TypeOK'
  <2>1. CASE Register(r)
    <3>1. RegistryOK' /\ AttemptsOK'
      BY <2>1 DEF Register, RegistryOK, AttemptsOK, Places
    <3> QED BY <2>1, <3>1 DEF Register, StreamsOK, CallersOK, streams, callers
  <2>2. CASE GiveUp(r)
    <3>1. AttemptsOK'
      BY <2>2 DEF GiveUp, AttemptsOK, Places, Failures
    <3> QED BY <2>2, <3>1 DEF GiveUp, RegistryOK, StreamsOK, CallersOK, registry, streams, callers
  <2>3. CASE PassCheck(r)
    <3>1. AttemptsOK'
      BY <2>3 DEF PassCheck, AttemptsOK, Places
    <3> QED BY <2>3, <3>1 DEF PassCheck, RegistryOK, StreamsOK, CallersOK, registry, streams, callers
  <2>4. CASE Enqueue(r)
    <3>1. AttemptsOK' /\ StreamsOK'
      BY <2>4 DEF Enqueue, AttemptsOK, StreamsOK, Places
    <3> QED BY <2>4, <3>1 DEF Enqueue, RegistryOK, CallersOK, registry, callers
  <2>5. CASE SendPanics(r)
    <3>1. AttemptsOK'
      BY <2>5 DEF SendPanics, AttemptsOK, Places
    <3>2. CallersOK' /\ (crashed \in BOOLEAN)'
      <4>1. CASE Return(r[1], "panic") /\ UNCHANGED crashed
        BY <4>1, ReqParts, ReturnType DEF Outcomes
      <4>2. CASE crashed' = TRUE /\ UNCHANGED callers
        BY <4>2 DEF CallersOK, callers
      <4> QED BY <2>5, <4>1, <4>2 DEF SendPanics
    <3> QED BY <2>5, <3>1, <3>2 DEF SendPanics, RegistryOK, StreamsOK, registry, streams
  <2>6. CASE AcceptReply(r)
    <3>1. RegistryOK' /\ AttemptsOK'
      BY <2>6 DEF AcceptReply, RegistryOK, AttemptsOK, Places
    <3> QED BY <2>6, <3>1 DEF AcceptReply, StreamsOK, CallersOK, streams, callers
  <2>7. CASE CountFailure(r)
    <3>1. AttemptsOK'
      BY <2>7 DEF CountFailure, AttemptsOK, Places
    <3>2. CallersOK'
      BY <2>7, ReqParts DEF CountFailure, CallersOK
    <3> QED BY <2>7, <3>1, <3>2 DEF CountFailure, RegistryOK, StreamsOK, registry, streams
  <2>8. CASE EnterOnce(r)
    <3>1. AttemptsOK'
      BY <2>8 DEF EnterOnce, AttemptsOK, Places
    <3>2. CallersOK'
      <4>1. r[2] \in 0..MaxLen
        BY ReqParts, BoundAssumption
      <4> QED BY <2>8, <4>1 DEF EnterOnce, CallersOK
    <3> QED BY <2>8, <3>1, <3>2 DEF EnterOnce, RegistryOK, StreamsOK, registry, streams
  <2>9. CASE LeaveOnce(r)
    <3>1. AttemptsOK'
      BY <2>9 DEF LeaveOnce, AttemptsOK, Places
    <3> QED BY <2>9, <3>1 DEF LeaveOnce, RegistryOK, StreamsOK, CallersOK, registry, streams, callers
  <2> QED BY <1>3, <2>1, <2>2, <2>3, <2>4, <2>5, <2>6, <2>7, <2>8, <2>9 DEF AttemptStep
<1>4. ASSUME NEW r \in Req, NEW a \in Answers, ResponseEvent(r, a) PROVE TypeOK'
  <2>1. RegistryOK'
    BY <1>4 DEF ResponseEvent, Forget, RegistryOK, Replies
  <2> QED BY <1>4, <2>1 DEF ResponseEvent, Forget, StreamsOK, CallersOK, AttemptsOK, streams, callers, attempts
<1>5. ASSUME NEW m \in replying, DeliverReply(m) PROVE TypeOK'
  <2>1. RegistryOK'
    <3>1. m.req \in Req /\ m.ans \in Answers
      BY DEF RegistryOK
    <3> QED BY <1>5, <3>1 DEF DeliverReply, RegistryOK, Replies
  <2> QED BY <1>5, <2>1 DEF DeliverReply, StreamsOK, CallersOK, AttemptsOK, streams, callers, attempts
<1>6. ASSUME NEW late \in SUBSET idRequest, CleanRequests(late) PROVE TypeOK'
  <2>1. RegistryOK'
    BY <1>6 DEF CleanRequests, Forget, RegistryOK, Replies
  <2> QED BY <1>6, <2>1 DEF CleanRequests, Forget, StreamsOK, CallersOK, AttemptsOK, streams, callers, attempts
<1>7. CASE StopCleaning
  BY <1>7 DEF StopCleaning, RegistryOK, StreamsOK, CallersOK, AttemptsOK, streams, callers, attempts
<1>8. CASE EnvStep
  <2>1. ASSUME NEW k \in Calls, Cancel(k) PROVE TypeOK'
    BY <2>1 DEF Cancel, RegistryOK, StreamsOK, CallersOK, AttemptsOK, registry, streams, attempts
  <2>2. ASSUME NEW c \in Channels, Disconnect(c) \/ CloseOutBound(c) PROVE TypeOK'
    BY <2>2 DEF Disconnect, CloseOutBound, RegistryOK, StreamsOK, CallersOK, AttemptsOK,
                registry, callers, attempts
  <2>3. ASSUME NEW c \in Channels, NEW r \in Req, Take(c, r) PROVE TypeOK'
    BY <2>3 DEF Take, RegistryOK, StreamsOK, CallersOK, AttemptsOK, registry, callers, attempts
  <2> QED BY <1>8, <2>1, <2>2, <2>3 DEF EnvStep
<1>9. CASE UNCHANGED vars
  BY <1>9 DEF vars, RegistryOK, StreamsOK, CallersOK, AttemptsOK, registry, streams, callers, attempts
<1> QED BY <1>1, <1>2, <1>3, <1>4, <1>5, <1>6, <1>7, <1>8, <1>9 DEF Next

LEMMA InitType == Init => TypeOK
<1> SUFFICES ASSUME Init PROVE TypeOK
  OBVIOUS
<1>1. RegistryOK
  BY DEF Init, RegistryOK
<1>2. StreamsOK
  BY DEF Init, StreamsOK
<1>3. CallersOK
  BY BoundAssumption DEF Init, CallersOK, Pcs
<1>4. AttemptsOK
  BY DEF Init, AttemptsOK, Places
<1> QED BY <1>1, <1>2, <1>3, <1>4 DEF Init, TypeOK

\* Every variable keeps its type, for any calls, channels, lists and queue size.
THEOREM TypeCorrect == Spec => []TypeOK
BY InitType, TypeStep, PTL DEF Spec

----------------------------------------------------------------------------
(* What a step of an attempt, or of a call, may touch.                     *)

LEMMA AttemptFrame ==
  ASSUME TypeOK, NEW r \in Req, AttemptStep(r)
  PROVE  /\ at[r] \notin {"none", "exit"} /\ at'[r] \notin {"none", "new"}
         /\ \A q \in Req \ {r} : at'[q] = at[q] /\ got'[q] = got[q]
         /\ UNCHANGED <<list, settled, replying>>
         /\ UNCHANGED <<pc, outcome>> \/ Return(r[1], "panic")
<1> USE DEF TypeOK, AttemptsOK
<1>1. CASE Register(r) BY <1>1 DEF Register, callers
<1>2. CASE GiveUp(r) BY <1>2 DEF GiveUp, callers, registry
<1>3. CASE PassCheck(r) BY <1>3 DEF PassCheck, callers, registry
<1>4. CASE Enqueue(r) BY <1>4 DEF Enqueue, callers, registry
<1>5. CASE SendPanics(r) BY <1>5 DEF SendPanics, Return, callers, registry
<1>6. CASE AcceptReply(r) BY <1>6 DEF AcceptReply, callers
<1>7. CASE CountFailure(r) BY <1>7 DEF CountFailure, registry
<1>8. CASE EnterOnce(r) BY <1>8 DEF EnterOnce, registry
<1>9. CASE LeaveOnce(r) BY <1>9 DEF LeaveOnce, callers, registry
<1> QED BY <1>1, <1>2, <1>3, <1>4, <1>5, <1>6, <1>7, <1>8, <1>9 DEF AttemptStep

\* Position by position, as the invariants name requests.
LEMMA AttemptFrameAt ==
  ASSUME TypeOK, NEW r \in Req, AttemptStep(r), NEW k \in Calls, NEW i \in 1..MaxLen
  PROVE  \/ r = <<k, i>>
         \/ at'[<<k, i>>] = at[<<k, i>>] /\ got'[<<k, i>>] = got[<<k, i>>]
BY AttemptFrame DEF Req

\* No step of a call registers, answers or forgets a request.
LEMMA CallFrame ==
  ASSUME TypeOK, NEW k \in Calls,
         CallStep(k) \/ \E l \in Lists : SendRequest(k, l)
  PROVE  UNCHANGED <<registry, got>>
BY DEF CallStep, SendRequest, FirstReturns, FanOut, ReceiveReply, SelectCtxDone, attempts

----------------------------------------------------------------------------
(* The shape of a call is inductive.                                       *)

\* A step that moves no call and no attempt.
LEMMA ShapeUnmoved ==
  ASSUME CallShape, UNCHANGED <<list, pc, outcome, attempts>> PROVE CallShape'
BY DEF CallShape, ShapeOf, attempts

\* A call of which nothing changes that ShapeOf reads keeps its shape.
LEMMA ShapeKept ==
  ASSUME NEW k \in Calls, ShapeOf(k), Len(list[k]) \in 0..MaxLen,
         pc'[k] = pc[k], list'[k] = list[k], outcome'[k] = outcome[k],
         \A i \in 1..MaxLen : at[<<k, i>>] \in {"none", "exit"} =>
           at'[<<k, i>>] = at[<<k, i>>] /\ got'[<<k, i>>] = got[<<k, i>>]
  PROVE  ShapeOf(k)'
<1>1. \A i \in 1..Len(list[k]) : i \in 1..MaxLen
  BY BoundAssumption
<1>2. \A i \in 2..MaxLen : i \in 1..MaxLen
  BY BoundAssumption
<1>3. (pc[k] = "idle" => \A i \in 1..MaxLen : at[<<k, i>>] = "none")'
  BY DEF ShapeOf
<1>4. (pc[k] = "first" => list[k] # <<>> /\ \A i \in 2..MaxLen : at[<<k, i>>] = "none")'
  BY <1>2 DEF ShapeOf
<1>5. (pc[k] # "returned" => outcome[k] = "none")'
  BY DEF ShapeOf
<1>6. (outcome[k] \in Replies =>
        \E i \in 1..Len(list[k]) : at[<<k, i>>] = "exit" /\ got[<<k, i>>] = outcome[k])'
  <2>1. SUFFICES ASSUME outcome'[k] \in Replies
        PROVE \E i \in 1..Len(list'[k]) : at'[<<k, i>>] = "exit" /\ got'[<<k, i>>] = outcome'[k]
    BY DEF Replies, Answers
  <2>2. PICK i \in 1..Len(list[k]) : at[<<k, i>>] = "exit" /\ got[<<k, i>>] = outcome[k]
    BY <2>1 DEF ShapeOf, Replies, Answers
  <2> QED BY <1>1, <2>2
<1> QED BY <1>3, <1>4, <1>5, <1>6 DEF ShapeOf, Replies, Answers

LEMMA ShapeOfSend ==
  ASSUME TypeOK, CallShape, NEW j \in Calls, NEW l \in Lists, SendRequest(j, l), NEW k \in Calls
  PROVE  ShapeOf(k)'
<1>1. ShapeOf(k) /\ pc[j] = "idle"
  BY DEF CallShape, SendRequest
<1>2. CASE l = <<>> /\ Return(j, "noChannel") /\ UNCHANGED at
  BY <1>1, <1>2, CallFrame DEF ShapeOf, Return, TypeOK, CallersOK, Replies, Answers
<1>3. CASE l # <<>> /\ list' = [list EXCEPT ![j] = l] /\ pc' = [pc EXCEPT ![j] = "first"]
           /\ at' = [at EXCEPT ![<<j, 1>>] = "new"] /\ UNCHANGED outcome
  <2>1. \A i \in 1..MaxLen : k # j \/ i # 1 => at'[<<k, i>>] = at[<<k, i>>]
    BY <1>3 DEF TypeOK, AttemptsOK, Req
  <2>2. CASE k = j
    <3>1. pc'[k] = "first" /\ list'[k] = l /\ outcome'[k] = "none"
      BY <1>1, <1>3, <2>2 DEF ShapeOf, TypeOK, CallersOK
    <3>2. \A i \in 2..MaxLen : at'[<<k, i>>] = "none"
      BY <1>1, <2>1, <2>2, BoundAssumption DEF ShapeOf
    <3> QED BY <1>3, <3>1, <3>2 DEF ShapeOf, Replies, Answers
  <2>3. CASE k # j
    <3>1. pc'[k] = pc[k] /\ list'[k] = list[k] /\ outcome'[k] = outcome[k] /\ got' = got
      BY <1>3, <2>3, CallFrame DEF TypeOK, CallersOK
    <3>2. Len(list[k]) \in 0..MaxLen
      BY OthersReq DEF TypeOK
    <3>3. \A i \in 1..MaxLen : at'[<<k, i>>] = at[<<k, i>>] /\ got'[<<k, i>>] = got[<<k, i>>]
      BY <2>1, <2>3, <3>1
    <3> QED BY <1>1, <3>1, <3>2, <3>3, ShapeKept
  <2> QED BY <2>2, <2>3
<1> QED BY <1>2, <1>3 DEF SendRequest

LEMMA ShapeOfCall ==
  ASSUME TypeOK, CallShape, NEW j \in Calls, CallStep(j), NEW k \in Calls
  PROVE  ShapeOf(k)'
<1>1. ShapeOf(k) /\ ShapeOf(j) /\ UNCHANGED <<list, got>>
  BY CallFrame DEF CallShape, CallStep, FirstReturns, FanOut, ReceiveReply, SelectCtxDone, Return
<1>2. CASE k # j
  <2>1. \A i \in 1..MaxLen : at'[<<k, i>>] = at[<<k, i>>]
    BY <1>2, OthersReq DEF TypeOK, AttemptsOK, Req, CallStep, FirstReturns, FanOut, ReceiveReply,
       SelectCtxDone, attempts, Others
  <2>2. pc'[k] = pc[k] /\ outcome'[k] = outcome[k]
    BY <1>2 DEF TypeOK, CallersOK, CallStep, FirstReturns, FanOut, ReceiveReply,
       SelectCtxDone, Return
  <2>3. Len(list[k]) \in 0..MaxLen
    BY OthersReq DEF TypeOK
  <2>4. list'[k] = list[k] /\ \A i \in 1..MaxLen :
          at'[<<k, i>>] = at[<<k, i>>] /\ got'[<<k, i>>] = got[<<k, i>>]
    BY <1>1, <2>1
  <2> QED BY <1>1, <2>2, <2>3, <2>4, ShapeKept
<1>3. CASE k = j
  <2>1. CASE FirstReturns(k)
    <3>1. pc'[k] = "returned" /\ outcome'[k] = got[<<k, 1>>] /\ at'[<<k, 1>>] = "exit"
      BY <2>1, FirstReq DEF FirstReturns, Return, TypeOK, CallersOK, AttemptsOK
    <3>2. 1 \in 1..Len(list[k])
      <4>1. list[k] # <<>> /\ list[k] \in Seq(Channels)
        BY <1>1, <2>1, ListLen DEF FirstReturns, ShapeOf, TypeOK, CallersOK
      <4> QED BY <4>1, EmptySeq
    <3> QED BY <1>1, <3>1, <3>2 DEF ShapeOf
  <2>2. CASE FanOut(k)
    <3>1. pc'[k] = "select" /\ outcome'[k] = "none"
      BY <1>1, <2>2 DEF FanOut, ShapeOf, TypeOK, CallersOK
    <3> QED BY <3>1 DEF ShapeOf, Replies, Answers
  <2>3. CASE ReceiveReply(k)
    <3>1. PICK r \in Others(k) :
            Return(k, got[r]) /\ at' = [at EXCEPT ![r] = "exit"]
      BY <2>3 DEF ReceiveReply
    <3>2. r \in Req /\ r = <<k, r[2]>> /\ r[2] \in 1..Len(list[k])
      BY OthersReq, ReqParts DEF TypeOK
    <3>3. pc'[k] = "returned" /\ outcome'[k] = got[r] /\ at'[r] = "exit"
      BY <3>1, <3>2 DEF Return, TypeOK, CallersOK, AttemptsOK
    <3> QED BY <1>1, <3>2, <3>3 DEF ShapeOf
  <2>4. CASE SelectCtxDone(k)
    <3>1. pc'[k] = "returned" /\ outcome'[k] = "canceled"
      BY <2>4 DEF SelectCtxDone, Return, TypeOK, CallersOK
    <3> QED BY <3>1 DEF ShapeOf, Replies, Answers
  <2> QED BY <1>3, <2>1, <2>2, <2>3, <2>4 DEF CallStep
<1> QED BY <1>2, <1>3

LEMMA ShapeOfAttempt ==
  ASSUME TypeOK, CallShape, NEW r \in Req, AttemptStep(r), NEW k \in Calls
  PROVE  ShapeOf(k)'
<1>1. ShapeOf(k) /\ UNCHANGED list /\ Len(list[k]) \in 0..MaxLen
  BY AttemptFrame, OthersReq DEF CallShape, TypeOK
<1>2. at[r] \notin {"none", "exit"}
  BY AttemptFrame
<1>3. CASE UNCHANGED <<pc, outcome>>
  <2>1. \A i \in 1..MaxLen : at[<<k, i>>] \in {"none", "exit"} =>
          at'[<<k, i>>] = at[<<k, i>>] /\ got'[<<k, i>>] = got[<<k, i>>]
    BY <1>2, AttemptFrameAt
  <2>2. pc'[k] = pc[k] /\ list'[k] = list[k] /\ outcome'[k] = outcome[k]
    BY <1>1, <1>3
  <2> QED BY <1>1, <2>1, <2>2, ShapeKept
<1>4. CASE Return(r[1], "panic")
  <2>1. CASE k = r[1]
    BY <1>4, <2>1 DEF Return, ShapeOf, Replies, Answers, TypeOK, CallersOK
  <2>2. CASE k # r[1]
    <3>1. pc'[k] = pc[k] /\ outcome'[k] = outcome[k]
      BY <1>4, <2>2 DEF Return, TypeOK, CallersOK
    <3>2. \A i \in 1..MaxLen : at'[<<k, i>>] = at[<<k, i>>] /\ got'[<<k, i>>] = got[<<k, i>>]
      BY <2>2, AttemptFrameAt
    <3>3. list'[k] = list[k]
      BY <1>1
    <3> QED BY <1>1, <3>1, <3>2, <3>3, ShapeKept
  <2> QED BY <2>1, <2>2
<1>5. UNCHANGED <<pc, outcome>> \/ Return(r[1], "panic")
  BY AttemptFrame
<1> QED BY <1>3, <1>4, <1>5

LEMMA CallShapeStep == TypeOK /\ CallShape /\ [Next]_vars => CallShape'
<1> SUFFICES ASSUME TypeOK, CallShape, [Next]_vars PROVE CallShape'
  OBVIOUS
<1>1. ASSUME NEW k \in Calls, NEW l \in Lists, SendRequest(k, l) PROVE CallShape'
  BY <1>1, ShapeOfSend DEF CallShape
<1>2. ASSUME NEW k \in Calls, CallStep(k) PROVE CallShape'
  BY <1>2, ShapeOfCall DEF CallShape
<1>3. ASSUME NEW r \in Req, AttemptStep(r) PROVE CallShape'
  BY <1>3, ShapeOfAttempt DEF CallShape
<1>4. CASE UNCHANGED <<list, pc, outcome, attempts>>
  BY <1>4, ShapeUnmoved
<1>5. ASSUME \/ \E r \in Req, a \in Answers : ResponseEvent(r, a)
             \/ \E m \in replying : DeliverReply(m)
             \/ \E late \in SUBSET idRequest \ {{}} : CleanRequests(late)
             \/ StopCleaning \/ EnvStep \/ UNCHANGED vars
      PROVE  UNCHANGED <<list, pc, outcome, attempts>>
  BY <1>5 DEF ResponseEvent, Forget, DeliverReply, CleanRequests, Forget, StopCleaning, EnvStep, Cancel, Take,
     Disconnect, CloseOutBound, callers, vars
<1> QED BY <1>1, <1>2, <1>3, <1>4, <1>5 DEF Next

----------------------------------------------------------------------------
(* The shape of an attempt is inductive.                                   *)

LEMMA AttemptShapeOfCall ==
  ASSUME TypeOK, CallShape, AttemptShape, NEW k \in Calls,
         CallStep(k) \/ \E l \in Lists : SendRequest(k, l),
         NEW r \in Req
  PROVE  /\ at'[r] # "none" => outcome'[r[1]] # "noChannel"
         /\ r[2] = 1 /\ at'[r] \notin {"none", "exit"} => pc'[r[1]] = "first"
         /\ at'[r] \in {"done", "offer"} => got'[r] # "none"
<1>1. /\ r[1] \in Calls /\ r = <<r[1], r[2]>> /\ r[2] \in 1..MaxLen
      /\ <<k, 1>> \in Req /\ got' = got
  BY ReqParts, FirstReq, CallFrame
<1>2. at'[r] \in {at[r], "exit", "new"}
  BY DEF CallStep, SendRequest, FirstReturns, FanOut, ReceiveReply, SelectCtxDone,
         attempts, TypeOK, AttemptsOK
<1>3. CASE r[1] # k
  <2>1. at'[r] = at[r]
    BY <1>1, <1>3, OthersReq DEF CallStep, SendRequest, FirstReturns, FanOut, ReceiveReply,
       SelectCtxDone, attempts, TypeOK, AttemptsOK
  <2>2. outcome'[r[1]] = outcome[r[1]] /\ pc'[r[1]] = pc[r[1]]
    BY <1>1, <1>3 DEF CallStep, SendRequest, FirstReturns, FanOut, ReceiveReply,
       SelectCtxDone, Return, TypeOK, CallersOK
  <2> QED BY <1>1, <2>1, <2>2 DEF AttemptShape
<1>4. CASE r[1] = k
  <2>0. at'[r] \in {"done", "offer"} => got'[r] # "none"
    BY <1>1, <1>2 DEF AttemptShape
  <2>1. CASE FirstReturns(k)
    <3>1. outcome'[k] = got[<<k, 1>>] /\ at'[<<k, 1>>] = "exit"
      BY <1>1, <2>1 DEF FirstReturns, Return, TypeOK, CallersOK, AttemptsOK
    <3>2. got[<<k, 1>>] # "noChannel"
      BY <1>1 DEF TypeOK, AttemptsOK, Replies, Answers, Failures
    <3> QED BY <1>1, <1>4, <2>0, <3>1, <3>2
  <2>2. CASE FanOut(k)
    <3>1. outcome'[k] = "none" /\ at'[<<k, 1>>] = "exit"
      BY <1>1, <2>2 DEF FanOut, CallShape, ShapeOf, TypeOK, AttemptsOK
    <3> QED BY <1>1, <1>4, <2>0, <3>1
  <2>3. CASE ReceiveReply(k)
    <3>1. PICK q \in Others(k) : /\ pc[k] = "select" /\ Return(k, got[q])
                                /\ at' = [at EXCEPT ![q] = "exit"]
      BY <2>3 DEF ReceiveReply
    <3>2. q \in Req
      BY OthersReq DEF TypeOK
    <3>3. outcome'[k] = got[q] /\ got[q] # "noChannel"
      BY <3>1, <3>2 DEF Return, TypeOK, CallersOK, AttemptsOK, Replies, Answers, Failures
    <3>4. r[2] = 1 => at[r] \in {"none", "exit"}
      BY <1>4, <3>1 DEF AttemptShape
    <3>5. r[2] = 1 => at'[r] \in {"none", "exit"}
      BY <3>1, <3>2, <3>4 DEF TypeOK, AttemptsOK
    <3> QED BY <1>4, <2>0, <3>3, <3>5
  <2>4. CASE SelectCtxDone(k)
    <3>1. outcome'[k] = "canceled" /\ pc[k] = "select" /\ at' = at
      BY <2>4 DEF SelectCtxDone, Return, attempts, TypeOK, CallersOK
    <3>2. r[2] = 1 => at[r] \in {"none", "exit"}
      BY <1>4, <3>1 DEF AttemptShape
    <3> QED BY <1>4, <2>0, <3>1, <3>2
  <2>5. ASSUME NEW l \in Lists, SendRequest(k, l)
        PROVE  /\ at'[r] # "none" => outcome'[r[1]] # "noChannel"
               /\ r[2] = 1 /\ at'[r] \notin {"none", "exit"} => pc'[r[1]] = "first"
    <3>1. pc[k] = "idle" /\ outcome[k] = "none" /\ at[r] = "none"
      BY <1>1, <1>4, <2>5 DEF SendRequest, CallShape, ShapeOf
    <3>2. \/ at' = at
          \/ pc' = [pc EXCEPT ![k] = "first"] /\ outcome' = outcome
      BY <2>5 DEF SendRequest
    <3> QED BY <1>1, <1>4, <3>1, <3>2 DEF TypeOK, CallersOK
  <2> QED BY <2>1, <2>2, <2>3, <2>4, <2>5, <2>0 DEF CallStep
<1> QED BY <1>3, <1>4

LEMMA AttemptShapeOfAttempt ==
  ASSUME TypeOK, AttemptShape, NEW r \in Req, AttemptStep(r)
  PROVE  AttemptShape'
<1>1. /\ at[r] \notin {"none", "exit"} /\ r[1] \in Calls
      /\ \A q \in Req \ {r} : at'[q] = at[q] /\ got'[q] = got[q]
  BY AttemptFrame, ReqParts
<1>2. at'[r] \in {"done", "offer"} => got'[r] # "none"
  <2>1. at'[r] = "done" => GiveUp(r) \/ AcceptReply(r)
    BY DEF AttemptStep, Register, GiveUp, PassCheck, Enqueue, SendPanics, AcceptReply,
       CountFailure, EnterOnce, LeaveOnce, TypeOK, AttemptsOK
  <2>2. at'[r] = "offer" => CountFailure(r) \/ EnterOnce(r)
    BY DEF AttemptStep, Register, GiveUp, PassCheck, Enqueue, SendPanics, AcceptReply,
       CountFailure, EnterOnce, LeaveOnce, TypeOK, AttemptsOK
  <2>3. GiveUp(r) \/ AcceptReply(r) => got'[r] # "none"
    BY DEF GiveUp, AcceptReply, TypeOK, AttemptsOK
  <2>4. at'[r] = "offer" /\ CountFailure(r) => got'[r] # "none"
    BY DEF CountFailure, TypeOK, AttemptsOK
  <2>5. EnterOnce(r) => got'[r] # "none"
    BY DEF EnterOnce, Replies, Answers
  <2> QED BY <2>1, <2>2, <2>3, <2>4, <2>5
<1>3. CASE UNCHANGED <<pc, outcome>>
  BY <1>1, <1>2, <1>3 DEF AttemptShape
<1>4. CASE SendPanics(r) /\ r[2] = 1 /\ Return(r[1], "panic")
  <2>1. at'[r] = "exit"
    BY <1>4 DEF SendPanics, TypeOK, AttemptsOK
  <2>2. \A q \in Req : q[1] \in Calls /\ (q[1] = r[1] /\ q[2] = 1 => q = r)
    BY <1>4 DEF Req
  <2>3. \A j \in Calls : /\ outcome'[j] = IF j = r[1] THEN "panic" ELSE outcome[j]
                         /\ j # r[1] => pc'[j] = pc[j]
    BY <1>4 DEF Return, TypeOK, CallersOK
  <2> QED BY <1>1, <1>2, <2>1, <2>2, <2>3 DEF AttemptShape
<1>5. UNCHANGED <<pc, outcome>> \/ (SendPanics(r) /\ r[2] = 1 /\ Return(r[1], "panic"))
  BY DEF AttemptStep, Register, GiveUp, PassCheck, Enqueue, SendPanics, AcceptReply,
     CountFailure, EnterOnce, LeaveOnce, callers
<1> QED BY <1>3, <1>4, <1>5

LEMMA AttemptShapeStep == TypeOK /\ CallShape /\ AttemptShape /\ [Next]_vars => AttemptShape'
<1> SUFFICES ASSUME TypeOK, CallShape, AttemptShape, [Next]_vars PROVE AttemptShape'
  OBVIOUS
<1>1. ASSUME NEW k \in Calls, CallStep(k) \/ \E l \in Lists : SendRequest(k, l)
      PROVE  AttemptShape'
  BY <1>1, AttemptShapeOfCall DEF AttemptShape
<1>2. ASSUME NEW r \in Req, AttemptStep(r) PROVE AttemptShape'
  BY <1>2, AttemptShapeOfAttempt
<1>3. ASSUME \/ \E r \in Req, a \in Answers : ResponseEvent(r, a)
             \/ \E m \in replying : DeliverReply(m)
             \/ \E late \in SUBSET idRequest \ {{}} : CleanRequests(late)
             \/ StopCleaning \/ EnvStep \/ UNCHANGED vars
      PROVE  AttemptShape'
  <2>1. UNCHANGED <<pc, outcome, at, got>>
    BY <1>3 DEF ResponseEvent, Forget, DeliverReply, CleanRequests, Forget, StopCleaning, EnvStep, Cancel, Take,
       Disconnect, CloseOutBound, callers, attempts, vars
  <2> QED BY <2>1 DEF AttemptShape
<1> QED BY <1>1, <1>2, <1>3 DEF Next

----------------------------------------------------------------------------
(* The reply token is inductive.                                           *)

\* A step that answers nothing and starts only requests not started before.
LEMMA TokenUnmoved ==
  ASSUME ReplyToken, UNCHANGED <<idRequest, result, replying, settled, got>>,
         \A r \in Req : at'[r] \in {"none", "new"} => at[r] \in {"none", "new"}
  PROVE  ReplyToken'
BY DEF ReplyToken

LEMMA TokenOfCall ==
  ASSUME TypeOK, CallShape, ReplyToken, NEW k \in Calls,
         CallStep(k) \/ \E l \in Lists : SendRequest(k, l)
  PROVE  ReplyToken'
<1>1. UNCHANGED <<idRequest, result, replying, settled, got>>
  BY CallFrame DEF registry
<1>2. ASSUME NEW r \in Req, at'[r] \in {"none", "new"} PROVE at[r] \in {"none", "new"}
  <2>1. CASE r \in Others(k) /\ FanOut(k)
    <3>1. r = <<k, r[2]>> /\ r[2] \in 2..MaxLen
      BY <2>1, OthersReq, ReqParts, BoundAssumption DEF TypeOK
    <3> QED BY <2>1, <3>1 DEF FanOut, CallShape, ShapeOf
  <2>2. CASE r = <<k, 1>> /\ pc[k] = "idle"
    BY <2>2, BoundAssumption DEF CallShape, ShapeOf
  <2>3. CASE ~(r \in Others(k) /\ FanOut(k)) /\ ~(r = <<k, 1>> /\ pc[k] = "idle")
    <3>1. at'[r] = at[r] \/ at'[r] = "exit"
      BY <2>3 DEF CallStep, SendRequest, FirstReturns, FanOut, ReceiveReply, SelectCtxDone,
                  attempts, TypeOK, AttemptsOK
    <3> QED BY <1>2, <3>1
  <2> QED BY <2>1, <2>2, <2>3
<1> QED BY <1>1, <1>2, TokenUnmoved

LEMMA TokenOfAttempt ==
  ASSUME TypeOK, ReplyToken, NEW r \in Req, AttemptStep(r) PROVE ReplyToken'
<1>1. \A q \in Req : at'[q] \in {"none", "new"} => at[q] \in {"none", "new"} /\ q # r
  BY AttemptFrame
<1>2. CASE Register(r)
  BY <1>1, <1>2 DEF Register, ReplyToken, TypeOK, AttemptsOK
<1>3. CASE AcceptReply(r)
  <2>1. /\ result[r] # "none" /\ UNCHANGED <<idRequest, replying, settled>>
        /\ result' = [result EXCEPT ![r] = "none"] /\ got' = [got EXCEPT ![r] = result[r]]
    BY <1>3 DEF AcceptReply
  <2>2. \A m \in replying : m.req \in Req /\ m.req # r
    BY <2>1 DEF ReplyToken, TypeOK, RegistryOK
  <2> QED BY <1>1, <2>1, <2>2 DEF ReplyToken, TypeOK, RegistryOK, AttemptsOK
<1>4. CASE GiveUp(r) \/ CountFailure(r)
  <2>1. \A q \in Req : got'[q] \in Replies => got'[q] = got[q]
    BY <1>4 DEF GiveUp, CountFailure, TypeOK, AttemptsOK, Replies, Answers
  <2>2. UNCHANGED <<idRequest, result, replying, settled>>
    BY <1>4 DEF GiveUp, CountFailure, registry
  <2> QED BY <1>1, <2>1, <2>2 DEF ReplyToken, TypeOK, RegistryOK
<1>5. CASE PassCheck(r) \/ Enqueue(r) \/ SendPanics(r) \/ EnterOnce(r) \/ LeaveOnce(r)
  <2>1. UNCHANGED <<idRequest, result, replying, settled, got>>
    BY <1>5 DEF PassCheck, Enqueue, SendPanics, EnterOnce, LeaveOnce, registry
  <2> QED BY <1>1, <2>1, TokenUnmoved
<1> QED BY <1>2, <1>3, <1>4, <1>5 DEF AttemptStep

LEMMA TokenOfResponse ==
  ASSUME TypeOK, ReplyToken, NEW r \in Req, NEW a \in Answers, ResponseEvent(r, a)
  PROVE  ReplyToken'
<1>1. /\ r \in idRequest /\ idRequest' = idRequest \ {r}
      /\ replying' = replying \cup {[req |-> r, ans |-> a]}
      /\ settled' = [settled EXCEPT ![r] = a] /\ UNCHANGED <<result, at, got>>
  BY DEF ResponseEvent, Forget, attempts
<1>2. settled[r] = "none" /\ result[r] = "none" /\ got[r] \notin Replies
  BY <1>1 DEF ReplyToken, TypeOK, RegistryOK, Replies, Answers
<1>3. \A m \in replying : m.req \in Req /\ m.req # r
  BY <1>2 DEF ReplyToken, TypeOK, RegistryOK, Answers
<1>4. \A q \in Req : settled'[q] = IF q = r THEN a ELSE settled[q]
  BY <1>1 DEF TypeOK, RegistryOK
<1>5. at[r] \notin {"none", "new"}
  BY <1>1 DEF ReplyToken
<1> QED BY <1>1, <1>2, <1>3, <1>4, <1>5 DEF ReplyToken, TypeOK, RegistryOK

LEMMA TokenOfDelivery ==
  ASSUME TypeOK, ReplyToken, NEW m \in replying, DeliverReply(m) PROVE ReplyToken'
<1>1. /\ replying' = replying \ {m} /\ UNCHANGED <<idRequest, settled, at, got>>
      /\ result' = [result EXCEPT ![m.req] = IF @ = "none" THEN m.ans ELSE @]
  BY DEF DeliverReply, attempts
<1>2. m.req \in Req /\ settled[m.req] = m.ans /\ got[m.req] \notin Replies
  BY DEF ReplyToken, TypeOK, RegistryOK
<1>3. \A n \in replying : n.req = m.req => n = m
  BY DEF ReplyToken, TypeOK, RegistryOK
<1>4. result[m.req] = "none"
  BY DEF ReplyToken
<1>5. \A q \in Req : result'[q] = IF q = m.req THEN m.ans ELSE result[q]
  BY <1>1, <1>2, <1>4 DEF TypeOK, RegistryOK
<1> QED BY <1>1, <1>2, <1>3, <1>5 DEF ReplyToken, TypeOK, RegistryOK

LEMMA TokenOfTick ==
  ASSUME TypeOK, ReplyToken, NEW late \in SUBSET idRequest, CleanRequests(late)
  PROVE  ReplyToken'
<1>1. \A r \in late : settled[r] = "none" /\ result[r] = "none" /\ got[r] \notin Replies
                     /\ at[r] \notin {"none", "new"} /\ r \in Req
  BY DEF ReplyToken, TypeOK, RegistryOK, Replies, Answers
<1>2. /\ idRequest' = idRequest \ late /\ UNCHANGED <<replying, at, got>>
      /\ \A r \in Req : /\ result'[r] = IF r \in late THEN "timeout" ELSE result[r]
                        /\ settled'[r] = IF r \in late THEN "timeout" ELSE settled[r]
  BY <1>1 DEF CleanRequests, Forget, attempts
<1>3. \A m \in replying : m.req \in Req /\ m.req \notin late
  BY <1>1 DEF ReplyToken, TypeOK, RegistryOK, Answers
<1> QED BY <1>1, <1>2, <1>3 DEF ReplyToken, TypeOK, RegistryOK

\* Steps of the ticker's end and of the environment leave the token alone.
LEMMA TokenOfRest ==
  ASSUME ReplyToken, StopCleaning \/ EnvStep
  PROVE  ReplyToken'
<1>1. UNCHANGED <<idRequest, result, replying, settled, at, got>>
  BY DEF StopCleaning, EnvStep, Cancel, Take, Disconnect, CloseOutBound, registry, attempts
<1> QED BY <1>1, TokenUnmoved

----------------------------------------------------------------------------
(* The inductive invariant and what follows from it.                       *)

IInv == TypeOK /\ CallShape /\ AttemptShape /\ ReplyToken

LEMMA IInvStep == IInv /\ [Next]_vars => IInv'
<1> SUFFICES ASSUME IInv, [Next]_vars PROVE IInv'
  OBVIOUS
<1> USE DEF IInv
<1>1. TypeOK' /\ CallShape' /\ AttemptShape'
  BY TypeStep, CallShapeStep, AttemptShapeStep
<1>2. ASSUME NEW k \in Calls, CallStep(k) \/ \E l \in Lists : SendRequest(k, l)
      PROVE  ReplyToken'
  BY <1>2, TokenOfCall
<1>3. ASSUME NEW r \in Req, AttemptStep(r) PROVE ReplyToken'
  BY <1>3, TokenOfAttempt
<1>4. ASSUME NEW r \in Req, NEW a \in Answers, ResponseEvent(r, a) PROVE ReplyToken'
  BY <1>4, TokenOfResponse
<1>5. ASSUME NEW m \in replying, DeliverReply(m) PROVE ReplyToken'
  BY <1>5, TokenOfDelivery
<1>6. ASSUME NEW late \in SUBSET idRequest, CleanRequests(late) PROVE ReplyToken'
  BY <1>6, TokenOfTick
<1>7. CASE StopCleaning \/ EnvStep
  BY <1>1, <1>7, TokenOfRest
<1>8. CASE UNCHANGED vars
  BY <1>1, <1>8, TokenUnmoved DEF vars, registry, attempts
<1>9. ReplyToken'
  BY <1>2, <1>3, <1>4, <1>5, <1>6, <1>7, <1>8 DEF Next
<1> QED BY <1>1, <1>9

LEMMA IInvInit == Init => IInv
<1> SUFFICES ASSUME Init PROVE IInv
  OBVIOUS
<1>1. TypeOK
  BY InitType
<1>2. CallShape
  BY BoundAssumption DEF Init, CallShape, ShapeOf, Req, Replies, Answers
<1>3. ReplyToken /\ AttemptShape
  BY ReqParts DEF Init, ReplyToken, AttemptShape, Replies, Answers
<1> QED BY <1>1, <1>2, <1>3 DEF IInv

LEMMA IInvHolds == Spec => []IInv
BY IInvInit, IInvStep, PTL DEF Spec

\* The reply of a request is a token that exists once.
THEOREM ReplyTokenHolds == Spec => []ReplyToken
BY IInvHolds, PTL DEF IInv

\* No call returns a reply before its turn, and what it returned stays with it.
THEOREM CallShapeHolds == Spec => []CallShape
BY IInvHolds, PTL DEF IInv

\* Neither non-blocking send on a Result channel ever drops a response.
THEOREM NothingIsDropped == Spec => []NoReplyDropped
<1>1. IInv => NoReplyDropped
  BY DEF IInv, TypeOK, RegistryOK, ReplyToken, NoReplyDropped, Answers
<1> QED BY <1>1, IInvHolds, PTL

\* A reply a call returns settled one of its own requests.
THEOREM RepliesAreOwn == Spec => []ReplyIsOwn
<1>1. ASSUME IInv PROVE ReplyIsOwn
  <2> SUFFICES ASSUME NEW k \in Calls, outcome[k] \in Replies
               PROVE  \E i \in 1..Len(list[k]) :
                        got[<<k, i>>] = outcome[k] /\ settled[<<k, i>>] = outcome[k]
    BY DEF ReplyIsOwn
  <2>1. PICK i \in 1..Len(list[k]) : got[<<k, i>>] = outcome[k]
    BY <1>1 DEF IInv, CallShape, ShapeOf
  <2>2. <<k, i>> \in Req
    BY <1>1, OthersReq, BoundAssumption DEF IInv, TypeOK, Req
  <2> QED BY <1>1, <2>1, <2>2 DEF IInv, ReplyToken
<1> QED BY <1>1, IInvHolds, PTL

\* Only the entry's removal settles a request.
LEMMA SettledFrame ==
  ASSUME TypeOK, [Next]_vars, NEW q \in Req
  PROVE  \/ settled'[q] = settled[q]
         \/ q \in idRequest /\ q \notin idRequest'
<1>1. ASSUME NEW k \in Calls, CallStep(k) \/ \E l \in Lists : SendRequest(k, l)
      PROVE  UNCHANGED settled
  BY <1>1, CallFrame DEF registry
<1>2. ASSUME NEW r \in Req, AttemptStep(r) PROVE UNCHANGED settled
  BY <1>2, AttemptFrame
<1>3. ASSUME NEW r \in Req, NEW a \in Answers, ResponseEvent(r, a)
      PROVE  settled'[q] = settled[q] \/ (q \in idRequest /\ q \notin idRequest')
  <2>1. /\ r \in idRequest /\ idRequest' = idRequest \ {r}
        /\ settled' = [settled EXCEPT ![r] = a]
    BY <1>3 DEF ResponseEvent, Forget
  <2> QED BY <2>1 DEF TypeOK, RegistryOK
<1>4. ASSUME NEW late \in SUBSET idRequest, CleanRequests(late)
      PROVE  settled'[q] = settled[q] \/ (q \in idRequest /\ q \notin idRequest')
  <2>1. idRequest' = idRequest \ late
    BY <1>4 DEF CleanRequests, Forget
  <2>2. settled'[q] = IF q \in late THEN "timeout" ELSE settled[q]
    BY <1>4 DEF CleanRequests, Forget
  <2> QED BY <2>1, <2>2
<1>5. CASE \/ \E m \in replying : DeliverReply(m)
           \/ StopCleaning \/ EnvStep \/ UNCHANGED vars
  BY <1>5 DEF DeliverReply, StopCleaning, EnvStep, Cancel, Take, Disconnect, CloseOutBound,
     registry, vars
<1> QED BY <1>1, <1>2, <1>3, <1>4, <1>5 DEF Next

\* What settled a request, an answer or a timeout, is never replaced.
THEOREM SettledForGood == Spec => SettledOnce
<1>1. ASSUME IInv, [Next]_vars, NEW r \in Req, settled[r] # "none"
      PROVE  settled'[r] = settled[r]
  <2>1. r \notin idRequest
    BY <1>1 DEF IInv, ReplyToken
  <2> QED BY <1>1, <2>1, SettledFrame DEF IInv
<1>2. IInv /\ [Next]_vars => [\A r \in Req : settled[r] # "none" => settled'[r] = settled[r]]_vars
  BY <1>1
<1> QED BY <1>2, IInvHolds, PTL DEF Spec, SettledOnce

----------------------------------------------------------------------------
(* The broker implements RequestReply: each step is one of its actions or  *)
(* a stutter.                                                              *)

\* A step that moves no attempt to or from "none" or "new", settles nothing and
\* moves no call stutters.
LEMMA PromiseStutter ==
  ASSUME UNCHANGED <<pc, outcome, settled>>,
         \A r \in Req : at'[r] \in {"none", "new"} <=> at[r] \in {"none", "new"}
  PROVE  UNCHANGED <<slotOf, statusOf>>
BY DEF slotOf, statusOf

\* A call that returns o moves from "pending" to o and touches no register.
LEMMA PromiseReturn ==
  ASSUME TypeOK, NEW k \in Calls, NEW o, Return(k, o), pc[k] \in {"first", "select"},
         UNCHANGED settled,
         \A r \in Req : at'[r] \in {"none", "new"} <=> at[r] \in {"none", "new"}
  PROVE  /\ statusOf[k] = "pending" /\ statusOf' = [statusOf EXCEPT ![k] = o]
         /\ UNCHANGED slotOf
<1>1. UNCHANGED slotOf
  BY DEF slotOf
<1>2. /\ pc'[k] = "returned" /\ outcome'[k] = o
      /\ \A j \in Calls \ {k} : pc'[j] = pc[j] /\ outcome'[j] = outcome[j]
  BY DEF Return, TypeOK, CallersOK
<1> QED BY <1>1, <1>2 DEF statusOf

\* Of the attempts that are over, the register holds the reply they got.
LEMMA SlotOfGot ==
  ASSUME IInv, NEW r \in Req, at[r] \in {"done", "offer"}
  PROVE  \/ got[r] \in Replies /\ slotOf[r] = got[r]
         \/ got[r] \in Failures \cup {"allFailed"}
<1>1. got[r] # "none"
  BY DEF IInv, AttemptShape
<1>2. got[r] \in Replies => settled[r] = got[r]
  BY DEF IInv, ReplyToken
<1>3. got[r] \in Replies \cup Failures \cup {"allFailed", "none"}
  BY DEF IInv, TypeOK, AttemptsOK
<1> QED BY <1>1, <1>2, <1>3 DEF slotOf, Replies, Answers

\* So a call that returns what such an attempt got takes a step of RequestReply.
LEMMA PromiseReply ==
  ASSUME IInv, NEW k \in Calls, NEW i \in 1..MaxLen, at[<<k, i>>] \in {"done", "offer"},
         Return(k, got[<<k, i>>]), pc[k] \in {"first", "select"}, UNCHANGED settled,
         at' = [at EXCEPT ![<<k, i>>] = "exit"]
  PROVE  Promise!Next
<1> DEFINE r == <<k, i>>
<1>1. r \in Req
  BY DEF Req
<1>2. \A q \in Req : at'[q] \in {"none", "new"} <=> at[q] \in {"none", "new"}
  BY <1>1 DEF IInv, TypeOK, AttemptsOK
<1>3. /\ statusOf[k] = "pending" /\ statusOf' = [statusOf EXCEPT ![k] = got[r]]
      /\ UNCHANGED slotOf
  BY <1>2, PromiseReturn DEF IInv
<1>4. CASE got[r] \in Replies /\ slotOf[r] = got[r]
  BY <1>3, <1>4 DEF Promise!Next, Promise!Reply, Replies
<1>5. CASE got[r] \in Failures \cup {"allFailed"}
  BY <1>3, <1>5 DEF Promise!Next, Promise!Fail
<1> QED BY <1>1, <1>4, <1>5, SlotOfGot

LEMMA PromiseOfSend ==
  ASSUME IInv, NEW k \in Calls, NEW l \in Lists, SendRequest(k, l)
  PROVE  Promise!Next
<1> USE DEF IInv
<1>1. pc[k] = "idle" /\ UNCHANGED settled /\ <<k, 1>> \in Req /\ at[<<k, 1>>] = "none"
  BY FirstReq, BoundAssumption DEF SendRequest, registry, CallShape, ShapeOf
<1>2. \A r \in Req : at'[r] \in {"none", "new"} <=> at[r] \in {"none", "new"}
  BY <1>1 DEF SendRequest, TypeOK, AttemptsOK
<1>3. UNCHANGED slotOf /\ statusOf[k] = "idle"
  BY <1>1, <1>2 DEF slotOf, statusOf
<1>4. CASE Return(k, "noChannel")
  <2>1. /\ pc'[k] = "returned" /\ outcome'[k] = "noChannel"
        /\ \A j \in Calls \ {k} : pc'[j] = pc[j] /\ outcome'[j] = outcome[j]
    BY <1>4 DEF Return, TypeOK, CallersOK
  <2>2. statusOf' = [statusOf EXCEPT ![k] = "noChannel"]
    BY <2>1 DEF statusOf
  <2> QED BY <1>3, <2>2 DEF Promise!Next, Promise!Refuse
<1>5. CASE pc' = [pc EXCEPT ![k] = "first"] /\ UNCHANGED outcome
  <2>1. statusOf' = [statusOf EXCEPT ![k] = "pending"]
    BY <1>5 DEF statusOf, TypeOK, CallersOK
  <2> QED BY <1>3, <2>1 DEF Promise!Next, Promise!Ask
<1> QED BY <1>4, <1>5 DEF SendRequest

LEMMA PromiseOfCall ==
  ASSUME IInv, NEW k \in Calls, CallStep(k)
  PROVE  Promise!Next \/ UNCHANGED <<slotOf, statusOf>>
<1> USE DEF IInv
<1>1. UNCHANGED settled
  BY CallFrame DEF registry
<1>2. CASE FirstReturns(k)
  <2>1. /\ pc[k] = "first" /\ at[<<k, 1>>] = "done" /\ Return(k, got[<<k, 1>>])
        /\ at' = [at EXCEPT ![<<k, 1>>] = "exit"]
    BY <1>2 DEF FirstReturns
  <2>2. 1 \in 1..MaxLen
    BY BoundAssumption
  <2> QED BY <1>1, <2>1, <2>2, PromiseReply
<1>3. CASE FanOut(k)
  <2>1. \A r \in Others(k) : r \in Req /\ at[r] = "none"
    <3>1. \A r \in Others(k) : r \in Req /\ r = <<k, r[2]>> /\ r[2] \in 2..MaxLen
      BY OthersReq, ReqParts, BoundAssumption DEF TypeOK
    <3> QED BY <1>3, <3>1 DEF FanOut, CallShape, ShapeOf
  <2>2. \A r \in Req : at'[r] \in {"none", "new"} <=> at[r] \in {"none", "new"}
    BY <1>3, <2>1 DEF FanOut
  <2>3. /\ pc[k] = "first" /\ pc' = [pc EXCEPT ![k] = "select"] /\ UNCHANGED outcome
    BY <1>3 DEF FanOut
  <2>4. UNCHANGED <<slotOf, statusOf>>
    BY <1>1, <2>2, <2>3 DEF slotOf, statusOf, TypeOK, CallersOK
  <2> QED BY <2>4
<1>4. CASE ReceiveReply(k)
  <2>1. PICK r \in Others(k) : /\ pc[k] = "select" /\ at[r] = "offer" /\ Return(k, got[r])
                              /\ at' = [at EXCEPT ![r] = "exit"]
    BY <1>4 DEF ReceiveReply
  <2>2. r = <<k, r[2]>> /\ r[2] \in 1..MaxLen
    BY OthersReq, ReqParts, BoundAssumption DEF TypeOK
  <2> QED BY <1>1, <2>1, <2>2, PromiseReply
<1>5. CASE SelectCtxDone(k)
  <2>1. pc[k] = "select" /\ Return(k, "canceled") /\ at' = at
    BY <1>5 DEF SelectCtxDone, attempts
  <2>2. /\ statusOf[k] = "pending" /\ statusOf' = [statusOf EXCEPT ![k] = "canceled"]
        /\ UNCHANGED slotOf
    BY <1>1, <2>1, PromiseReturn
  <2> QED BY <2>2 DEF Promise!Next, Promise!Fail, Failures
<1> QED BY <1>2, <1>3, <1>4, <1>5 DEF CallStep

LEMMA PromiseOfAttempt ==
  ASSUME IInv, NEW r \in Req, AttemptStep(r)
  PROVE  Promise!Next \/ UNCHANGED <<slotOf, statusOf>>
<1> USE DEF IInv
<1>1. UNCHANGED settled /\ r[1] \in Calls
  BY AttemptFrame, ReqParts
<1>2. CASE Register(r)
  <2>1. /\ at[r] = "new" /\ at' = [at EXCEPT ![r] = "check"] /\ UNCHANGED <<pc, outcome>>
    BY <1>2 DEF Register, callers
  <2>2. settled[r] = "none" /\ outcome[r[1]] # "noChannel"
    BY <2>1 DEF ReplyToken, AttemptShape
  <2>3. pc[r[1]] # "idle"
    BY <2>1, ReqParts DEF CallShape, ShapeOf
  <2>4. slotOf[r] = "unsent" /\ slotOf' = [slotOf EXCEPT ![r] = "open"] /\ UNCHANGED statusOf
    BY <1>1, <2>1, <2>2 DEF slotOf, statusOf, TypeOK, AttemptsOK
  <2>5. statusOf[r[1]] \notin {"idle", "noChannel"}
    BY <1>1, <2>2, <2>3 DEF statusOf, CallShape, ShapeOf, TypeOK, CallersOK, Outcomes, Replies,
       Answers, Failures
  <2>6. r \in Promise!Req
    BY DEF Req, Promise!Req
  <2> QED BY <2>4, <2>5, <2>6 DEF Promise!Next, Promise!Open
<1>3. CASE ~Register(r)
  <2>1. at[r] \notin {"none", "new"} /\ at'[r] \notin {"none", "new"}
    BY <1>3, AttemptFrame DEF AttemptStep, GiveUp, PassCheck, Enqueue, SendPanics, AcceptReply,
       CountFailure, EnterOnce, LeaveOnce
  <2>2. \A q \in Req : at'[q] \in {"none", "new"} <=> at[q] \in {"none", "new"}
    BY <2>1, AttemptFrame
  <2>3. CASE UNCHANGED <<pc, outcome>>
    BY <1>1, <2>2, <2>3, PromiseStutter
  <2>4. CASE SendPanics(r) /\ r[2] = 1 /\ Return(r[1], "panic")
    <3>1. pc[r[1]] = "first"
      BY <2>4 DEF SendPanics, AttemptShape
    <3>2. /\ statusOf[r[1]] = "pending" /\ statusOf' = [statusOf EXCEPT ![r[1]] = "panic"]
          /\ UNCHANGED slotOf
      BY <1>1, <2>2, <2>4, <3>1, PromiseReturn
    <3> QED BY <1>1, <3>2 DEF Promise!Next, Promise!Fail
  <2>5. UNCHANGED <<pc, outcome>> \/ (SendPanics(r) /\ r[2] = 1 /\ Return(r[1], "panic"))
    BY DEF AttemptStep, Register, GiveUp, PassCheck, Enqueue, SendPanics, AcceptReply,
       CountFailure, EnterOnce, LeaveOnce, callers
  <2> QED BY <2>3, <2>4, <2>5
<1> QED BY <1>2, <1>3

LEMMA PromiseOfResponse ==
  ASSUME IInv, NEW r \in Req, NEW a \in Answers, ResponseEvent(r, a)
  PROVE  Promise!Next
<1> USE DEF IInv
<1>1. /\ r \in idRequest /\ settled' = [settled EXCEPT ![r] = a] /\ UNCHANGED <<at, pc, outcome>>
  BY DEF ResponseEvent, Forget, attempts, callers
<1>2. settled[r] = "none" /\ at[r] \notin {"none", "new"}
  BY <1>1 DEF ReplyToken
<1>3. slotOf[r] = "open" /\ slotOf' = [slotOf EXCEPT ![r] = a] /\ UNCHANGED statusOf
  BY <1>1, <1>2 DEF slotOf, statusOf, TypeOK, RegistryOK, Answers
<1>4. r \in Promise!Req
  BY DEF Req, Promise!Req
<1> QED BY <1>3, <1>4 DEF Promise!Next, Promise!Answer

LEMMA PromiseOfTick ==
  ASSUME IInv, NEW late \in SUBSET idRequest, CleanRequests(late)
  PROVE  Promise!Next
<1> USE DEF IInv
<1>1. /\ UNCHANGED <<at, pc, outcome>>
      /\ settled' = [r \in Req |-> IF r \in late THEN "timeout" ELSE settled[r]]
  BY DEF CleanRequests, Forget, attempts, callers
<1>2. \A r \in late : r \in Req /\ settled[r] = "none" /\ at[r] \notin {"none", "new"}
  BY DEF ReplyToken, TypeOK, RegistryOK
<1>3. late \in SUBSET Promise!Req /\ Promise!Req = Req
  BY <1>2 DEF Req, Promise!Req
<1>4. \A r \in late : slotOf[r] = "open"
  BY <1>2 DEF slotOf
<1>5. slotOf' = [r \in Req |-> IF r \in late THEN "timeout" ELSE slotOf[r]]
  BY <1>1, <1>2 DEF slotOf
<1>6. UNCHANGED statusOf
  BY <1>1 DEF statusOf
<1> QED BY <1>3, <1>4, <1>5, <1>6 DEF Promise!Next, Promise!TimeOut

\* The request broker keeps what RequestReply promises: a request is settled at
\* most once, and a call returns once, an error or a reply of its own.
THEOREM BrokerKeepsPromise == Spec => KeepsPromise
<1>1. Init => Promise!Init
  BY DEF Init, Promise!Init, slotOf, statusOf, Req, Promise!Req
<1>2. ASSUME IInv, [Next]_vars PROVE Promise!Next \/ UNCHANGED <<slotOf, statusOf>>
  <2>1. ASSUME NEW k \in Calls, NEW l \in Lists, SendRequest(k, l) PROVE Promise!Next
    BY <1>2, <2>1, PromiseOfSend
  <2>2. ASSUME NEW k \in Calls, CallStep(k)
        PROVE  Promise!Next \/ UNCHANGED <<slotOf, statusOf>>
    BY <1>2, <2>2, PromiseOfCall
  <2>3. ASSUME NEW r \in Req, AttemptStep(r)
        PROVE  Promise!Next \/ UNCHANGED <<slotOf, statusOf>>
    BY <1>2, <2>3, PromiseOfAttempt
  <2>4. ASSUME NEW r \in Req, NEW a \in Answers, ResponseEvent(r, a) PROVE Promise!Next
    BY <1>2, <2>4, PromiseOfResponse
  <2>5. ASSUME NEW late \in SUBSET idRequest, CleanRequests(late) PROVE Promise!Next
    BY <1>2, <2>5, PromiseOfTick
  <2>6. ASSUME \/ \E m \in replying : DeliverReply(m)
               \/ StopCleaning \/ EnvStep \/ UNCHANGED vars
        PROVE  UNCHANGED <<slotOf, statusOf>>
    <3>1. UNCHANGED <<pc, outcome, settled, at>>
      BY <2>6 DEF DeliverReply, StopCleaning, EnvStep, Cancel, Take, Disconnect, CloseOutBound,
         registry, callers, attempts, vars
    <3> QED BY <3>1, PromiseStutter
  <2> QED BY <1>2, <2>1, <2>2, <2>3, <2>4, <2>5, <2>6 DEF Next
<1>3. IInv /\ [Next]_vars => [Promise!Next]_<<slotOf, statusOf>>
  BY <1>2
<1> QED BY <1>1, <1>3, IInvHolds, PTL DEF Spec, KeepsPromise, Promise!Spec
----------------------------------------------------------------------------
(* The fan-out, for lists of any length.                                   *)
(*                                                                         *)
(* The argument: errRespCount is the number of positions whose failure has *)
(* been counted, so it reaches the number of goroutines only when all of   *)
(* them have failed; and respOnce names the only position that may offer a *)
(* reply.  Hence one goroutine at most sends on respCh, and once the call  *)
(* has received from it no other ever will.                                *)

\* A failed attempt names its cause, and only a position of the list is tried.
Caused(k) ==
    \A i \in 1..MaxLen :
        /\ at[<<k, i>>] # "none" => i <= Len(list[k])
        /\ at[<<k, i>>] \in {"none", "new", "check", "send", "wait"} => got[<<k, i>>] = "none"
        /\ got[<<k, i>>] = "closed" => list[k][i] \in ctxDone
        /\ got[<<k, i>>] = "canceled" => k \in canceled

\* The other channels are tried after the first one's stream has ended.
Retried(k) ==
    \A i \in 2..MaxLen :
        at[<<k, i>>] # "none" => at[<<k, 1>>] = "exit" /\ got[<<k, 1>>] = "closed"

\* The positions whose failure errRespCount has counted.
Counted(k) ==
    {i \in 2..Len(list[k]) :
        got[<<k, i>>] = "allFailed" \/ (at[<<k, i>>] = "exit" /\ got[<<k, i>>] \in Failures)}

AllFailed(k) ==
    \A i \in 1..MaxLen : got[<<k, i>>] = "allFailed" =>
        /\ i > 1
        /\ \A j \in 2..Len(list[k]) : j # i => at[<<k, j>>] = "exit" /\ got[<<k, j>>] \in Failures

\* Who offers: the last to fail, or the one inside respOnce.
Offered(k) ==
    \A i \in 1..MaxLen : at[<<k, i>>] = "offer" =>
        i > 1 /\ (got[<<k, i>>] = "allFailed" \/ (got[<<k, i>>] \in Replies /\ respOnce[k] = i))

\* What a call that returned, other than by its context, leaves behind.
Received(k) ==
    pc[k] = "returned" /\ outcome[k] # "canceled" =>
        \/ \A i \in 2..MaxLen : at[<<k, i>>] = "none"
        \/ \E i \in 2..Len(list[k]) :
              /\ at[<<k, i>>] = "exit"
              /\ got[<<k, i>>] = "allFailed" \/ (got[<<k, i>>] \in Replies /\ respOnce[k] = i)

FanOf(k) ==
    /\ Caused(k) /\ Retried(k) /\ errRespCount[k] = Cardinality(Counted(k))
    /\ AllFailed(k) /\ Offered(k) /\ Received(k)

FanShape == \A k \in Calls : FanOf(k)

\* Every position of a call's list names a request.
LEMMA Position ==
  ASSUME TypeOK, NEW k \in Calls
  PROVE  /\ Len(list[k]) \in 0..MaxLen
         /\ \A i \in 1..MaxLen : <<k, i>> \in Req
         /\ \A i \in 2..MaxLen : i \in 1..MaxLen
         /\ \A i \in 2..Len(list[k]) : i \in 2..MaxLen
BY OthersReq, BoundAssumption DEF TypeOK, Req

LEMMA CountedFinite ==
  ASSUME NEW k \in Calls, NEW n \in Nat, NEW S \in SUBSET (2..n), n > 0
  PROVE  /\ IsFiniteSet(S) /\ Cardinality(S) \in Nat
         /\ Cardinality(S) = n - 1 => S = 2..n
<1>1. IsFiniteSet(2..n) /\ Cardinality(2..n) = n - 1
  BY FS_Interval
<1>2. IsFiniteSet(S) /\ (Cardinality(2..n) = Cardinality(S) => S = 2..n)
  BY <1>1, FS_Subset
<1> QED BY <1>1, <1>2, FS_CardinalityType

\* A call of which nothing changes but contexts, which only end, keeps its shape.
LEMMA FanKept ==
  ASSUME NEW k \in Calls, TypeOK, FanOf(k),
         pc'[k] = pc[k], list'[k] = list[k], outcome'[k] = outcome[k],
         errRespCount'[k] = errRespCount[k], respOnce'[k] = respOnce[k],
         \A i \in 1..MaxLen : at'[<<k, i>>] = at[<<k, i>>] /\ got'[<<k, i>>] = got[<<k, i>>],
         ctxDone \subseteq ctxDone', canceled \subseteq canceled'
  PROVE  FanOf(k)'
<1> USE Position
<1>1. Caused(k)'
  BY DEF FanOf, Caused
<1>2. Retried(k)'
  BY BoundAssumption DEF FanOf, Retried
<1>3. Counted(k)' = Counted(k)
  BY DEF Counted
<1>4. AllFailed(k)'
  BY DEF FanOf, AllFailed
<1>5. Offered(k)'
  BY DEF FanOf, Offered
<1>6. Received(k)'
  BY DEF FanOf, Received
<1> QED BY <1>1, <1>2, <1>3, <1>4, <1>5, <1>6 DEF FanOf

\* A call whose other positions have not been tried.
LEMMA FanUntried ==
  ASSUME NEW k \in Calls, Len(list'[k]) \in 0..MaxLen, Caused(k)',
         \A i \in 2..MaxLen : at'[<<k, i>>] \in {"none", "new"},
         \A i \in 1..MaxLen : at'[<<k, i>>] # "offer" /\ got'[<<k, i>>] # "allFailed",
         Retried(k)', errRespCount'[k] = 0,
         \/ pc'[k] # "returned" \/ outcome'[k] = "canceled"
         \/ \A i \in 2..MaxLen : at'[<<k, i>>] = "none"
  PROVE  FanOf(k)'
<1>1. \A i \in 2..Len(list'[k]) : i \in 2..MaxLen /\ i \in 1..MaxLen
  BY BoundAssumption
<1>2. Counted(k)' = {}
  BY <1>1 DEF Counted, Caused, Failures
<1>3. Cardinality(Counted(k)') = 0
  BY <1>2, FS_EmptySet
<1>4. AllFailed(k)' /\ Offered(k)' /\ Received(k)'
  BY DEF AllFailed, Offered, Received
<1> QED BY <1>3, <1>4 DEF FanOf

\* What an idle or a first call says of the positions it has not tried.
LEMMA Untried ==
  ASSUME IInv, NEW k \in Calls, FanOf(k)
  PROVE  /\ pc[k] = "idle" => errRespCount[k] = 0 /\ \A i \in 1..MaxLen : at[<<k, i>>] = "none"
         /\ pc[k] = "first" => errRespCount[k] = 0 /\ \A i \in 2..MaxLen : at[<<k, i>>] = "none"
<1> USE Position DEF IInv
<1>1. pc[k] \in {"idle", "first"} => \A i \in 2..MaxLen : at[<<k, i>>] = "none" /\ got[<<k, i>>] = "none"
  BY DEF CallShape, ShapeOf, FanOf, Caused
<1>2. pc[k] \in {"idle", "first"} => Counted(k) = {}
  BY <1>1 DEF Counted, Failures
<1>3. pc[k] \in {"idle", "first"} => errRespCount[k] = 0
  BY <1>2, FS_EmptySet DEF FanOf
<1> QED BY <1>1, <1>3 DEF CallShape, ShapeOf

LEMMA FanOfSend ==
  ASSUME IInv, NEW j \in Calls, NEW l \in Lists, SendRequest(j, l), NEW k \in Calls, FanOf(k)
  PROVE  FanOf(k)'
<1> USE DEF IInv
<1>1. UNCHANGED <<got, ctxDone, errRespCount, respOnce, canceled>>
  BY DEF SendRequest, Return, streams
<1>2. CASE k # j
  <2>1. pc'[k] = pc[k] /\ list'[k] = list[k] /\ outcome'[k] = outcome[k]
    BY <1>2 DEF SendRequest, Return, TypeOK, CallersOK
  <2>2. \A i \in 1..MaxLen : at'[<<k, i>>] = at[<<k, i>>]
    BY <1>2, Position DEF SendRequest, TypeOK, AttemptsOK
  <2> QED BY <1>1, <2>1, <2>2, FanKept
<1>3. CASE k = j
  <2>1. pc[k] = "idle" /\ errRespCount[k] = 0 /\ \A i \in 1..MaxLen : at[<<k, i>>] = "none"
    BY <1>3, Untried DEF SendRequest
  <2>2. \A i \in 1..MaxLen : got[<<k, i>>] = "none"
    BY <2>1 DEF FanOf, Caused
  <2>3. \A i \in 1..MaxLen : at'[<<k, i>>] = "none" \/ (i = 1 /\ at'[<<k, i>>] = "new" /\ 1 <= Len(list'[k]))
    <3>1. CASE UNCHANGED at
      BY <2>1, <3>1
    <3>2. CASE l # <<>> /\ list' = [list EXCEPT ![j] = l] /\ at' = [at EXCEPT ![<<j, 1>>] = "new"]
      <4>1. list'[k] = l /\ l \in Seq(Channels) /\ Len(l) \in Nat
        BY <1>3, <3>2, ListLen DEF TypeOK, CallersOK
      <4>2. Len(l) # 0
        BY <3>2, <4>1, EmptySeq
      <4> QED BY <1>3, <2>1, <3>2, <4>1, <4>2, Position DEF TypeOK, AttemptsOK
    <3> QED BY <3>1, <3>2 DEF SendRequest
  <2>4. Len(list'[k]) \in 0..MaxLen
    <3>1. list'[k] \in Lists \cup {<<>>}
      BY DEF SendRequest, Return, TypeOK, CallersOK
    <3> QED BY <3>1, ListLen
  <2>5. Caused(k)' /\ Retried(k)'
    BY <1>1, <2>2, <2>3, <2>4, Position DEF Caused, Retried
  <2>6. pc'[k] # "returned" \/ \A i \in 2..MaxLen : at'[<<k, i>>] = "none"
    BY <2>3, Position
  <2>7. \A i \in 1..MaxLen : at'[<<k, i>>] # "offer" /\ got'[<<k, i>>] # "allFailed"
    BY <1>1, <2>2, <2>3
  <2>8. errRespCount'[k] = 0 /\ \A i \in 2..MaxLen : at'[<<k, i>>] \in {"none", "new"}
    BY <1>1, <2>1, <2>3, Position
  <2> QED BY <2>4, <2>5, <2>6, <2>7, <2>8, FanUntried
<1> QED BY <1>2, <1>3

LEMMA FanOfCall ==
  ASSUME IInv, NEW j \in Calls, CallStep(j), NEW k \in Calls, FanOf(k)
  PROVE  FanOf(k)'
<1> USE DEF IInv
<1>1. UNCHANGED <<got, list, ctxDone, errRespCount, respOnce, canceled>>
  BY DEF CallStep, FirstReturns, FanOut, ReceiveReply, SelectCtxDone, Return, streams, attempts
<1>2. CASE k # j
  <2>1. pc'[k] = pc[k] /\ outcome'[k] = outcome[k]
    BY <1>2 DEF CallStep, FirstReturns, FanOut, ReceiveReply, SelectCtxDone, Return, TypeOK, CallersOK
  <2>2. \A i \in 1..MaxLen : at'[<<k, i>>] = at[<<k, i>>]
    BY <1>2, Position, OthersReq DEF CallStep, FirstReturns, FanOut, ReceiveReply, SelectCtxDone,
       attempts, TypeOK, AttemptsOK, Others
  <2> QED BY <1>1, <2>1, <2>2, FanKept
<1>3. CASE k = j /\ FirstReturns(k)
  <2>1. /\ pc[k] = "first" /\ at[<<k, 1>>] = "done"
        /\ at' = [at EXCEPT ![<<k, 1>>] = "exit"]
    BY <1>3 DEF FirstReturns
  <2>2. errRespCount[k] = 0 /\ \A i \in 2..MaxLen : at[<<k, i>>] = "none"
    BY <2>1, Untried
  <2>3. /\ \A i \in 2..MaxLen : at'[<<k, i>>] = "none"
        /\ at'[<<k, 1>>] = "exit"
    BY <2>1, <2>2, Position, BoundAssumption DEF TypeOK, AttemptsOK
  <2>4. \A i \in 1..MaxLen : i = 1 \/ i \in 2..MaxLen
    BY BoundAssumption
  <2>5. \A i \in 1..MaxLen : at'[<<k, i>>] # "offer" /\ got[<<k, i>>] # "allFailed"
    <3>1. got[<<k, 1>>] # "allFailed"
      BY BoundAssumption DEF FanOf, AllFailed
    <3> QED BY <2>2, <2>3, <2>4, <3>1 DEF FanOf, Caused
  <2>6. Caused(k)' /\ Retried(k)'
    BY <1>1, <2>1, <2>2, <2>3, <2>4, BoundAssumption DEF FanOf, Caused, Retried
  <2>7. Len(list'[k]) \in 0..MaxLen /\ errRespCount'[k] = 0
    BY <1>1, <2>2, Position
  <2> QED BY <1>1, <2>3, <2>5, <2>6, <2>7, FanUntried
<1>4. CASE k = j /\ FanOut(k)
  <2>1. /\ pc[k] = "first" /\ at[<<k, 1>>] = "done" /\ got[<<k, 1>>] \in Failures /\ k \notin canceled
        /\ pc'[k] = "select"
    BY <1>4 DEF FanOut, Retriable, TypeOK, CallersOK
  <2>2. errRespCount[k] = 0 /\ \A i \in 2..MaxLen : at[<<k, i>>] = "none"
    BY <2>1, Untried
  <2>3. got[<<k, 1>>] = "closed"
    BY <2>1, BoundAssumption DEF FanOf, Caused, Failures
  <2>4. /\ at'[<<k, 1>>] = "exit"
        /\ \A i \in 2..MaxLen : at'[<<k, i>>] = IF i <= Len(list[k]) THEN "new" ELSE "none"
    <3>1. at' = [r \in Req |-> IF r = <<k, 1>> THEN "exit"
                               ELSE IF r \in Others(k) THEN "new" ELSE at[r]]
      BY <1>4 DEF FanOut
    <3>2. \A i \in 2..MaxLen : <<k, i>> \in Others(k) <=> i <= Len(list[k])
      BY Position DEF Others
    <3> QED BY <2>2, <3>1, <3>2, Position, BoundAssumption
  <2>5. \A i \in 1..MaxLen : i = 1 \/ i \in 2..MaxLen
    BY BoundAssumption
  <2>6. \A i \in 1..MaxLen : at'[<<k, i>>] # "offer" /\ got[<<k, i>>] # "allFailed"
    BY <2>2, <2>3, <2>4, <2>5 DEF FanOf, Caused
  <2>7. Caused(k)' /\ Retried(k)'
    <3>1. \A i \in 2..MaxLen : got[<<k, i>>] = "none"
      BY <2>2, Position DEF FanOf, Caused
    <3>2. at[<<k, 1>>] # "none" /\ (at[<<k, 1>>] # "none" => 1 <= Len(list[k])) /\ list[k][1] \in ctxDone
      BY <2>1, <2>3, BoundAssumption DEF FanOf, Caused
    <3>3. Caused(k)'
      BY <1>1, <2>3, <2>4, <2>5, <3>1, <3>2 DEF Caused
    <3> QED BY <1>1, <2>3, <2>4, <3>3 DEF Retried
  <2>8. Len(list'[k]) \in 0..MaxLen /\ errRespCount'[k] = 0
    BY <1>1, <2>2, Position
  <2>9. \A i \in 2..MaxLen : at'[<<k, i>>] \in {"none", "new"}
    BY <2>4
  <2> QED BY <1>1, <2>1, <2>6, <2>7, <2>8, <2>9, FanUntried
<1>5. CASE k = j /\ ReceiveReply(k)
  <2>1. PICK r \in Others(k) : /\ pc[k] = "select" /\ at[r] = "offer" /\ Return(k, got[r])
                              /\ at' = [at EXCEPT ![r] = "exit"]
    BY <1>5 DEF ReceiveReply
  <2>2. PICK n \in 2..Len(list[k]) : r = <<k, n>>
    BY DEF Others
  <2>3. n \in 2..MaxLen /\ n \in 1..MaxLen /\ <<k, n>> \in Req
    BY Position
  <2>4. /\ at[<<k, n>>] = "offer" /\ at'[<<k, n>>] = "exit"
        /\ \A i \in 1..MaxLen : i # n => at'[<<k, i>>] = at[<<k, i>>]
    BY <2>1, <2>2, <2>3, Position DEF TypeOK, AttemptsOK
  <2>5. got[<<k, n>>] = "allFailed" \/ (got[<<k, n>>] \in Replies /\ respOnce[k] = n)
    BY <2>3, <2>4 DEF FanOf, Offered
  <2>6. Caused(k)'
    BY <1>1, <2>4 DEF FanOf, Caused
  <2>7. Retried(k)'
    BY <1>1, <2>3, <2>4, Position, BoundAssumption DEF FanOf, Retried
  <2>8. Counted(k)' = Counted(k)
    <3>1. got[<<k, n>>] \notin Failures
      BY <2>5 DEF Failures, Replies, Answers
    <3> QED BY <1>1, <2>4, <3>1, Position DEF Counted
  <2>9. AllFailed(k)' /\ Offered(k)'
    BY <1>1, <2>4, Position DEF FanOf, AllFailed, Offered
  <2>10. Received(k)'
    BY <1>1, <2>4, <2>5 DEF Received
  <2> QED BY <1>1, <2>6, <2>7, <2>8, <2>9, <2>10 DEF FanOf
<1>6. CASE k = j /\ SelectCtxDone(k)
  <2>1. UNCHANGED at /\ outcome'[k] = "canceled"
    BY <1>6 DEF SelectCtxDone, Return, attempts, TypeOK, CallersOK
  <2>2. Caused(k)' /\ Retried(k)' /\ Counted(k)' = Counted(k) /\ AllFailed(k)' /\ Offered(k)'
    BY <1>1, <2>1 DEF FanOf, Caused, Retried, Counted, AllFailed, Offered
  <2> QED BY <1>1, <2>1, <2>2 DEF FanOf, Received
<1> QED BY <1>2, <1>3, <1>4, <1>5, <1>6 DEF CallStep

----------------------------------------------------------------------------
(* The attempts of call k, the one at position n moving.                   *)

LEMMA AttemptMoves ==
  ASSUME IInv, NEW k \in Calls, NEW n \in 1..MaxLen, AttemptStep(<<k, n>>)
  PROVE  /\ UNCHANGED <<list, ctxDone, canceled>> /\ at[<<k, n>>] \notin {"none", "exit"}
         /\ \A i \in 1..MaxLen : i # n =>
              at'[<<k, i>>] = at[<<k, i>>] /\ got'[<<k, i>>] = got[<<k, i>>]
<1>1. <<k, n>> \in Req
  BY Position DEF IInv
<1>2. UNCHANGED <<list, ctxDone, canceled>>
  BY DEF AttemptStep, Register, GiveUp, PassCheck, Enqueue, SendPanics, AcceptReply,
     CountFailure, EnterOnce, LeaveOnce, streams, callers, Return
<1>3. \A i \in 1..MaxLen : i # n => <<k, i>> \in Req \ {<<k, n>>}
  BY Position DEF IInv
<1> QED BY <1>1, <1>2, <1>3, AttemptFrame DEF IInv

LEMMA CausedByAttempt ==
  ASSUME IInv, NEW k \in Calls, NEW n \in 1..MaxLen, AttemptStep(<<k, n>>), FanOf(k)
  PROVE  Caused(k)' /\ Retried(k)'
<1> USE DEF IInv
<1> DEFINE r == <<k, n>>
<1>1. /\ UNCHANGED <<list, ctxDone, canceled>> /\ at[r] \notin {"none", "exit"}
      /\ \A i \in 1..MaxLen : i # n =>
           at'[<<k, i>>] = at[<<k, i>>] /\ got'[<<k, i>>] = got[<<k, i>>]
  BY AttemptMoves
<1>2. r \in Req /\ ChanOf(r) = list[k][n] /\ r[1] = k
  BY Position DEF ChanOf
<1>3. \/ at'[r] \in {"check", "send", "wait"} /\ got'[r] = got[r] /\ at[r] \in {"new", "check", "send"}
      \/ at'[r] \in {"done", "offer", "exit"} /\ got'[r] \in {got[r], "allFailed"} \cup Replies
      \/ at'[r] = "done" /\ got'[r] = "closed" /\ list[k][n] \in ctxDone
      \/ at'[r] = "done" /\ got'[r] = "canceled" /\ k \in canceled
  <2>1. CASE Register(r) \/ PassCheck(r) \/ Enqueue(r)
    BY <1>2, <2>1 DEF Register, PassCheck, Enqueue, TypeOK, AttemptsOK
  <2>2. CASE GiveUp(r)
    BY <1>2, <2>2 DEF GiveUp, TypeOK, AttemptsOK
  <2>3. CASE SendPanics(r) \/ LeaveOnce(r) \/ EnterOnce(r)
    BY <1>2, <2>3 DEF SendPanics, LeaveOnce, EnterOnce, TypeOK, AttemptsOK
  <2>4. CASE AcceptReply(r)
    <3>1. result[r] \in Replies
      BY <1>2, <2>4 DEF AcceptReply, TypeOK, RegistryOK
    <3> QED BY <1>2, <2>4, <3>1 DEF AcceptReply, TypeOK, AttemptsOK
  <2>5. CASE CountFailure(r)
    BY <1>2, <2>5 DEF CountFailure, TypeOK, AttemptsOK
  <2> QED BY <2>1, <2>2, <2>3, <2>4, <2>5 DEF AttemptStep
<1>4. Caused(k)'
  BY <1>1, <1>3 DEF FanOf, Caused, Replies, Answers
<1>5. Retried(k)'
  <2>1. SUFFICES ASSUME NEW i \in 2..MaxLen, at'[<<k, i>>] # "none"
                 PROVE  at'[<<k, 1>>] = "exit" /\ got'[<<k, 1>>] = "closed"
    BY DEF Retried
  <2>2. at[<<k, i>>] # "none" /\ i \in 1..MaxLen
    <3>1. i \in 1..MaxLen
      BY BoundAssumption
    <3>2. CASE i = n
      BY <1>1, <3>1, <3>2
    <3>3. CASE i # n
      BY <1>1, <2>1, <3>1, <3>3
    <3> QED BY <3>1, <3>2, <3>3
  <2>3. at[<<k, 1>>] = "exit" /\ got[<<k, 1>>] = "closed"
    BY <2>2 DEF FanOf, Retried
  <2> QED BY <1>1, <2>3, BoundAssumption
<1> QED BY <1>4, <1>5

\* A step that counts no failure.
LEMMA UncountedByAttempt ==
  ASSUME IInv, NEW k \in Calls, NEW n \in 1..MaxLen, AttemptStep(<<k, n>>), FanOf(k),
         ~CountFailure(<<k, n>>)
  PROVE  FanOf(k)'
<1> USE DEF IInv
<1> DEFINE r == <<k, n>>
<1>1. /\ UNCHANGED <<list, ctxDone, canceled>> /\ at[r] \notin {"none", "exit"}
      /\ \A i \in 1..MaxLen : i # n =>
           at'[<<k, i>>] = at[<<k, i>>] /\ got'[<<k, i>>] = got[<<k, i>>]
  BY AttemptMoves
<1>2. r \in Req /\ r[1] = k /\ r[2] = n /\ UNCHANGED errRespCount
  BY Position DEF AttemptStep, Register, GiveUp, PassCheck, Enqueue, SendPanics, AcceptReply,
     EnterOnce, LeaveOnce, callers, Return
\* The attempt is not over with a failure after the step, nor was it before.
<1>3. /\ got[r] = "allFailed" <=> got'[r] = "allFailed"
      /\ ~(at'[r] = "exit" /\ got'[r] \in Failures)
  <2>1. at[r] = "send" => got[r] = "none"
    BY DEF FanOf, Caused
  <2>2. at[r] \in {"check", "wait"} => got[r] = "none"
    BY DEF FanOf, Caused
  <2>3. result[r] # "none" => result[r] \in Replies
    BY <1>2 DEF TypeOK, RegistryOK
  <2>4. CASE Register(r) \/ PassCheck(r) \/ Enqueue(r)
    BY <1>2, <2>4 DEF Register, PassCheck, Enqueue, TypeOK, AttemptsOK
  <2>5. CASE GiveUp(r)
    BY <1>2, <2>2, <2>5 DEF GiveUp, TypeOK, AttemptsOK
  <2>6. CASE SendPanics(r)
    BY <1>2, <2>1, <2>6 DEF SendPanics, Failures
  <2>7. CASE AcceptReply(r)
    BY <1>2, <2>2, <2>3, <2>7 DEF AcceptReply, TypeOK, AttemptsOK, Replies, Answers
  <2>8. CASE EnterOnce(r) \/ LeaveOnce(r)
    BY <1>2, <2>8 DEF EnterOnce, LeaveOnce, Failures, Replies, Answers
  <2> QED BY <2>4, <2>5, <2>6, <2>7, <2>8 DEF AttemptStep
<1>4. Counted(k)' = Counted(k)
  <2>1. \A i \in 2..Len(list[k]) : i \in 1..MaxLen
    BY Position
  <2> QED BY <1>1, <1>3, <2>1 DEF Counted
<1>5. AllFailed(k)'
  <2>1. \A i \in 1..MaxLen : got'[<<k, i>>] = "allFailed" <=> got[<<k, i>>] = "allFailed"
    BY <1>1, <1>3
  <2>2. \A i \in 2..Len(list[k]) : i \in 1..MaxLen
    BY Position
  <2>3. \A i \in 2..Len(list[k]) :
          at[<<k, i>>] = "exit" => at'[<<k, i>>] = "exit" /\ got'[<<k, i>>] = got[<<k, i>>]
    BY <1>1, <2>2
  <2> QED BY <1>1, <2>1, <2>3 DEF FanOf, AllFailed
<1>6. at'[r] = "offer" => EnterOnce(r)
  BY <1>2 DEF AttemptStep, Register, GiveUp, PassCheck, Enqueue, SendPanics, AcceptReply,
     LeaveOnce, TypeOK, AttemptsOK
<1>7. EnterOnce(r) => /\ n > 1 /\ got'[r] = got[r] /\ got[r] \in Replies
                      /\ respOnce[k] = 0 /\ respOnce'[k] = n
  BY <1>2 DEF EnterOnce, OnceIsFree, TypeOK, CallersOK
<1>8. ~EnterOnce(r) => respOnce' = respOnce
  BY <1>2 DEF AttemptStep, Register, GiveUp, PassCheck, Enqueue, SendPanics, AcceptReply,
     LeaveOnce, callers, Return
<1>9. Offered(k)'
  BY <1>1, <1>6, <1>7, <1>8 DEF FanOf, Offered
<1>10. Received(k)'
  <2>1. CASE SendPanics(r) /\ n = 1
    <3>1. pc[k] = "first"
      BY <1>2, <2>1 DEF SendPanics, AttemptShape
    <3>2. \A i \in 2..MaxLen : at[<<k, i>>] = "none"
      BY <3>1, Untried
    <3>3. \A i \in 2..MaxLen : at'[<<k, i>>] = "none"
      BY <1>1, <2>1, <3>2, Position
    <3> QED BY <3>3 DEF Received
  <2>2. CASE ~(SendPanics(r) /\ n = 1)
    <3>1. pc' = pc /\ outcome' = outcome
      BY <1>2, <2>2 DEF AttemptStep, Register, GiveUp, PassCheck, Enqueue, SendPanics, AcceptReply,
         EnterOnce, LeaveOnce, callers
    <3>2. SUFFICES ASSUME pc[k] = "returned", outcome[k] # "canceled"
                   PROVE  Received(k)'
      BY <3>1 DEF Received
    <3>3. CASE \A i \in 2..MaxLen : at[<<k, i>>] = "none"
      BY <1>1, <3>3, Position DEF Received
    <3>4. ASSUME NEW i \in 2..Len(list[k]), at[<<k, i>>] = "exit",
                 got[<<k, i>>] = "allFailed" \/ (got[<<k, i>>] \in Replies /\ respOnce[k] = i)
          PROVE  Received(k)'
      <4>1. i \in 1..MaxLen /\ i # n
        BY <1>1, <3>4, Position
      <4>2. at'[<<k, i>>] = "exit" /\ got'[<<k, i>>] = got[<<k, i>>]
        BY <1>1, <3>4, <4>1
      <4>3. got[<<k, i>>] = "allFailed" \/ respOnce' = respOnce
        BY <1>7, <1>8, <3>4
      <4> QED BY <1>1, <3>4, <4>2, <4>3 DEF Received
    <3> QED BY <3>2, <3>3, <3>4 DEF FanOf, Received
  <2> QED BY <2>1, <2>2
<1> QED BY <1>2, <1>4, <1>5, <1>9, <1>10, CausedByAttempt DEF FanOf

\* The step that counts one: it adds its position, and is the last only if all
\* the others are counted.
LEMMA CountedByAttempt ==
  ASSUME IInv, NEW k \in Calls, NEW n \in 1..MaxLen, CountFailure(<<k, n>>), FanOf(k)
  PROVE  FanOf(k)'
<1> USE DEF IInv
<1> DEFINE r == <<k, n>>
<1>0. AttemptStep(r)
  BY DEF AttemptStep
<1>1. /\ UNCHANGED list
      /\ \A i \in 1..MaxLen : i # n =>
           at'[<<k, i>>] = at[<<k, i>>] /\ got'[<<k, i>>] = got[<<k, i>>]
  BY <1>0, AttemptMoves
<1>2. r \in Req /\ r[1] = k /\ r[2] = n
  BY Position
<1>3. /\ at[r] = "done" /\ n > 1 /\ got[r] \in Failures /\ UNCHANGED <<pc, outcome, respOnce>>
      /\ errRespCount'[k] = errRespCount[k] + 1
      /\ \/ at'[r] = "offer" /\ got'[r] = "allFailed" /\ errRespCount'[k] = Len(list[k]) - 1
         \/ at'[r] = "exit" /\ got'[r] = got[r]
  BY <1>2 DEF CountFailure, LastFailure, TypeOK, CallersOK, AttemptsOK
<1>4. n \in 2..Len(list[k]) /\ Len(list[k]) \in Nat /\ Len(list[k]) > 0
  BY <1>3, Position DEF FanOf, Caused
<1>5. \A i \in 2..Len(list[k]) : i \in 1..MaxLen
  BY Position
<1>6. n \notin Counted(k) /\ Counted(k)' = Counted(k) \cup {n}
  <2>1. got[r] # "allFailed"
    BY <1>3 DEF Failures
  <2>2. got'[r] = "allFailed" \/ (at'[r] = "exit" /\ got'[r] \in Failures)
    BY <1>3
  <2> QED BY <1>1, <1>3, <1>4, <1>5, <2>1, <2>2 DEF Counted
<1>7. /\ Counted(k) \in SUBSET (2..Len(list[k])) /\ Counted(k)' \in SUBSET (2..Len(list[k]))
  BY <1>1 DEF Counted
<1>8. errRespCount'[k] = Cardinality(Counted(k)')
  BY <1>3, <1>4, <1>6, <1>7, CountedFinite, FS_AddElement DEF FanOf
<1>9. \A i \in 2..Len(list[k]) : got[<<k, i>>] # "allFailed"
  <2>1. SUFFICES ASSUME NEW i \in 2..Len(list[k]), got[<<k, i>>] = "allFailed" PROVE FALSE
    OBVIOUS
  <2>2. i # n
    BY <1>3, <2>1 DEF Failures
  <2> QED BY <1>3, <1>4, <1>5, <2>1, <2>2 DEF FanOf, AllFailed
<1>10. AllFailed(k)'
  <2>1. SUFFICES ASSUME NEW i \in 1..MaxLen, got'[<<k, i>>] = "allFailed"
                 PROVE  /\ i > 1
                        /\ \A j \in 2..Len(list[k]) :
                             j # i => at'[<<k, j>>] = "exit" /\ got'[<<k, j>>] \in Failures
    BY <1>1 DEF AllFailed
  <2>2. i = n
    <3>1. CASE i # n
      <4>1. got[<<k, i>>] = "allFailed"
        BY <1>1, <2>1, <3>1
      <4>2. i > 1 /\ at[r] = "exit"
        BY <1>4, <3>1, <4>1 DEF FanOf, AllFailed
      <4> QED BY <1>3, <4>2
    <3> QED BY <3>1
  <2>3. errRespCount'[k] = Len(list[k]) - 1
    BY <1>3, <2>1, <2>2 DEF Failures
  <2>4. Counted(k)' = 2..Len(list[k])
    BY <1>4, <1>7, <1>8, <2>3, CountedFinite
  <2>5. ASSUME NEW j \in 2..Len(list[k]), j # n
        PROVE  at'[<<k, j>>] = "exit" /\ got'[<<k, j>>] \in Failures
    <3>1. j \in Counted(k)
      BY <1>6, <2>4, <2>5
    <3>2. at[<<k, j>>] = "exit" /\ got[<<k, j>>] \in Failures
      BY <1>9, <3>1 DEF Counted
    <3> QED BY <1>1, <1>5, <2>5, <3>2
  <2> QED BY <1>3, <2>2, <2>5
<1>11. Offered(k)'
  BY <1>1, <1>3 DEF FanOf, Offered
<1>12. Received(k)'
  <2>1. SUFFICES ASSUME pc[k] = "returned", outcome[k] # "canceled"
                 PROVE  Received(k)'
    BY <1>3 DEF Received
  <2>2. ASSUME NEW i \in 2..Len(list[k]), at[<<k, i>>] = "exit",
               got[<<k, i>>] = "allFailed" \/ (got[<<k, i>>] \in Replies /\ respOnce[k] = i)
        PROVE  Received(k)'
    <3>1. i \in 1..MaxLen /\ i # n
      BY <1>3, <1>5, <2>2
    <3>2. at'[<<k, i>>] = "exit" /\ got'[<<k, i>>] = got[<<k, i>>]
      BY <1>1, <2>2, <3>1
    <3> QED BY <1>1, <1>3, <2>2, <3>2 DEF Received
  <2>3. ~ \A i \in 2..MaxLen : at[<<k, i>>] = "none"
    BY <1>3, <1>4, Position
  <2> QED BY <2>1, <2>2, <2>3 DEF FanOf, Received
<1> QED BY <1>0, <1>8, <1>10, <1>11, <1>12, CausedByAttempt DEF FanOf

\* A step of another call's attempt.
LEMMA FanOfOther ==
  ASSUME IInv, NEW k \in Calls, NEW r \in Req, AttemptStep(r), r[1] # k, FanOf(k)
  PROVE  FanOf(k)'
<1> USE DEF IInv
<1>1. \A i \in 1..MaxLen : at'[<<k, i>>] = at[<<k, i>>] /\ got'[<<k, i>>] = got[<<k, i>>]
  BY AttemptFrameAt
<1>2. UNCHANGED <<list, ctxDone, canceled>>
  BY DEF AttemptStep, Register, GiveUp, PassCheck, Enqueue, SendPanics, AcceptReply,
     CountFailure, EnterOnce, LeaveOnce, streams, callers, Return
<1>3. pc'[k] = pc[k] /\ outcome'[k] = outcome[k]
  BY AttemptFrame DEF Return, TypeOK, CallersOK
<1>4. errRespCount'[k] = errRespCount[k] /\ respOnce'[k] = respOnce[k]
  BY DEF AttemptStep, Register, GiveUp, PassCheck, Enqueue, SendPanics, AcceptReply,
     CountFailure, EnterOnce, LeaveOnce, callers, Return, TypeOK, CallersOK
<1> QED BY <1>1, <1>2, <1>3, <1>4, FanKept

LEMMA FanStep == IInv /\ FanShape /\ [Next]_vars => FanShape'
<1> SUFFICES ASSUME IInv, FanShape, [Next]_vars, NEW k \in Calls PROVE FanOf(k)'
  BY DEF FanShape
<1>1. FanOf(k)
  BY DEF FanShape
<1>2. ASSUME NEW j \in Calls, NEW l \in Lists, SendRequest(j, l) PROVE FanOf(k)'
  BY <1>1, <1>2, FanOfSend
<1>3. ASSUME NEW j \in Calls, CallStep(j) PROVE FanOf(k)'
  BY <1>1, <1>3, FanOfCall
<1>4. ASSUME NEW r \in Req, AttemptStep(r) PROVE FanOf(k)'
  <2>1. r[1] \in Calls /\ r[2] \in 1..MaxLen /\ r = <<r[1], r[2]>>
    BY ReqParts
  <2>2. CASE r[1] # k
    BY <1>1, <1>4, <2>2, FanOfOther
  <2>3. CASE r[1] = k
    BY <1>1, <1>4, <2>1, <2>3, UncountedByAttempt, CountedByAttempt
  <2> QED BY <2>2, <2>3
<1>5. ASSUME \/ \E r \in Req, a \in Answers : ResponseEvent(r, a)
             \/ \E m \in replying : DeliverReply(m)
             \/ \E late \in SUBSET idRequest \ {{}} : CleanRequests(late)
             \/ StopCleaning \/ EnvStep \/ UNCHANGED vars
      PROVE  FanOf(k)'
  <2>1. UNCHANGED <<list, pc, errRespCount, respOnce, outcome, at, got>>
    BY <1>5 DEF ResponseEvent, DeliverReply, CleanRequests, StopCleaning, EnvStep, Cancel, Take,
       Disconnect, CloseOutBound, callers, attempts, vars
  <2>2. ctxDone \subseteq ctxDone' /\ canceled \subseteq canceled'
    BY <1>5 DEF ResponseEvent, DeliverReply, CleanRequests, StopCleaning, EnvStep, Cancel, Take,
       Disconnect, CloseOutBound, callers, streams, vars
  <2> QED BY <1>1, <2>1, <2>2, FanKept DEF IInv
<1> QED BY <1>2, <1>3, <1>4, <1>5 DEF Next

LEMMA FanInit == Init => FanShape
<1> SUFFICES ASSUME Init, NEW k \in Calls PROVE FanOf(k)
  BY DEF FanShape
<1>1. TypeOK
  BY InitType
<1>2. \A i \in 1..MaxLen : at[<<k, i>>] = "none" /\ got[<<k, i>>] = "none"
  BY <1>1, Position DEF Init
<1>3. /\ list[k] = <<>> /\ pc[k] = "idle" /\ errRespCount[k] = 0
  BY DEF Init
<1>4. Counted(k) = {}
  BY <1>3 DEF Counted
<1>5. Cardinality(Counted(k)) = 0
  BY <1>4, FS_EmptySet
<1> QED BY <1>1, <1>2, <1>3, <1>5, Position DEF FanOf, Caused, Retried, AllFailed, Offered, Received

LEMMA FanHolds == Spec => [](IInv /\ FanShape)
<1>1. Init => IInv /\ FanShape
  BY IInvInit, FanInit
<1>2. IInv /\ FanShape /\ [Next]_vars => (IInv /\ FanShape)'
  BY IInvStep, FanStep
<1> QED BY <1>1, <1>2, PTL DEF Spec

----------------------------------------------------------------------------
(* What follows.                                                           *)

\* A request goes to the other channels only after the first one's stream ended.
THEOREM RetryHasReason == Spec => []RetryOnlyWhenFirstIsGone
<1>1. ASSUME IInv, FanShape PROVE RetryOnlyWhenFirstIsGone
  <2> SUFFICES ASSUME NEW r \in Req, r[2] > 1, at[r] # "none"
               PROVE  ChanOf(<<r[1], 1>>) \in ctxDone
    BY DEF RetryOnlyWhenFirstIsGone
  <2>1. r[1] \in Calls /\ r[2] \in 2..MaxLen /\ r = <<r[1], r[2]>>
    BY ReqParts
  <2>2. got[<<r[1], 1>>] = "closed"
    BY <1>1, <2>1 DEF FanShape, FanOf, Retried
  <2>3. list[r[1]][1] \in ctxDone
    BY <1>1, <2>1, <2>2, BoundAssumption DEF FanShape, FanOf, Caused
  <2> QED BY <2>3 DEF ChanOf
<1> QED BY <1>1, FanHolds, PTL

\* The collective failure is reported only when every attempt has failed.
THEOREM AllFailedIsTrue == Spec => []AllFailedMeansAll
<1>1. ASSUME IInv, FanShape PROVE AllFailedMeansAll
  <2> SUFFICES ASSUME NEW r \in Req, got[r] = "allFailed", NEW q \in Others(r[1]) \ {r}
               PROVE  at[q] = "exit" /\ got[q] \in Failures
    BY DEF AllFailedMeansAll
  <2>1. r[1] \in Calls /\ r[2] \in 1..MaxLen /\ r = <<r[1], r[2]>>
    BY ReqParts
  <2>2. PICK j \in 2..Len(list[r[1]]) : q = <<r[1], j>>
    BY DEF Others
  <2>3. j # r[2]
    BY <2>1, <2>2
  <2> QED BY <1>1, <2>1, <2>2, <2>3 DEF FanShape, FanOf, AllFailed
<1> QED BY <1>1, FanHolds, PTL

\* One goroutine of a call at most ever sends on respCh, and it is received
\* unless the call gave up by its context.
THEOREM OffersOnce == Spec => []OneOffer
<1>1. ASSUME IInv, FanShape PROVE OneOffer
  <2> SUFFICES ASSUME NEW k \in Calls
               PROVE  /\ Cardinality({r \in Others(k) : at[r] = "offer"}) <= 1
                      /\ (\E r \in Others(k) : at[r] = "offer") /\ pc[k] = "returned"
                           => outcome[k] = "canceled"
    BY DEF OneOffer
  <2>1. Caused(k) /\ AllFailed(k) /\ Offered(k) /\ Received(k)
    BY <1>1 DEF FanShape, FanOf
  <2>2. \A i \in 2..Len(list[k]) : i \in 1..MaxLen /\ i \in 2..MaxLen
    BY <1>1, Position DEF IInv
  <2>3. ASSUME NEW i \in 2..Len(list[k]), NEW j \in 2..Len(list[k]),
               at[<<k, i>>] = "offer", at[<<k, j>>] = "offer"
        PROVE  i = j
    BY <2>1, <2>2, <2>3 DEF AllFailed, Offered
  <2>4. ASSUME NEW i \in 2..Len(list[k]), at[<<k, i>>] = "offer", pc[k] = "returned"
        PROVE  outcome[k] = "canceled"
    <3>1. ASSUME NEW j \in 2..Len(list[k]), at[<<k, j>>] = "exit",
                 got[<<k, j>>] = "allFailed" \/ (got[<<k, j>>] \in Replies /\ respOnce[k] = j)
          PROVE  FALSE
      <4>1. i # j
        BY <2>4, <3>1
      <4>2. got[<<k, j>>] # "allFailed"
        BY <2>1, <2>2, <2>4, <4>1 DEF AllFailed
      <4>3. got[<<k, i>>] = "allFailed" \/ respOnce[k] = i
        BY <2>1, <2>2, <2>4 DEF Offered
      <4>4. got[<<k, i>>] = "allFailed" => got[<<k, j>>] \in Failures
        BY <2>1, <2>2, <4>1 DEF AllFailed
      <4> QED BY <3>1, <4>1, <4>2, <4>3, <4>4 DEF Failures, Replies, Answers
    <3>2. at[<<k, i>>] # "none"
      BY <2>4
    <3> QED BY <2>1, <2>2, <2>4, <3>1, <3>2 DEF Received
  <2> DEFINE S == {r \in Others(k) : at[r] = "offer"}
  <2>5. \A q, r \in S : q = r
    <3>1. \A r \in S : \E i \in 2..Len(list[k]) : r = <<k, i>> /\ at[<<k, i>>] = "offer"
      BY DEF Others
    <3> QED BY <2>3, <3>1
  <2>6. S = {} \/ \E r \in S : S = {r}
    BY <2>5
  <2>7. Cardinality(S) <= 1
    <3> HIDE DEF S
    <3>1. \A r : Cardinality({r}) = 1
      BY FS_Singleton
    <3>2. Cardinality({}) = 0
      BY FS_EmptySet
    <3>3. CASE S = {}
      BY <3>2, <3>3
    <3>4. ASSUME NEW r, S = {r} PROVE Cardinality(S) <= 1
      <4>1. Cardinality(S) = 1
        BY <3>1, <3>4, Zenon
      <4> QED BY <4>1
    <3> QED BY <2>6, <3>3, <3>4
  <2> QED BY <2>4, <2>7 DEF Others
<1> QED BY <1>1, FanHolds, PTL

----------------------------------------------------------------------------
(* What a call that failed for its channels says of them.                  *)

\* The channel at position i of call k's list is gone, or the call was given up.
Gone(k, i) == list[k][i] \in ctxDone \/ k \in canceled

\* Why: the last failure of a fan-out, too, had its cause, although its error was
\* replaced by the collective one.
Spent(k) ==
    /\ \A i \in 1..MaxLen : got[<<k, i>>] = "allFailed" => Gone(k, i)
    /\ outcome[k] \in {"closed", "allFailed"} => \A i \in 1..Len(list[k]) : Gone(k, i)

FailureIsReal == \A k \in Calls : outcome[k] \in {"closed", "allFailed"} =>
    k \in canceled \/ \A i \in 1..Len(list[k]) : list[k][i] \in ctxDone

\* A channel that is gone stays gone.
LEMMA GoneStays ==
  ASSUME NEW k, NEW i, Gone(k, i), list'[k] = list[k],
         ctxDone \subseteq ctxDone', canceled \subseteq canceled'
  PROVE  Gone(k, i)'
BY DEF Gone

LEMMA SpentKept ==
  ASSUME NEW k \in Calls, TypeOK, Spent(k), list'[k] = list[k], outcome'[k] = outcome[k],
         \A i \in 1..MaxLen : got'[<<k, i>>] = "allFailed" => got[<<k, i>>] = "allFailed",
         ctxDone \subseteq ctxDone', canceled \subseteq canceled'
  PROVE  Spent(k)'
BY GoneStays DEF Spent

\* Only a call with nothing to its name is given a list.
LEMMA SpentOfSend ==
  ASSUME IInv, FanShape, NEW j \in Calls, NEW l \in Lists, SendRequest(j, l),
         NEW k \in Calls, Spent(k)
  PROVE  Spent(k)'
<1> USE DEF IInv
<1>1. UNCHANGED <<got, ctxDone, canceled>>
  BY DEF SendRequest, Return, streams
<1>2. CASE k # j
  <2>1. list'[k] = list[k] /\ outcome'[k] = outcome[k]
    BY <1>2 DEF SendRequest, Return, TypeOK, CallersOK
  <2> QED BY <1>1, <2>1, SpentKept
<1>3. CASE k = j
  <2>1. pc[k] = "idle" /\ \A i \in 1..MaxLen : at[<<k, i>>] = "none"
    BY <1>3, Untried DEF SendRequest, FanShape
  <2>2. \A i \in 1..MaxLen : got[<<k, i>>] = "none"
    BY <2>1 DEF FanShape, FanOf, Caused
  <2>3. outcome[k] = "none"
    BY <2>1 DEF CallShape, ShapeOf
  <2>4. outcome'[k] \in {"none", "noChannel"}
    BY <1>3, <2>3 DEF SendRequest, Return, TypeOK, CallersOK
  <2> QED BY <1>1, <2>2, <2>4 DEF Spent
<1> QED BY <1>2, <1>3

\* A call that returns with a failure: the first attempt's, when there was no other
\* to try or its caller has gone, or the collective one.
LEMMA SpentOfCall ==
  ASSUME IInv, FanShape, NEW j \in Calls, CallStep(j), NEW k \in Calls, Spent(k)
  PROVE  Spent(k)'
<1> USE Position DEF IInv
<1>1. UNCHANGED <<got, list, ctxDone, canceled>>
  BY DEF CallStep, FirstReturns, FanOut, ReceiveReply, SelectCtxDone, Return, streams, attempts
<1>2. FanOf(k)
  BY DEF FanShape
<1>3. CASE k # j
  <2>1. outcome'[k] = outcome[k]
    BY <1>3 DEF CallStep, FirstReturns, FanOut, ReceiveReply, SelectCtxDone, Return, TypeOK, CallersOK
  <2> QED BY <1>1, <2>1, SpentKept
<1>4. CASE k = j /\ FirstReturns(k)
  <2>1. /\ pc[k] = "first" /\ at[<<k, 1>>] = "done" /\ ~Retriable(k)
        /\ outcome'[k] = got[<<k, 1>>]
    BY <1>4 DEF FirstReturns, Return, TypeOK, CallersOK
  <2>2. got[<<k, 1>>] # "allFailed" /\ 1 \in 1..MaxLen
    BY <1>2, BoundAssumption DEF FanOf, AllFailed
  <2>3. got[<<k, 1>>] = "closed" => list[k][1] \in ctxDone /\ (k \in canceled \/ Len(list[k]) \leq 1)
    BY <1>2, <2>1, <2>2 DEF FanOf, Caused, Retriable, Failures
  <2>4. outcome'[k] \in {"closed", "allFailed"} => \A i \in 1..Len(list[k]) : Gone(k, i)
    BY <2>1, <2>2, <2>3 DEF Gone
  <2> QED BY <1>1, <2>4 DEF Spent, Gone
<1>5. CASE k = j /\ FanOut(k)
  BY <1>1, <1>5, SpentKept DEF FanOut
<1>6. CASE k = j /\ ReceiveReply(k)
  <2>1. PICK r \in Others(k) : /\ pc[k] = "select" /\ at[r] = "offer" /\ Return(k, got[r])
    BY <1>6 DEF ReceiveReply
  <2>2. PICK n \in 2..Len(list[k]) : r = <<k, n>>
    BY DEF Others
  <2>3. n \in 2..MaxLen /\ n \in 1..MaxLen /\ outcome'[k] = got[<<k, n>>]
    BY <2>1, <2>2 DEF Return, TypeOK, CallersOK
  <2>4. got[<<k, n>>] = "allFailed" \/ got[<<k, n>>] \in Replies
    BY <1>2, <2>1, <2>2, <2>3 DEF FanOf, Offered
  <2>5. ASSUME got[<<k, n>>] = "allFailed", NEW i \in 1..Len(list[k]) PROVE Gone(k, i)
    <3>0. i \in 1..MaxLen /\ (i # 1 => i \in 2..Len(list[k]))
      <4>1. Len(list[k]) \in 0..MaxLen /\ MaxLen \in Nat
        BY BoundAssumption
      <4> HIDE Position
      <4> QED BY <4>1
    <3>1. CASE i = n
      BY <2>3, <2>5, <3>1 DEF Spent
    <3>2. CASE i = 1
      <4>1. got[<<k, 1>>] = "closed"
        BY <1>2, <2>1, <2>2, <2>3 DEF FanOf, Retried
      <4> QED BY <1>2, <3>0, <3>2, <4>1 DEF FanOf, Caused, Gone
    <3>3. CASE i # n /\ i # 1
      <4>1. got[<<k, i>>] \in Failures
        BY <1>2, <2>3, <2>5, <3>3 DEF FanOf, AllFailed
      <4> QED BY <1>2, <3>0, <4>1 DEF FanOf, Caused, Gone, Failures
    <3> QED BY <3>1, <3>2, <3>3
  <2>6. outcome'[k] \in {"closed", "allFailed"} => \A i \in 1..Len(list[k]) : Gone(k, i)
    BY <2>3, <2>4, <2>5 DEF Replies, Answers
  <2> QED BY <1>1, <2>6 DEF Spent, Gone
<1>7. CASE k = j /\ SelectCtxDone(k)
  <2>1. outcome'[k] = "canceled"
    BY <1>7 DEF SelectCtxDone, Return, TypeOK, CallersOK
  <2> QED BY <1>1, <2>1 DEF Spent, Gone
<1> QED BY <1>3, <1>4, <1>5, <1>6, <1>7 DEF CallStep

\* An attempt replaces its error by the collective one, and had its cause before.
LEMMA SpentOfAttempt ==
  ASSUME IInv, FanShape, NEW r \in Req, AttemptStep(r), NEW k \in Calls, Spent(k)
  PROVE  Spent(k)'
<1> USE DEF IInv
<1>1. UNCHANGED <<list, ctxDone, canceled>>
  BY DEF AttemptStep, Register, GiveUp, PassCheck, Enqueue, SendPanics, AcceptReply,
     CountFailure, EnterOnce, LeaveOnce, streams, callers, Return
<1>2. outcome'[k] = outcome[k] \/ outcome'[k] = "panic"
  BY AttemptFrame DEF Return, TypeOK, CallersOK
<1>3. ASSUME NEW i \in 1..MaxLen, got'[<<k, i>>] = "allFailed" PROVE Gone(k, i)
  <2>1. CASE got[<<k, i>>] = "allFailed"
    BY <2>1 DEF Spent
  <2>2. CASE got[<<k, i>>] # "allFailed"
    <3>1. r = <<k, i>>
      BY <1>3, <2>2, AttemptFrameAt
    <3>2. CountFailure(r)
      <4>1. result[r] # "allFailed"
        BY DEF TypeOK, RegistryOK, Replies, Answers
      <4> QED BY <1>3, <2>2, <3>1, <4>1 DEF AttemptStep, Register, GiveUp, PassCheck, Enqueue, SendPanics,
            AcceptReply, EnterOnce, LeaveOnce, TypeOK, AttemptsOK
    <3>3. got[<<k, i>>] \in Failures
      BY <3>1, <3>2 DEF CountFailure
    <3> QED BY <3>3 DEF FanShape, FanOf, Caused, Failures, Gone
  <2> QED BY <2>1, <2>2
<1> QED BY <1>1, <1>2, <1>3 DEF Spent, Gone

LEMMA SpentStep ==
  ASSUME IInv, FanShape, [Next]_vars, \A k \in Calls : Spent(k)
  PROVE  \A k \in Calls : Spent(k)'
<1> SUFFICES ASSUME NEW k \in Calls PROVE Spent(k)'
  OBVIOUS
<1>1. Spent(k)
  OBVIOUS
<1>2. ASSUME NEW j \in Calls, NEW l \in Lists, SendRequest(j, l) PROVE Spent(k)'
  BY <1>1, <1>2, SpentOfSend
<1>3. ASSUME NEW j \in Calls, CallStep(j) PROVE Spent(k)'
  BY <1>1, <1>3, SpentOfCall
<1>4. ASSUME NEW r \in Req, AttemptStep(r) PROVE Spent(k)'
  BY <1>1, <1>4, SpentOfAttempt
<1>5. ASSUME \/ \E r \in Req, a \in Answers : ResponseEvent(r, a)
             \/ \E m \in replying : DeliverReply(m)
             \/ \E late \in SUBSET idRequest \ {{}} : CleanRequests(late)
             \/ StopCleaning \/ EnvStep \/ UNCHANGED vars
      PROVE  Spent(k)'
  <2>1. UNCHANGED <<list, outcome, got>>
    BY <1>5 DEF ResponseEvent, DeliverReply, CleanRequests, StopCleaning, EnvStep, Cancel, Take,
       Disconnect, CloseOutBound, callers, attempts, vars
  <2>2. ctxDone \subseteq ctxDone' /\ canceled \subseteq canceled'
    BY <1>5 DEF ResponseEvent, DeliverReply, CleanRequests, StopCleaning, EnvStep, Cancel, Take,
       Disconnect, CloseOutBound, callers, streams, vars
  <2> QED BY <1>1, <2>1, <2>2, SpentKept DEF IInv
<1> QED BY <1>2, <1>3, <1>4, <1>5 DEF Next

\* All that is known of the broker's calls and attempts at every moment.
BrokerInv == IInv /\ FanShape /\ \A k \in Calls : Spent(k)

LEMMA BrokerInvInit == Init => BrokerInv
<1>1. ASSUME Init, NEW k \in Calls PROVE Spent(k)
  <2>1. TypeOK
    BY <1>1, InitType
  <2>2. \A i \in 1..MaxLen : got[<<k, i>>] = "none"
    BY <1>1, <2>1, Position DEF Init
  <2> QED BY <1>1, <2>2 DEF Init, Spent
<1> QED BY <1>1, IInvInit, FanInit DEF BrokerInv

LEMMA BrokerInvStep == BrokerInv /\ [Next]_vars => BrokerInv'
<1>1. ASSUME BrokerInv, [Next]_vars PROVE \A k \in Calls : Spent(k)'
  BY <1>1, SpentStep DEF BrokerInv
<1> QED BY <1>1, IInvStep, FanStep DEF BrokerInv

\* A call reports that its channels have failed only when every channel of its list
\* has ended, or its caller has given up: one that stays connected was tried.
THEOREM FailureHasReason == Spec => []FailureIsReal
<1>1. BrokerInv => FailureIsReal
  BY DEF BrokerInv, Spent, Gone, FailureIsReal
<1> QED BY <1>1, BrokerInvInit, BrokerInvStep, PTL DEF Spec
=============================================================================
