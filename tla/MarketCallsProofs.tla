------------------------- MODULE MarketCallsProofs -------------------------
(***************************************************************************)
(* Theorems about MarketCalls: what the market stream and the broker it    *)
(* embeds promise each other, for any connections, miners and calls.       *)
(*                                                                         *)
(* The argument: every step of the composition is a step, or a stutter, of *)
(* BaseEvent seen through the requests, and of MarketStream seen through   *)
(* the announcements.  So the inductive invariants of the two hold here,   *)
(* of the mapped variables, and what is left to invent is what ties the    *)
(* two together: which connections a call's list was made of, and what the *)
(* queues both put their events in hold.                                   *)
(***************************************************************************)
EXTENDS MarketCalls, FiniteSetTheorems, TLAPS

\* What is proved of the two components, of the mapped variables.
B == INSTANCE BaseEventProofs WITH
    Calls <- Requests, Channels <- Conns, Closable <- Conns,
    Lists <- UNION {Orderings(S) : S \in SUBSET Conns}, MaxLen <- Cardinality(Conns),
    pc <- cpc, ctxDone <- done, closed <- {x \in Conns : pc[x] = "closed"},
    outBound <- [x \in Conns |-> out[x] \ {Announcement}], crashed <- PanicEnded

M == INSTANCE MarketStreamProofs WITH
    out <- [x \in Conns |-> out[x] \cap {Announcement}], crashed <- crashed /\ ~PanicEnded

\* The stream's and the broker's invariants speak of the types of everything else.
TypesOK ==
    /\ out \in [Conns -> SUBSET (B!Req \cup {Announcement})]
    /\ asked \in [Requests -> Miners \cup {None}] /\ crashed \in BOOLEAN

\* What a queue holds: the announcement only once InitConnect has put it there, and
\* requests that were made for its connection.
QueuesOK ==
    /\ \A x \in Conns : IsFiniteSet(out[x])
    /\ \A x \in Conns : pc[x] \in {"idle", "add", "init"} => Announcement \notin out[x]
    /\ \A x \in Conns : \A r \in out[x] \ {Announcement} : at[r] # "none" /\ B!ChanOf(r) = x
    /\ \A r \in taken : at[r] # "none"

\* A connection is taken out, and its out closed, after it has ended.
EndedFirst == \A x \in Conns : pc[x] \in {"close", "closed"} => x \in done

PanicSeen == PanicEnded => crashed

\* A call that found a store found one of the miner it named.
AskedOf(q) ==
    /\ qpc[q] \in {"found", "send"} => asked[q] \in Miners
    /\ qpc[q] = "found" => M!CreatedFor(qstore[q], asked[q])

\* What it then listed, and sends to, are connections of that miner, all with the
\* store the call found.
AimedOf(q) ==
    /\ qpc[q] = "send" <=> targets[q] # {}
    /\ \A x \in targets[q] : pc[x] # "idle" /\ miner[x] = asked[q] /\ store[x] = qstore[q]

\* The list the broker was given has exactly those, each once.
ListedOf(q) ==
    \/ list[q] = <<>> /\ cpc[q] = "idle"
    \/ qpc[q] = "send" /\ list[q] \in Orderings(targets[q])

RouteOK == \A q \in Requests : AskedOf(q) /\ AimedOf(q) /\ ListedOf(q)

\* A connection has a store once its call has begun, and is in no other.
StoresOK ==
    /\ \A x \in Conns : pc[x] = "idle" <=> store[x] = None
    /\ \A s \in Conns : \A x \in channels[s] : store[x] = s

\* A connection that has not been taken out has the store its miner has in the map,
\* unless two connections shared a store, and at least the one that was not x has ended.
Two(x) == \E y \in done, z \in done \cup {x} : y # z /\ store[y] # None /\ store[y] = store[z]
StoreLasts ==
    \A x \in Conns : pc[x] \in {"add", "init", "wait"} =>
        minerConnections[miner[x]] = store[x] \/ Two(x)

CallsInv ==
    /\ B!BrokerInv /\ M!IInv /\ TypesOK
    /\ QueuesOK /\ EndedFirst /\ PanicSeen /\ RouteOK /\ StoresOK /\ StoreLasts

----------------------------------------------------------------------------
(* The two components' assumptions hold of what they are given here.       *)

LEMMA ConnsCount == Cardinality(Conns) \in Nat \ {0}
BY ConnsAssumption, FS_CardinalityType, FS_EmptySet

LEMMA OrderingIsList ==
  ASSUME NEW S \in SUBSET Conns, NEW l \in Orderings(S)
  PROVE  l \in Seq(Conns) /\ Len(l) = Cardinality(S) /\ Len(l) \in 0..Cardinality(Conns)
<1>1. Cardinality(S) \in Nat /\ Cardinality(S) <= Cardinality(Conns)
  BY ConnsAssumption, FS_Subset, FS_CardinalityType
<1>2. l \in [1..Cardinality(S) -> S]
  BY DEF Orderings
<1>3. l \in Seq(Conns) /\ Len(l) = Cardinality(S)
  BY <1>1, <1>2
<1> QED BY <1>1, <1>3, ConnsCount

LEMMA BrokerAssumptions ==
  /\ \A l \in UNION {Orderings(S) : S \in SUBSET Conns} :
       l \in Seq(Conns) /\ Len(l) \in 0..Cardinality(Conns)
  /\ Cardinality(Conns) \in Nat \ {0} /\ QueueSize \in Nat \ {0}
BY OrderingIsList, ConnsCount, QueueAssumption

LEMMA ListOfConns ==
  ASSUME B!CallersOK, NEW q \in Requests
  PROVE  list[q] \in Seq(Conns) /\ Len(list[q]) \in 0..Cardinality(Conns)
<1> DEFINE Lists == UNION {Orderings(S) : S \in SUBSET Conns}
<1>1. \A l \in Lists : l \in Seq(Conns) /\ Len(l) \in 0..Cardinality(Conns)
  BY BrokerAssumptions
<1>2. list \in [Requests -> Lists \cup {<<>>}]
  BY DEF B!CallersOK
<1> HIDE DEF Lists
<1>3. <<>> \in Seq(Conns) /\ Len(<<>>) = 0
  OBVIOUS
<1>4. list[q] \in Lists \/ list[q] = <<>>
  BY <1>2
<1>5. CASE list[q] \in Lists
  BY <1>1, <1>5
<1>6. CASE list[q] = <<>>
  <2>1. 0 \in 0..Cardinality(Conns)
    BY ConnsCount
  <2> QED BY <1>3, <1>6, <2>1
<1> QED BY <1>4, <1>5, <1>6

LEMMA BrokerInductive ==
  /\ B!Init => B!BrokerInv
  /\ B!BrokerInv /\ [B!Next]_(B!vars) => B!BrokerInv'
BY BrokerAssumptions, B!BrokerInvInit, B!BrokerInvStep

LEMMA StreamInductive ==
  /\ M!Init => M!IInv
  /\ M!IInv /\ [M!Next]_(M!vars) => M!IInv'
BY QueueAssumption, NoneAssumption, AnnouncementAssumption, M!IInvInit, M!IInvStep

\* INSTANCE names the library's operators anew, but does not change them.
LEMMA SameCardinality == \A S : B!Cardinality(S) = Cardinality(S) /\ Broker!Cardinality(S) = Cardinality(S)
                                /\ M!Cardinality(S) = Cardinality(S)
BY DEF Cardinality, B!Cardinality, Broker!Cardinality, M!Cardinality

----------------------------------------------------------------------------
(* The steps of the broker, seen through the requests.                     *)

\* An attempt that is over, unlike one ended by a panic, has something to show.
Shown(r) == r[2] > 1 /\ at[r] = "exit" => got[r] # "none"

\* Of the steps of the broker, only the panic of a send can end the process.
LEMMA OnlyPanics ==
  ASSUME CallsInv, ~crashed, BrokerStep, ~ \E r \in Broker!Req : r[2] > 1 /\ Broker!SendPanics(r)
  PROVE  ~PanicEnded /\ ~PanicEnded' /\ UNCHANGED crashed
<1> USE DEF CallsInv, B!BrokerInv, B!IInv
<1>1. ~PanicEnded /\ \A r \in Broker!Req : Shown(r)
  BY DEF PanicSeen, PanicEnded, Shown
<1> SUFFICES UNCHANGED crashed /\ \A r \in Broker!Req : Shown(r)'
  BY <1>1 DEF PanicEnded, Shown
<1>2. /\ at \in [Broker!Req -> B!Places]
      /\ got \in [Broker!Req -> B!Replies \cup B!Failures \cup {"allFailed", "none"}]
      /\ result \in [Broker!Req -> B!Replies \cup {"none"}]
  BY DEF B!TypeOK, B!AttemptsOK, B!RegistryOK, B!Req, Broker!Req
<1>3. ASSUME NEW r \in Broker!Req, at[r] \in {"done", "offer"} PROVE got[r] # "none"
  BY <1>3 DEF B!AttemptShape, Broker!Req, B!Req
<1>4. ASSUME UNCHANGED <<crashed, got>>,
             \A r \in Broker!Req : at'[r] = at[r] \/ at'[r] # "exit" \/ r[2] = 1 \/ at[r] \in {"done", "offer"}
      PROVE  UNCHANGED crashed /\ \A r \in Broker!Req : Shown(r)'
  BY <1>1, <1>3, <1>4 DEF Shown
<1>5. CASE \E q \in Requests : SendRequest(q) \/ Broker!CallStep(q) \/ Broker!Cancel(q)
  <2>1. UNCHANGED <<crashed, got>>
    BY <1>5 DEF SendRequest, Broker!SendRequest, Broker!CallStep, Broker!FirstReturns,
       Broker!FanOut, Broker!ReceiveReply, Broker!SelectCtxDone, Broker!Cancel, Broker!attempts
  <2>2. ASSUME NEW q \in Requests, SendRequest(q) \/ Broker!CallStep(q) \/ Broker!Cancel(q), NEW r \in Broker!Req
        PROVE  at'[r] = at[r] \/ at'[r] # "exit" \/ r[2] = 1 \/ at[r] \in {"done", "offer"}
    <3>1. CASE SendRequest(q) \/ Broker!Cancel(q) \/ Broker!SelectCtxDone(q)
      BY <1>2, <3>1 DEF SendRequest, Broker!SendRequest, Broker!Cancel, Broker!SelectCtxDone, Broker!attempts
    <3>2. CASE Broker!FirstReturns(q)
      BY <1>2, <3>2 DEF Broker!FirstReturns
    <3>3. CASE Broker!FanOut(q)
      BY <1>2, <3>3 DEF Broker!FanOut
    <3>4. CASE Broker!ReceiveReply(q)
      BY <1>2, <3>4 DEF Broker!ReceiveReply
    <3> QED BY <2>2, <3>1, <3>2, <3>3, <3>4 DEF Broker!CallStep
  <2> QED BY <1>4, <1>5, <2>1, <2>2
<1>6. ASSUME NEW r \in Broker!Req, Broker!AttemptStep(r), ~(r[2] > 1 /\ Broker!SendPanics(r))
      PROVE  UNCHANGED crashed /\ \A q \in Broker!Req : Shown(q)'
  <2>0. r[2] \in Nat \ {0} /\ r[1] \in Requests /\ r = <<r[1], r[2]>>
    BY ConnsCount DEF Broker!Req
  <2>1. CASE Broker!Register(r) \/ Broker!PassCheck(r) \/ Broker!Enqueue(r) \/ Broker!EnterOnce(r)
             \/ Broker!LeaveOnce(r) \/ Broker!SendPanics(r)
    BY <1>2, <1>4, <1>6, <2>0, <2>1 DEF Broker!Register, Broker!PassCheck, Broker!Enqueue,
       Broker!EnterOnce, Broker!LeaveOnce, Broker!SendPanics
  <2>2. CASE Broker!GiveUp(r) \/ Broker!AcceptReply(r)
    <3>1. UNCHANGED crashed /\ at' = [at EXCEPT ![r] = "done"] /\ \A q \in Broker!Req \ {r} : got'[q] = got[q]
      BY <1>2, <2>2 DEF Broker!GiveUp, Broker!AcceptReply
    <3> QED BY <1>1, <1>2, <3>1 DEF Shown
  <2>3. CASE Broker!CountFailure(r)
    <3>1. UNCHANGED crashed /\ got[r] # "none" /\ (got' = got \/ got' = [got EXCEPT ![r] = "allFailed"])
      BY <2>3 DEF Broker!CountFailure, Broker!Failures
    <3>2. \A q \in Broker!Req \ {r} : at'[q] = at[q]
      BY <1>2, <2>3 DEF Broker!CountFailure
    <3> QED BY <1>1, <1>2, <3>1, <3>2 DEF Shown
  <2> QED BY <1>6, <2>1, <2>2, <2>3 DEF Broker!AttemptStep
<1>7. CASE \/ \E r \in Broker!Req, a \in Broker!Answers : Broker!ResponseEvent(r, a)
           \/ \E m \in replying : Broker!DeliverReply(m)
           \/ \E late \in SUBSET idRequest \ {{}} : Broker!CleanRequests(late)
           \/ \E x \in Conns, r \in Broker!Req : Broker!Take(x, r)
  BY <1>4, <1>7 DEF Broker!ResponseEvent, Broker!DeliverReply, Broker!CleanRequests, Broker!Take,
     Broker!attempts
<1> QED BY <1>5, <1>6, <1>7 DEF BrokerStep

\* What such a step does to the queues: nothing, or it is Enqueue or Take.
LEMMA QueuesUnmoved ==
  ASSUME UNCHANGED <<stream, out>>
  PROVE  UNCHANGED <<done, {x \in Conns : pc[x] = "closed"}, [x \in Conns |-> out[x] \ {Announcement}],
                     [x \in Conns |-> out[x] \cap {Announcement}]>>
BY DEF stream, conns

LEMMA SendSeen ==
  ASSUME CallsInv, UNCHANGED <<stream, PanicEnded>>, NEW q \in Requests, SendRequest(q)
  PROVE  /\ UNCHANGED out
         /\ \E l \in UNION {Orderings(S) : S \in SUBSET Conns} : B!SendRequest(q, l)
<1>1. PICK l \in Orderings(targets[q]) : Broker!SendRequest(q, l)
  BY DEF SendRequest
<1>2. UNCHANGED out
  BY <1>1 DEF Broker!SendRequest, Broker!streams
<1>3. B!SendRequest(q, l)
  BY <1>1, <1>2, QueuesUnmoved DEF Broker!SendRequest, B!SendRequest, Broker!streams, B!streams,
     Broker!registry, B!registry, Broker!Return, B!Return
<1>4. targets[q] \in SUBSET Conns
  BY DEF CallsInv, M!IInv, M!TypeOK
<1> QED BY <1>2, <1>3, <1>4

LEMMA CallSeen ==
  ASSUME UNCHANGED <<stream, PanicEnded>>, NEW q \in Requests, Broker!CallStep(q) \/ Broker!Cancel(q)
  PROVE  UNCHANGED out /\ (B!CallStep(q) \/ B!Cancel(q))
<1>1. UNCHANGED out
  BY DEF Broker!CallStep, Broker!FirstReturns, Broker!FanOut, Broker!ReceiveReply,
     Broker!SelectCtxDone, Broker!Cancel, Broker!streams
<1> QED BY <1>1, QueuesUnmoved DEF Broker!CallStep, B!CallStep, Broker!FirstReturns, B!FirstReturns,
     Broker!FanOut, B!FanOut, Broker!ReceiveReply, B!ReceiveReply, Broker!SelectCtxDone, B!SelectCtxDone,
     Broker!Cancel, B!Cancel, Broker!Return, B!Return, Broker!Retriable, B!Retriable, Broker!Others, B!Others,
     Broker!Failures, B!Failures, Broker!Req, B!Req,
     Broker!streams, B!streams, Broker!registry, B!registry, Broker!attempts, B!attempts

LEMMA AttemptSeen ==
  ASSUME UNCHANGED <<stream, PanicEnded>>, NEW r \in Broker!Req, Broker!AttemptStep(r),
         ~Broker!Enqueue(r), ~Broker!SendPanics(r)
  PROVE  UNCHANGED out /\ B!AttemptStep(r)
<1> USE DEF Broker!streams, B!streams, Broker!registry, B!registry, Broker!callers, B!callers,
        Broker!ChanOf, B!ChanOf, Broker!Failures, B!Failures, Broker!Replies, B!Replies,
        Broker!Answers, B!Answers
<1>1. UNCHANGED out
  BY DEF Broker!AttemptStep, Broker!Register, Broker!GiveUp, Broker!PassCheck,
     Broker!AcceptReply, Broker!CountFailure, Broker!EnterOnce, Broker!LeaveOnce
<1>2. Broker!Register(r) => B!Register(r)
  BY <1>1, QueuesUnmoved DEF Broker!Register, B!Register
<1>3. Broker!GiveUp(r) => B!GiveUp(r)
  BY <1>1, QueuesUnmoved DEF Broker!GiveUp, B!GiveUp
<1>4. Broker!PassCheck(r) => B!PassCheck(r)
  BY <1>1, QueuesUnmoved DEF Broker!PassCheck, B!PassCheck
<1>5. Broker!AcceptReply(r) => B!AcceptReply(r)
  BY <1>1, QueuesUnmoved DEF Broker!AcceptReply, B!AcceptReply
<1>6. Broker!CountFailure(r) => B!CountFailure(r)
  BY <1>1, QueuesUnmoved DEF Broker!CountFailure, B!CountFailure, Broker!LastFailure, B!LastFailure
<1>7. Broker!EnterOnce(r) => B!EnterOnce(r)
  BY <1>1, QueuesUnmoved DEF Broker!EnterOnce, B!EnterOnce, Broker!OnceIsFree, B!OnceIsFree
<1>8. Broker!LeaveOnce(r) => B!LeaveOnce(r)
  BY <1>1, QueuesUnmoved DEF Broker!LeaveOnce, B!LeaveOnce
<1> QED BY <1>1, <1>2, <1>3, <1>4, <1>5, <1>6, <1>7, <1>8 DEF Broker!AttemptStep, B!AttemptStep

LEMMA RequestIsNoAnnouncement == Announcement \notin Broker!Req /\ Broker!Req = B!Req
BY RequestAssumption DEF Broker!Req, B!Req

\* Room for a request beside the announcement is room for it without.
LEMMA EnqueueSeen ==
  ASSUME CallsInv, UNCHANGED <<stream, PanicEnded>>, NEW r \in Broker!Req, Broker!Enqueue(r)
  PROVE  B!Enqueue(r) /\ UNCHANGED [x \in Conns |-> out[x] \cap {Announcement}]
<1> DEFINE c == B!ChanOf(r)
           queue == [x \in Conns |-> out[x] \ {Announcement}]
<1>1. /\ at[r] = "send" /\ c \notin {x \in Conns : pc[x] = "closed"} /\ c = Broker!ChanOf(r)
      /\ Cardinality(out[c]) < QueueSize /\ out' = [out EXCEPT ![c] = @ \cup {r}]
  BY SameCardinality DEF Broker!Enqueue, Broker!ChanOf, B!ChanOf
<1>2. c \in Conns
  <2>1. r[1] \in Requests /\ r[2] \in 1..Cardinality(Conns) /\ r[2] \in Nat \ {0} /\ r = <<r[1], r[2]>>
    BY ConnsCount DEF Broker!Req
  <2>2. r[2] <= Len(list[r[1]])
    BY <1>1, <2>1 DEF CallsInv, B!BrokerInv, B!FanShape, B!FanOf, B!Caused
  <2>3. list[r[1]] \in Seq(Conns)
    BY <2>1, ListOfConns DEF CallsInv, B!BrokerInv, B!IInv, B!TypeOK
  <2>4. \A s \in Seq(Conns), n \in Nat \ {0} : n <= Len(s) => s[n] \in Conns
    OBVIOUS
  <2>5. c = list[r[1]][r[2]]
    BY DEF B!ChanOf
  <2>6. Len(list[r[1]]) \in Nat
    BY <2>3
  <2> QED BY <2>1, <2>2, <2>3, <2>4, <2>5, <2>6
<1>3. out \in [Conns -> SUBSET (B!Req \cup {Announcement})] /\ IsFiniteSet(out[c])
  BY <1>2 DEF CallsInv, TypesOK, QueuesOK
<1>4. Cardinality(queue[c]) < QueueSize
  <2>1. Cardinality(queue[c]) <= Cardinality(out[c]) /\ Cardinality(queue[c]) \in Nat /\ Cardinality(out[c]) \in Nat
    BY <1>2, <1>3, FS_Subset, FS_CardinalityType
  <2> QED BY <1>1, <2>1, QueueAssumption
<1>5. queue' = [queue EXCEPT ![c] = @ \cup {r}]
  BY <1>1, <1>2, <1>3, RequestIsNoAnnouncement
<1>6. UNCHANGED [x \in Conns |-> out[x] \cap {Announcement}]
  BY <1>1, <1>2, <1>3, RequestIsNoAnnouncement
<1>7. UNCHANGED <<done, {x \in Conns : pc[x] = "closed"}>>
  BY DEF stream, conns
<1>8. B!Enqueue(r)
  BY <1>1, <1>4, <1>5, <1>7, SameCardinality DEF Broker!Enqueue, B!Enqueue,
     Broker!registry, B!registry, Broker!callers, B!callers
<1> QED BY <1>6, <1>8

\* A panic of a goroutine's send is seen as the end of the process on both sides.
LEMMA PanicShows ==
  ASSUME CallsInv, UNCHANGED stream, NEW r \in Broker!Req, Broker!SendPanics(r),
         r[2] > 1 \/ UNCHANGED PanicEnded
  PROVE  B!SendPanics(r) /\ UNCHANGED out /\ (r[2] > 1 => PanicEnded' /\ crashed')
<1>1. UNCHANGED out /\ got[r] = "none"
  <2>1. r[1] \in Requests /\ r[2] \in 1..Cardinality(Conns) /\ r = <<r[1], r[2]>> /\ at[r] = "send"
    BY DEF Broker!Req, Broker!SendPanics
  <2>2. got[r] = "none"
    BY <2>1 DEF CallsInv, B!BrokerInv, B!FanShape, B!FanOf, B!Caused
  <2> QED BY <2>2 DEF Broker!SendPanics, Broker!streams
<1>2. r[2] > 1 => PanicEnded' /\ crashed'
  <2>1. at' = [at EXCEPT ![r] = "exit"] /\ got' = got /\ at \in [Broker!Req -> B!Places]
    BY RequestIsNoAnnouncement DEF Broker!SendPanics, CallsInv, B!BrokerInv, B!IInv, B!TypeOK, B!AttemptsOK
  <2>2. at'[r] = "exit" /\ got'[r] = "none"
    BY <1>1, <2>1
  <2>3. r[2] > 1 => PanicEnded'
    BY <2>2 DEF PanicEnded, Broker!Req
  <2> QED BY <2>3, ConnsCount DEF Broker!SendPanics, Broker!Req
<1>3. B!SendPanics(r)
  <2>1. UNCHANGED B!streams
    BY <1>1, QueuesUnmoved DEF Broker!SendPanics, Broker!streams, B!streams
  <2>2. /\ at[r] = "send" /\ B!ChanOf(r) \in {x \in Conns : pc[x] = "closed"}
        /\ at' = [at EXCEPT ![r] = "exit"] /\ UNCHANGED <<B!registry, got>>
    BY DEF Broker!SendPanics, Broker!ChanOf, B!ChanOf, Broker!registry, B!registry
  <2>3. CASE r[2] > 1
    <3>1. PanicEnded' = TRUE
      BY <1>2, <2>3 DEF PanicEnded
    <3>2. UNCHANGED B!callers
      BY <2>3, ConnsCount DEF Broker!SendPanics, Broker!callers, B!callers, Broker!Req
    <3> QED BY <2>1, <2>2, <2>3, <3>1, <3>2 DEF B!SendPanics
  <2>4. CASE ~(r[2] > 1)
    <3>1. r[2] = 1 /\ B!Return(r[1], "panic") /\ UNCHANGED PanicEnded
      BY <2>4 DEF Broker!SendPanics, Broker!Return, B!Return
    <3> QED BY <2>1, <2>2, <3>1 DEF B!SendPanics
  <2> QED BY <2>3, <2>4
<1> QED BY <1>1, <1>2, <1>3

LEMMA RestSeen ==
  ASSUME UNCHANGED <<stream, PanicEnded>>,
         \/ \E r \in Broker!Req, a \in Broker!Answers : Broker!ResponseEvent(r, a)
         \/ \E m \in replying : Broker!DeliverReply(m)
         \/ \E late \in SUBSET idRequest \ {{}} : Broker!CleanRequests(late)
  PROVE  /\ UNCHANGED out
         /\ \/ \E r \in B!Req, a \in B!Answers : B!ResponseEvent(r, a)
            \/ \E m \in replying : B!DeliverReply(m)
            \/ \E late \in SUBSET idRequest \ {{}} : B!CleanRequests(late)
<1>1. UNCHANGED out
  BY DEF Broker!ResponseEvent, Broker!DeliverReply, Broker!CleanRequests, Broker!streams
<1> QED BY <1>1, QueuesUnmoved DEF Broker!ResponseEvent, B!ResponseEvent, Broker!DeliverReply, B!DeliverReply,
     Broker!CleanRequests, B!CleanRequests, Broker!Forget, B!Forget, Broker!Req, B!Req,
     Broker!Answers, B!Answers, Broker!streams, B!streams, Broker!callers, B!callers,
     Broker!attempts, B!attempts

LEMMA TakeSeen ==
  ASSUME CallsInv, UNCHANGED <<stream, PanicEnded>>, NEW x \in Conns, NEW r \in Broker!Req, Broker!Take(x, r)
  PROVE  B!Take(x, r) /\ UNCHANGED [y \in Conns |-> out[y] \cap {Announcement}]
<1> DEFINE queue == [y \in Conns |-> out[y] \ {Announcement}]
<1>1. r \in out[x] /\ out' = [out EXCEPT ![x] = @ \ {r}]
  BY DEF Broker!Take
<1>2. out \in [Conns -> SUBSET (B!Req \cup {Announcement})]
  BY DEF CallsInv, TypesOK
<1>3. r \in queue[x] /\ queue' = [queue EXCEPT ![x] = @ \ {r}]
  BY <1>1, <1>2, RequestIsNoAnnouncement
<1>4. UNCHANGED [y \in Conns |-> out[y] \cap {Announcement}]
  BY <1>1, <1>2, RequestIsNoAnnouncement
<1>5. UNCHANGED <<done, {y \in Conns : pc[y] = "closed"}>>
  BY DEF stream, conns
<1>6. B!Take(x, r)
  BY <1>3, <1>5 DEF Broker!Take, B!Take, Broker!registry, B!registry, Broker!callers, B!callers,
     Broker!attempts, B!attempts
<1> QED BY <1>4, <1>6

\* A step of the broker is one of BaseEvent, and the stream does not see it.
LEMMA BrokerSeen ==
  ASSUME CallsInv, ~crashed, BrokerStep
  PROVE  /\ B!Next /\ UNCHANGED M!vars
         /\ (PanicEnded' <=> crashed') /\ crashed' \in BOOLEAN
<1> DEFINE notes == [x \in Conns |-> out[x] \cap {Announcement}]
<1>1. UNCHANGED stream /\ ~PanicEnded /\ Broker!Req = B!Req
  BY RequestIsNoAnnouncement DEF BrokerStep, CallsInv, PanicSeen
<1>2. ASSUME UNCHANGED notes, (PanicEnded' <=> crashed') PROVE UNCHANGED M!vars
  <2>1. (crashed /\ ~PanicEnded)' = (crashed /\ ~PanicEnded)
    BY <1>2
  <2> QED BY <1>1, <1>2, <2>1 DEF M!vars, M!conns, M!senders, stream, conns, senders
<1>3. UNCHANGED out => UNCHANGED notes
  OBVIOUS
<1>4. CASE \E r \in Broker!Req : r[2] > 1 /\ Broker!SendPanics(r)
  <2>1. PICK r \in Broker!Req : r[2] > 1 /\ Broker!SendPanics(r)
    BY <1>4
  <2>2. B!SendPanics(r) /\ UNCHANGED notes /\ PanicEnded' /\ crashed'
    BY <1>1, <1>3, <2>1, PanicShows
  <2>3. crashed' = TRUE
    BY <2>1, ConnsCount DEF Broker!SendPanics, Broker!Req
  <2> QED BY <1>1, <1>2, <2>2, <2>3 DEF B!Next, B!AttemptStep
<1>5. CASE ~ \E r \in Broker!Req : r[2] > 1 /\ Broker!SendPanics(r)
  <2>1. ~PanicEnded' /\ UNCHANGED crashed
    BY <1>5, OnlyPanics
  <2>2. UNCHANGED PanicEnded
    BY <1>1, <2>1 DEF PanicEnded
  <2>3. ASSUME NEW q \in Requests, SendRequest(q) \/ Broker!CallStep(q) \/ Broker!Cancel(q)
        PROVE  B!Next /\ UNCHANGED notes
    BY <1>1, <1>3, <2>2, <2>3, SendSeen, CallSeen DEF B!Next, B!EnvStep
  <2>4. ASSUME NEW r \in Broker!Req, Broker!AttemptStep(r) PROVE B!Next /\ UNCHANGED notes
    <3>1. CASE Broker!Enqueue(r)
      BY <1>1, <2>2, <3>1, EnqueueSeen DEF B!Next, B!AttemptStep
    <3>2. CASE Broker!SendPanics(r)
      BY <1>1, <1>3, <2>2, <3>2, PanicShows DEF B!Next, B!AttemptStep
    <3>3. CASE ~Broker!Enqueue(r) /\ ~Broker!SendPanics(r)
      BY <1>1, <1>3, <2>2, <2>4, <3>3, AttemptSeen DEF B!Next
    <3> QED BY <3>1, <3>2, <3>3
  <2>5. ASSUME \/ \E r \in Broker!Req, a \in Broker!Answers : Broker!ResponseEvent(r, a)
               \/ \E m \in replying : Broker!DeliverReply(m)
               \/ \E late \in SUBSET idRequest \ {{}} : Broker!CleanRequests(late)
        PROVE  B!Next /\ UNCHANGED notes
    BY <1>1, <1>3, <2>2, <2>5, RestSeen DEF B!Next
  <2>6. ASSUME NEW x \in Conns, NEW r \in Broker!Req, Broker!Take(x, r) PROVE B!Next /\ UNCHANGED notes
    BY <1>1, <2>2, <2>6, TakeSeen DEF B!Next, B!EnvStep
  <2>7. B!Next /\ UNCHANGED notes
    BY <2>3, <2>4, <2>5, <2>6 DEF BrokerStep
  <2>8. crashed' \in BOOLEAN
    BY <2>1 DEF CallsInv, TypesOK
  <2> QED BY <1>2, <2>1, <2>7, <2>8
<1> QED BY <1>4, <1>5

----------------------------------------------------------------------------
(* The steps of the stream, seen through the announcements.                *)

\* None of them touches a call or an attempt.
LEMMA BrokerIdle ==
  ASSUME CallsInv, ~crashed, UNCHANGED broker
  PROVE  ~PanicEnded /\ ~PanicEnded' /\ UNCHANGED PanicEnded
BY DEF CallsInv, PanicSeen, PanicEnded, broker

\* The queues of the two views, when out itself is left alone.
LEMMA NotesUnmoved == UNCHANGED out => UNCHANGED [x \in Conns |-> out[x] \cap {Announcement}]
OBVIOUS

LEMMA ConnSeen ==
  ASSUME CallsInv, ~crashed, UNCHANGED broker, NEW x \in Conns, ConnStep(x)
  PROVE  M!ConnStep(x)
<1> USE DEF M!Goto, Goto, M!conns, conns, M!senders, senders
<1>1. ~PanicEnded /\ ~PanicEnded' /\ UNCHANGED PanicEnded
  BY BrokerIdle
<1>2. CASE AddChanel(x)
  BY <1>1, <1>2, NotesUnmoved DEF AddChanel, M!AddChanel, M!ConnStep
<1>3. CASE InitConnect(x)
  <2> DEFINE notes == [y \in Conns |-> out[y] \cap {Announcement}]
  <2>1. out \in [Conns -> SUBSET (B!Req \cup {Announcement})] /\ out' = [out EXCEPT ![x] = @ \cup {Announcement}]
    BY <1>3 DEF InitConnect, Put, CallsInv, TypesOK
  <2>2. notes[x] = {} /\ notes' = [notes EXCEPT ![x] = @ \cup {Announcement}]
    BY <1>3, <2>1 DEF InitConnect, CallsInv, QueuesOK
  <2>3. M!Cardinality(notes[x]) < QueueSize
    BY <2>2, SameCardinality, FS_EmptySet, QueueAssumption
  <2> QED BY <1>1, <1>3, <2>2, <2>3 DEF InitConnect, M!InitConnect, M!Put, M!ConnStep
<1>4. CASE RemoveChanel(x)
  <2>1. crashed \in BOOLEAN /\ crashed' \in BOOLEAN
    BY <1>4 DEF RemoveChanel, WriteMap, CallsInv, TypesOK, M!IInv, M!TypeOK
  <2> QED BY <1>1, <1>4, <2>1, NotesUnmoved DEF RemoveChanel, M!RemoveChanel, M!ConnStep, WriteMap, M!WriteMap,
       Ended, M!Ended, Without, M!Without, Empty, M!Empty
<1>5. CASE CloseOut(x)
  BY <1>1, <1>5, NotesUnmoved DEF CloseOut, M!CloseOut, M!ConnStep
<1> QED BY <1>2, <1>3, <1>4, <1>5 DEF ConnStep

LEMMA CallSeenByStream ==
  ASSUME CallsInv, ~crashed, UNCHANGED broker, NEW q \in Requests,
         ListChannels(q) \/ \E m \in Miners : SectorsUnsealPiece(q, m)
  PROVE  M!SenderStep(q)
<1>1. ~PanicEnded /\ ~PanicEnded' /\ UNCHANGED PanicEnded
  BY BrokerIdle
<1> QED BY <1>1, NotesUnmoved DEF ListChannels, M!ListChannels, SectorsUnsealPiece, LookupMiner, M!LookupMiner,
     StoreOf, M!StoreOf, M!SenderStep, M!conns, conns

LEMMA ListenSeen ==
  ASSUME CallsInv, ~crashed, UNCHANGED broker, NEW x \in Conns, NEW m \in Miners, ListenMarketEvent(x, m)
  PROVE  M!ListenMarketEvent(x, m)
<1>1. ~PanicEnded /\ ~PanicEnded' /\ UNCHANGED PanicEnded
  BY BrokerIdle
<1>2. crashed \in BOOLEAN /\ crashed' \in BOOLEAN
  BY DEF ListenMarketEvent, WriteMap, CallsInv, TypesOK, M!IInv, M!TypeOK
<1> QED BY <1>1, <1>2, NotesUnmoved DEF ListenMarketEvent, M!ListenMarketEvent, WriteMap, M!WriteMap,
     Goto, M!Goto, M!senders, senders

LEMMA EnvSeen ==
  ASSUME CallsInv, ~crashed, UNCHANGED broker,
         \/ \E x \in Conns : EndConnection(x) \/ TakeAnnouncement(x)
         \/ BeginList \/ EndList
  PROVE  \/ \E x \in Conns : M!EndConnection(x) \/ M!ForwardToClient(x)
         \/ M!BeginList \/ M!EndList
<1> USE DEF M!conns, conns, M!senders, senders
<1>1. ~PanicEnded /\ ~PanicEnded' /\ UNCHANGED PanicEnded
  BY BrokerIdle
<1>2. ASSUME NEW x \in Conns, TakeAnnouncement(x) PROVE M!ForwardToClient(x)
  <2> DEFINE notes == [y \in Conns |-> out[y] \cap {Announcement}]
  <2>1. /\ out \in [Conns -> SUBSET (B!Req \cup {Announcement})] /\ Announcement \in out[x]
        /\ out' = [out EXCEPT ![x] = @ \ {Announcement}]
    <3>1. PICK e \in out[x] : out' = [out EXCEPT ![x] = @ \ {e}]
      BY <1>2 DEF TakeAnnouncement, ForwardToClient
    <3>2. out \in [Conns -> SUBSET (B!Req \cup {Announcement})]
      BY DEF CallsInv, TypesOK
    <3>3. out[x] \ out'[x] = {e}
      BY <3>1, <3>2
    <3>4. e = Announcement
      BY <1>2, <3>3 DEF TakeAnnouncement
    <3> QED BY <3>1, <3>2, <3>4
  <2>2. Announcement \in notes[x] /\ notes' = [notes EXCEPT ![x] = @ \ {Announcement}]
    BY <2>1
  <2> QED BY <1>1, <1>2, <2>2 DEF TakeAnnouncement, ForwardToClient, M!ForwardToClient
<1>3. \A x \in Conns : EndConnection(x) => M!EndConnection(x)
  BY <1>1, NotesUnmoved DEF EndConnection, M!EndConnection
<1>4. (BeginList => M!BeginList) /\ (EndList => M!EndList)
  BY <1>1, NotesUnmoved DEF BeginList, M!BeginList, EndList, M!EndList
<1> QED BY <1>2, <1>3, <1>4

\* A step of the stream is one of MarketStream.
LEMMA StreamSeen ==
  ASSUME CallsInv, ~crashed, StreamStep
  PROVE  M!Next
<1>1. UNCHANGED broker /\ ~(crashed /\ ~PanicEnded)
  BY DEF StreamStep
<1> QED BY <1>1, CallSeenByStream, ListenSeen, ConnSeen, EnvSeen DEF StreamStep, M!Next

\* The broker sees the ending of a connection and the closing of its out, and no
\* other step of the stream.
LEMMA StreamSeenByBroker ==
  ASSUME CallsInv, ~crashed, StreamStep
  PROVE  [B!Next]_(B!vars)
<1> DEFINE shut == {x \in Conns : pc[x] = "closed"}
           queue == [x \in Conns |-> out[x] \ {Announcement}]
<1> USE DEF broker
<1>1. UNCHANGED broker /\ ~PanicEnded /\ UNCHANGED PanicEnded
  BY BrokerIdle DEF StreamStep
<1>2. /\ out \in [Conns -> SUBSET (B!Req \cup {Announcement})]
      /\ pc \in [Conns -> {"idle", "add", "init", "wait", "close", "closed"}]
  BY DEF CallsInv, TypesOK, M!IInv, M!TypeOK
<1>3. ASSUME UNCHANGED <<done, shut, queue>> PROVE UNCHANGED B!vars
  BY <1>1, <1>3 DEF B!vars, B!registry, B!streams, B!callers, B!attempts
<1>4. ASSUME NEW x \in Conns, NEW m \in Miners, ListenMarketEvent(x, m) PROVE UNCHANGED B!vars
  <2>1. UNCHANGED <<done, out>> /\ pc[x] = "idle" /\ pc' = [pc EXCEPT ![x] = "add"]
    BY <1>4 DEF ListenMarketEvent, Goto
  <2> QED BY <1>2, <1>3, <2>1
<1>5. ASSUME NEW x \in Conns, AddChanel(x) \/ InitConnect(x) \/ RemoveChanel(x) PROVE UNCHANGED B!vars
  <2>1. UNCHANGED done /\ pc[x] \notin {"close", "closed"}
    BY <1>5 DEF AddChanel, InitConnect, RemoveChanel
  <2>2. UNCHANGED pc \/ \E p \in {"init", "wait", "close"} : pc' = [pc EXCEPT ![x] = p]
    BY <1>5 DEF AddChanel, InitConnect, RemoveChanel, Goto
  <2>3. UNCHANGED shut
    BY <1>2, <2>1, <2>2
  <2>4. UNCHANGED queue
    BY <1>2, <1>5 DEF AddChanel, InitConnect, RemoveChanel, Put
  <2> QED BY <1>3, <2>1, <2>3, <2>4
<1>6. ASSUME NEW x \in Conns, CloseOut(x) PROVE B!CloseOutBound(x)
  <2>1. pc[x] = "close" /\ pc' = [pc EXCEPT ![x] = "closed"] /\ UNCHANGED <<done, out>>
    BY <1>6 DEF CloseOut, Goto
  <2>2. x \in done
    BY <2>1 DEF CallsInv, EndedFirst
  <2>3. shut' = shut \cup {x} /\ x \notin shut
    BY <1>2, <2>1
  <2> QED BY <1>1, <2>1, <2>2, <2>3 DEF B!CloseOutBound, B!registry, B!callers, B!attempts
<1>7. ASSUME NEW x \in Conns, EndConnection(x) PROVE B!Disconnect(x)
  BY <1>1, <1>7 DEF EndConnection, B!Disconnect, conns, B!registry, B!callers, B!attempts
<1>8. ASSUME NEW x \in Conns, TakeAnnouncement(x) PROVE UNCHANGED B!vars
  <2>1. PICK e \in out[x] : out' = [out EXCEPT ![x] = @ \ {e}]
    BY <1>8 DEF TakeAnnouncement, ForwardToClient
  <2>2. out[x] \ out'[x] = {e}
    BY <1>2, <2>1
  <2>3. e = Announcement
    BY <1>8, <2>2 DEF TakeAnnouncement
  <2>4. UNCHANGED <<done, shut>>
    BY <1>8 DEF TakeAnnouncement, ForwardToClient, conns
  <2>5. UNCHANGED queue
    BY <1>2, <2>1, <2>3
  <2> QED BY <1>3, <2>4, <2>5
<1>9. ASSUME \/ \E q \in Requests : ListChannels(q) \/ \E m \in Miners : SectorsUnsealPiece(q, m)
             \/ BeginList \/ EndList
      PROVE  UNCHANGED B!vars
  <2>1. UNCHANGED <<done, out, pc>>
    BY <1>9 DEF ListChannels, SectorsUnsealPiece, LookupMiner, BeginList, EndList, conns
  <2> QED BY <1>3, <2>1
<1> QED BY <1>1, <1>4, <1>5, <1>6, <1>7, <1>8, <1>9 DEF StreamStep, ConnStep, B!Next, B!EnvStep

----------------------------------------------------------------------------
(* What ties the two together is kept by the steps of the broker.          *)

\* No attempt is unmade, and a list is given once, to an idle call.
LEMMA ListFrame ==
  ASSUME CallsInv, ~crashed, BrokerStep
  PROVE  /\ \A r \in B!Req : at[r] # "none" => at'[r] # "none"
         /\ \A q \in Requests :
              \/ list'[q] = list[q] /\ (cpc'[q] = cpc[q] \/ cpc[q] # "idle")
              \/ cpc[q] = "idle" /\ qpc[q] = "send" /\ list'[q] \in Orderings(targets[q])
<1> DEFINE Given(q) ==
             \/ list'[q] = list[q] /\ (cpc'[q] = cpc[q] \/ cpc[q] # "idle")
             \/ cpc[q] = "idle" /\ qpc[q] = "send" /\ list'[q] \in Orderings(targets[q])
           Made == \A r \in B!Req : at[r] # "none" => at'[r] # "none"
<1> SUFFICES Made /\ \A q \in Requests : Given(q)
  OBVIOUS
<1>0. list = [q \in Requests |-> list[q]]
  BY DEF CallsInv, B!BrokerInv, B!IInv, B!TypeOK, B!CallersOK
<1>1. /\ cpc \in [Requests -> B!Pcs] /\ at \in [B!Req -> B!Places] /\ Broker!Req = B!Req
  BY RequestIsNoAnnouncement DEF CallsInv, B!BrokerInv, B!IInv, B!TypeOK, B!CallersOK, B!AttemptsOK
<1>2. ASSUME NEW q \in Requests, SendRequest(q) PROVE Made /\ \A p \in Requests : Given(p)
  <2>1. PICK l \in Orderings(targets[q]) : Broker!SendRequest(q, l)
    BY <1>2 DEF SendRequest
  <2>2. cpc[q] = "idle" /\ qpc[q] = "send"
    BY <1>2, <2>1 DEF SendRequest, Broker!SendRequest
  <2>3. Made
    BY <1>1, <2>1 DEF Broker!SendRequest
  <2>4. \A p \in Requests : p # q => list'[p] = list[p] /\ cpc'[p] = cpc[p]
    BY <1>0, <1>1, <2>1 DEF Broker!SendRequest, Broker!Return
  <2>5. l # <<>>
    <3>1. targets[q] \in SUBSET Conns /\ targets[q] # {}
      BY <2>2 DEF CallsInv, M!IInv, M!TypeOK, RouteOK, AimedOf
    <3>2. IsFiniteSet(targets[q]) /\ Cardinality(targets[q]) # 0
      BY <3>1, ConnsAssumption, FS_Subset, FS_EmptySet
    <3> QED BY <2>1, <3>1, <3>2, OrderingIsList
  <2>6. list'[q] = l
    BY <1>0, <1>1, <2>1, <2>5 DEF Broker!SendRequest, Broker!Return
  <2> QED BY <2>1, <2>2, <2>3, <2>4, <2>6
<1>3. ASSUME NEW q \in Requests, Broker!CallStep(q) \/ Broker!Cancel(q)
      PROVE  Made /\ \A p \in Requests : Given(p)
  <2>1. UNCHANGED list
    BY <1>3 DEF Broker!CallStep, Broker!FirstReturns, Broker!FanOut, Broker!ReceiveReply,
       Broker!SelectCtxDone, Broker!Cancel, Broker!Return
  <2>2. UNCHANGED cpc \/ (cpc[q] \in {"first", "select"} /\ \E p \in {"select", "returned"} : cpc' = [cpc EXCEPT ![q] = p])
    BY <1>3 DEF Broker!CallStep, Broker!FirstReturns, Broker!FanOut, Broker!ReceiveReply,
       Broker!SelectCtxDone, Broker!Cancel, Broker!Return
  <2>3. Made
    <3>1. CASE Broker!FanOut(q)
      BY <1>1, <3>1 DEF Broker!FanOut
    <3>2. CASE Broker!Cancel(q) \/ Broker!SelectCtxDone(q)
      BY <3>2 DEF Broker!Cancel, Broker!SelectCtxDone, Broker!attempts
    <3>3. CASE Broker!FirstReturns(q) \/ Broker!ReceiveReply(q)
      BY <1>1, <3>3 DEF Broker!FirstReturns, Broker!ReceiveReply
    <3> QED BY <1>3, <3>1, <3>2, <3>3 DEF Broker!CallStep
  <2> QED BY <1>1, <2>1, <2>2, <2>3
<1>4. ASSUME NEW r \in Broker!Req, Broker!AttemptStep(r)
      PROVE  Made /\ \A p \in Requests : Given(p)
  <2>0. r[1] \in Requests /\ r[2] \in 1..Cardinality(Conns) /\ r = <<r[1], r[2]>>
    BY DEF Broker!Req
  <2>3. at[r] # "none" /\ cpc[r[1]] # "idle"
    <3>1. at[r] # "none"
      BY <1>4 DEF Broker!AttemptStep, Broker!Register, Broker!GiveUp, Broker!PassCheck, Broker!Enqueue,
         Broker!SendPanics, Broker!AcceptReply, Broker!CountFailure, Broker!EnterOnce, Broker!LeaveOnce
    <3> QED BY <2>0, <3>1 DEF CallsInv, B!BrokerInv, B!IInv, B!CallShape, B!ShapeOf
  <2>1. UNCHANGED list /\ (UNCHANGED cpc \/ cpc' = [cpc EXCEPT ![r[1]] = "returned"])
    BY <1>4 DEF Broker!AttemptStep, Broker!Register, Broker!GiveUp, Broker!PassCheck, Broker!Enqueue,
       Broker!SendPanics, Broker!AcceptReply, Broker!CountFailure, Broker!EnterOnce, Broker!LeaveOnce,
       Broker!callers, Broker!Return
  <2>2. \E p \in B!Places \ {"none"} : at' = [at EXCEPT ![r] = p]
    BY <1>4 DEF Broker!AttemptStep, Broker!Register, Broker!GiveUp, Broker!PassCheck, Broker!Enqueue,
       Broker!SendPanics, Broker!AcceptReply, Broker!CountFailure, Broker!EnterOnce, Broker!LeaveOnce, B!Places
  <2> QED BY <1>1, <2>1, <2>2, <2>3
<1>5. CASE \/ \E r \in Broker!Req, a \in Broker!Answers : Broker!ResponseEvent(r, a)
           \/ \E m \in replying : Broker!DeliverReply(m)
           \/ \E late \in SUBSET idRequest \ {{}} : Broker!CleanRequests(late)
           \/ \E x \in Conns, r \in Broker!Req : Broker!Take(x, r)
  <2>1. UNCHANGED <<list, cpc, at>>
    BY <1>5 DEF Broker!ResponseEvent, Broker!DeliverReply, Broker!CleanRequests, Broker!Take,
       Broker!callers, Broker!attempts
  <2> QED BY <2>1
<1> QED BY <1>2, <1>3, <1>4, <1>5 DEF BrokerStep

\* What an attempt that was made says of its channel.
LEMMA MadeIsListed ==
  ASSUME CallsInv, NEW r \in B!Req, at[r] # "none"
  PROVE  /\ r[1] \in Requests /\ r[2] \in Nat \ {0} /\ r[2] <= Len(list[r[1]])
         /\ list[r[1]] # <<>> /\ cpc[r[1]] # "idle"
         /\ qpc[r[1]] = "send" /\ list[r[1]] \in Orderings(targets[r[1]])
         /\ list[r[1]] \in Seq(Conns) /\ B!ChanOf(r) = list[r[1]][r[2]] /\ B!ChanOf(r) \in targets[r[1]]
<1>1. r[1] \in Requests /\ r[2] \in 1..Cardinality(Conns) /\ r[2] \in Nat \ {0} /\ r = <<r[1], r[2]>>
  BY ConnsCount DEF B!Req
<1>2. r[2] <= Len(list[r[1]])
  BY <1>1 DEF CallsInv, B!BrokerInv, B!FanShape, B!FanOf, B!Caused
<1>3. cpc[r[1]] # "idle"
  BY <1>1 DEF CallsInv, B!BrokerInv, B!IInv, B!CallShape, B!ShapeOf
<1>4. list[r[1]] \in Seq(Conns)
  BY <1>1, ListOfConns DEF CallsInv, B!BrokerInv, B!IInv, B!TypeOK
<1>5. list[r[1]] # <<>>
  <2>1. Len(<<>>) = 0
    OBVIOUS
  <2> QED BY <1>1, <1>2, <2>1
<1>6. qpc[r[1]] = "send" /\ list[r[1]] \in Orderings(targets[r[1]])
  BY <1>1, <1>5 DEF CallsInv, RouteOK, ListedOf
<1>7. B!ChanOf(r) \in targets[r[1]]
  <2>1. targets[r[1]] \in SUBSET Conns
    BY <1>1 DEF CallsInv, M!IInv, M!TypeOK
  <2>2. Len(list[r[1]]) = Cardinality(targets[r[1]])
    BY <1>6, <2>1, OrderingIsList
  <2>3. Cardinality(targets[r[1]]) \in Nat
    BY <2>1, ConnsAssumption, FS_Subset, FS_CardinalityType
  <2> QED BY <1>1, <1>2, <1>6, <2>2, <2>3 DEF Orderings, B!ChanOf
<1> QED BY <1>1, <1>2, <1>3, <1>4, <1>5, <1>6, <1>7 DEF B!ChanOf

\* Where the requests are after a step of the broker: where they were, or put by
\* Enqueue into the queue of their channel.
LEMMA QueueFrame ==
  ASSUME CallsInv, ~crashed, BrokerStep
  PROVE  /\ out' \in [Conns -> SUBSET (B!Req \cup {Announcement})]
         /\ \A x \in Conns :
              /\ IsFiniteSet(out'[x])
              /\ \A e \in out'[x] : e \in out[x] \/ (e \in B!Req /\ at[e] # "none" /\ B!ChanOf(e) = x)
         /\ \A r \in taken' : r \in taken \/ \E x \in Conns : r \in out[x] \ {Announcement}
<1>1. /\ out \in [Conns -> SUBSET (B!Req \cup {Announcement})] /\ \A x \in Conns : IsFiniteSet(out[x])
      /\ Broker!Req = B!Req /\ Announcement \notin B!Req
  BY RequestIsNoAnnouncement DEF CallsInv, TypesOK, QueuesOK
<1>2. ASSUME NEW r \in B!Req, Broker!Enqueue(r)
      PROVE  /\ taken' = taken /\ at[r] # "none"
             /\ out' = [out EXCEPT ![B!ChanOf(r)] = @ \cup {r}]
  BY <1>2 DEF Broker!Enqueue, Broker!ChanOf, B!ChanOf
<1>3. ASSUME NEW x \in Conns, NEW r \in B!Req, Broker!Take(x, r)
      PROVE  r \in out[x] /\ taken' = taken \cup {r} /\ out' = [out EXCEPT ![x] = @ \ {r}]
  BY <1>3 DEF Broker!Take
<1>4. CASE \E r \in B!Req : Broker!Enqueue(r)
  <2>1. PICK r \in B!Req : /\ taken' = taken /\ at[r] # "none"
                           /\ out' = [out EXCEPT ![B!ChanOf(r)] = @ \cup {r}]
    BY <1>2, <1>4
  <2>2. \A x \in Conns : IsFiniteSet(out'[x])
    <3>1. \A x \in Conns : IsFiniteSet(out[x] \cup {r})
      BY <1>1, FS_AddElement
    <3> QED BY <1>1, <2>1, <3>1
  <2> QED BY <1>1, <2>1, <2>2
<1>5. CASE \E x \in Conns, r \in B!Req : Broker!Take(x, r)
  <2>1. PICK x \in Conns, r \in B!Req : r \in out[x] /\ taken' = taken \cup {r} /\ out' = [out EXCEPT ![x] = @ \ {r}]
    BY <1>3, <1>5
  <2>2. \A y \in Conns : IsFiniteSet(out'[y])
    <3>1. \A y \in Conns : IsFiniteSet(out[y] \ {r})
      BY <1>1, FS_RemoveElement
    <3> QED BY <1>1, <2>1, <3>1
  <2>3. out' \in [Conns -> SUBSET (B!Req \cup {Announcement})]
    BY <1>1, <2>1
  <2>4. \A y \in Conns : out'[y] \subseteq out[y]
    BY <1>1, <2>1
  <2> QED BY <1>1, <2>1, <2>2, <2>3, <2>4
<1>6. CASE ~ \E r \in B!Req : Broker!Enqueue(r) \/ \E x \in Conns : Broker!Take(x, r)
  <2>1. UNCHANGED <<out, taken>>
    <3>1. ASSUME NEW q \in Requests, SendRequest(q) \/ Broker!CallStep(q) \/ Broker!Cancel(q)
          PROVE  UNCHANGED <<out, taken>>
      BY <3>1 DEF SendRequest, Broker!SendRequest, Broker!CallStep, Broker!FirstReturns, Broker!FanOut,
         Broker!ReceiveReply, Broker!SelectCtxDone, Broker!Cancel, Broker!streams
    <3>2. ASSUME NEW r \in B!Req, Broker!AttemptStep(r) PROVE UNCHANGED <<out, taken>>
      BY <1>6, <3>2 DEF Broker!AttemptStep, Broker!Register, Broker!GiveUp, Broker!PassCheck,
         Broker!SendPanics, Broker!AcceptReply, Broker!CountFailure, Broker!EnterOnce, Broker!LeaveOnce,
         Broker!streams
    <3>3. CASE \/ \E r \in Broker!Req, a \in Broker!Answers : Broker!ResponseEvent(r, a)
               \/ \E m \in replying : Broker!DeliverReply(m)
               \/ \E late \in SUBSET idRequest \ {{}} : Broker!CleanRequests(late)
      BY <3>3 DEF Broker!ResponseEvent, Broker!DeliverReply, Broker!CleanRequests, Broker!streams
    <3> QED BY <1>1, <1>6, <3>1, <3>2, <3>3 DEF BrokerStep
  <2> QED BY <1>1, <2>1
<1> QED BY <1>4, <1>5, <1>6

LEMMA BrokerKeepsTies ==
  ASSUME CallsInv, ~crashed, BrokerStep
  PROVE  TypesOK' /\ QueuesOK' /\ EndedFirst' /\ PanicSeen' /\ RouteOK' /\ StoresOK' /\ StoreLasts'
<1>1. UNCHANGED <<asked, qpc, qstore, targets, minerConnections, channels, pc, miner, store, done>>
  BY DEF BrokerStep, stream, conns, senders
<1>2. TypesOK' /\ PanicSeen'
  BY <1>1, BrokerSeen, QueueFrame DEF TypesOK, PanicSeen, CallsInv, B!Req
<1>3. ASSUME NEW r \in B!Req, at[r] # "none"
      PROVE  at'[r] # "none" /\ B!ChanOf(r)' = B!ChanOf(r)
  <2>1. r[1] \in Requests /\ cpc[r[1]] # "idle"
    BY <1>3, MadeIsListed
  <2>2. list'[r[1]] = list[r[1]] /\ at'[r] # "none"
    BY <1>3, <2>1, ListFrame
  <2> QED BY <2>2 DEF B!ChanOf
<1>4. QueuesOK'
  <2>1. \A x \in Conns : IsFiniteSet(out[x])'
    BY QueueFrame
  <2>2. \A x \in Conns : pc'[x] \in {"idle", "add", "init"} => Announcement \notin out'[x]
    BY <1>1, QueueFrame, RequestIsNoAnnouncement DEF CallsInv, QueuesOK
  <2>3. ASSUME NEW x \in Conns, NEW r \in out'[x] \ {Announcement}
        PROVE  at'[r] # "none" /\ B!ChanOf(r)' = x
    <3>1. r \in B!Req /\ at[r] # "none" /\ B!ChanOf(r) = x
      BY <2>3, QueueFrame DEF CallsInv, TypesOK, QueuesOK
    <3> QED BY <1>3, <3>1
  <2>4. ASSUME NEW r \in taken' PROVE at'[r] # "none"
    <3>1. r \in B!Req /\ at[r] # "none"
      BY <2>4, QueueFrame DEF CallsInv, TypesOK, QueuesOK, B!BrokerInv, B!IInv, B!TypeOK, B!StreamsOK
    <3> QED BY <1>3, <3>1
  <2> QED BY <2>1, <2>2, <2>3, <2>4 DEF QueuesOK
<1>5. EndedFirst' /\ StoresOK' /\ StoreLasts'
  BY <1>1 DEF CallsInv, EndedFirst, StoresOK, StoreLasts, Two
<1>6. RouteOK'
  <2> SUFFICES ASSUME NEW q \in Requests PROVE (AskedOf(q) /\ AimedOf(q) /\ ListedOf(q))'
    BY DEF RouteOK
  <2>1. AskedOf(q)' /\ AimedOf(q)'
    BY <1>1 DEF CallsInv, RouteOK, AskedOf, AimedOf, M!CreatedFor
  <2>2. ListedOf(q)'
    <3>1. ListedOf(q)
      BY DEF CallsInv, RouteOK
    <3>2. Orderings(targets[q])' = Orderings(targets[q])
      BY <1>1 DEF Orderings
    <3> QED BY <1>1, <3>1, <3>2, ListFrame DEF ListedOf
  <2> QED BY <2>1, <2>2
<1> QED BY <1>2, <1>4, <1>5, <1>6

\* The panic of a fan-out's send ends the process: the channel it was for has ended,
\* and so has the first channel of its list, another connection in the same store.
LEMMA PanicNeedsOverlap ==
  ASSUME CallsInv, ~crashed, BrokerStep, crashed'
  PROVE  Overlapped
<1>2. PICK r \in B!Req : r[2] > 1 /\ Broker!SendPanics(r)
  BY OnlyPanics, RequestIsNoAnnouncement DEF Broker!Req
<1> DEFINE q == r[1]
           l == list[r[1]]
<1>3. at[r] # "none" /\ B!ChanOf(r) \in {x \in Conns : pc[x] = "closed"}
  BY <1>2 DEF Broker!SendPanics, Broker!ChanOf, B!ChanOf
<1>4. /\ q \in Requests /\ r[2] \in Nat \ {0} /\ r[2] <= Len(l) /\ l \in Orderings(targets[q])
      /\ l[r[2]] = B!ChanOf(r) /\ qpc[q] = "send" /\ l \in Seq(Conns)
  BY <1>3, MadeIsListed
<1>5. l[r[2]] \in done
  BY <1>3, <1>4 DEF CallsInv, EndedFirst
<1>6. l[1] \in done
  <2>1. r[2] \in 2..Cardinality(Conns) /\ r = <<q, r[2]>>
    BY <1>2, ConnsCount DEF B!Req
  <2>2. B!Retried(q) /\ B!Caused(q)
    BY <1>4 DEF CallsInv, B!BrokerInv, B!FanShape, B!FanOf
  <2>3. got[<<q, 1>>] = "closed"
    BY <1>3, <2>1, <2>2 DEF B!Retried
  <2> QED BY <2>2, <2>3, ConnsCount DEF B!Caused
<1>7. targets[q] \in SUBSET Conns /\ Cardinality(targets[q]) \in Nat /\ Len(l) = Cardinality(targets[q])
  <2>1. targets[q] \in SUBSET Conns
    BY <1>4 DEF CallsInv, M!IInv, M!TypeOK
  <2> QED BY <1>4, <2>1, OrderingIsList, ConnsAssumption, FS_Subset, FS_CardinalityType
<1>8. l[1] # l[r[2]] /\ l[1] \in targets[q] /\ l[r[2]] \in targets[q]
  <2>1. 1 \in 1..Cardinality(targets[q]) /\ r[2] \in 1..Cardinality(targets[q]) /\ r[2] # 1
    BY <1>2, <1>4, <1>7
  <2>2. /\ l \in [1..Cardinality(targets[q]) -> targets[q]]
        /\ \A i, j \in DOMAIN l : l[i] = l[j] => i = j
    BY <1>4 DEF Orderings
  <2> QED BY <2>1, <2>2
<1>9. store[l[1]] = qstore[q] /\ store[l[r[2]]] = qstore[q] /\ store[l[1]] # None
  BY <1>4, <1>7, <1>8 DEF CallsInv, RouteOK, AimedOf, StoresOK
<1> QED BY <1>5, <1>6, <1>8, <1>9 DEF Overlapped

----------------------------------------------------------------------------
(* What ties the two together is kept by the steps of the stream.          *)

\* A connection's miner and store are settled once its call has begun, and its progress
\* is one way.
LEMMA ConnFrame ==
  ASSUME CallsInv, ~crashed, StreamStep, NEW x \in Conns
  PROVE  /\ pc[x] # "idle" => pc'[x] # "idle" /\ miner'[x] = miner[x] /\ store'[x] = store[x]
         /\ pc[x] \in {"close", "closed"} => pc'[x] \in {"close", "closed"}
         /\ pc'[x] \in {"close", "closed"} => x \in done'
         /\ done \subseteq done'
<1>1. /\ pc \in [Conns -> {"idle", "add", "init", "wait", "close", "closed"}]
      /\ miner \in [Conns -> Miners \cup {None}] /\ store \in [Conns -> Conns \cup {None}]
  BY DEF CallsInv, M!IInv, M!TypeOK
<1>2. pc[x] \in {"close", "closed"} => x \in done
  BY DEF CallsInv, EndedFirst
<1>3. ASSUME NEW y \in Conns, NEW m \in Miners, ListenMarketEvent(y, m)
      PROVE  /\ pc[y] = "idle" /\ pc' = [pc EXCEPT ![y] = "add"] /\ done' = done
             /\ miner' = [miner EXCEPT ![y] = m] /\ \E s : store' = [store EXCEPT ![y] = s]
  BY <1>3 DEF ListenMarketEvent, Goto
<1>4. ASSUME NEW y \in Conns, ConnStep(y)
      PROVE  /\ miner' = miner /\ store' = store /\ done' = done
             /\ \/ UNCHANGED pc
                \/ pc[y] = "add" /\ pc' = [pc EXCEPT ![y] = "init"]
                \/ pc[y] = "init" /\ pc' = [pc EXCEPT ![y] = "wait"]
                \/ pc[y] = "wait" /\ y \in done /\ pc' = [pc EXCEPT ![y] = "close"]
                \/ pc[y] = "close" /\ pc' = [pc EXCEPT ![y] = "closed"]
  BY <1>4 DEF ConnStep, AddChanel, InitConnect, RemoveChanel, CloseOut, Goto, Ended
<1>5. ASSUME \/ \E q \in Requests : ListChannels(q) \/ \E m \in Miners : SectorsUnsealPiece(q, m)
             \/ \E y \in Conns : EndConnection(y) \/ TakeAnnouncement(y)
             \/ BeginList \/ EndList
      PROVE  UNCHANGED <<pc, miner, store>> /\ done \subseteq done'
  BY <1>5 DEF ListChannels, SectorsUnsealPiece, LookupMiner, EndConnection, TakeAnnouncement,
     ForwardToClient, BeginList, EndList, conns
<1>6. CASE \E y \in Conns, m \in Miners : ListenMarketEvent(y, m)
  BY <1>1, <1>2, <1>3, <1>6
<1>7. CASE \E y \in Conns : ConnStep(y)
  BY <1>1, <1>2, <1>4, <1>7
<1> QED BY <1>2, <1>5, <1>6, <1>7 DEF StreamStep

\* The announcement comes and goes; the requests stay where they are.
LEMMA NoteFrame ==
  ASSUME CallsInv, ~crashed, StreamStep
  PROVE  /\ out' \in [Conns -> SUBSET (B!Req \cup {Announcement})]
         /\ \A x \in Conns : /\ IsFiniteSet(out'[x]) /\ out'[x] \subseteq out[x] \cup {Announcement}
                             /\ pc'[x] \in {"idle", "add", "init"} => Announcement \notin out'[x]
<1>1. /\ out \in [Conns -> SUBSET (B!Req \cup {Announcement})] /\ \A x \in Conns : IsFiniteSet(out[x])
      /\ pc \in [Conns -> {"idle", "add", "init", "wait", "close", "closed"}]
      /\ \A x \in Conns : pc[x] \in {"idle", "add", "init"} => Announcement \notin out[x]
  BY DEF CallsInv, TypesOK, QueuesOK, M!IInv, M!TypeOK
<1>2. CASE \E x \in Conns : InitConnect(x)
  <2>1. PICK x \in Conns : pc' = [pc EXCEPT ![x] = "wait"] /\ out' = [out EXCEPT ![x] = @ \cup {Announcement}]
    BY <1>2 DEF InitConnect, Goto, Put
  <2>2. \A y \in Conns : IsFiniteSet(out[y] \cup {Announcement})
    BY <1>1, FS_AddElement
  <2>3. \A y \in Conns : IsFiniteSet(out'[y])
    BY <1>1, <2>1, <2>2
  <2>4. \A y \in Conns : pc'[y] \in {"idle", "add", "init"} => Announcement \notin out'[y]
    BY <1>1, <2>1
  <2>5. out' \in [Conns -> SUBSET (B!Req \cup {Announcement})]
    BY <1>1, <2>1
  <2>6. \A y \in Conns : out'[y] \subseteq out[y] \cup {Announcement}
    BY <1>1, <2>1
  <2> QED BY <2>3, <2>4, <2>5, <2>6
<1>3. CASE \E x \in Conns : TakeAnnouncement(x)
  <2>0. PICK x \in Conns : TakeAnnouncement(x)
    BY <1>3
  <2>1. PICK e \in out[x] : out' = [out EXCEPT ![x] = @ \ {e}] /\ pc' = pc
    BY <2>0 DEF TakeAnnouncement, ForwardToClient, conns
  <2>2. \A y \in Conns : IsFiniteSet(out[y] \ {e})
    BY <1>1, FS_RemoveElement
  <2>3. \A y \in Conns : out'[y] = out[y] \/ out'[y] = out[y] \ {e}
    BY <1>1, <2>1
  <2>4. out' \in [Conns -> SUBSET (B!Req \cup {Announcement})]
    BY <1>1, <2>1
  <2>5. \A y \in Conns : IsFiniteSet(out'[y])
    BY <1>1, <2>2, <2>3
  <2> QED BY <1>1, <2>1, <2>3, <2>4, <2>5
<1>4. CASE \/ \E x \in Conns, m \in Miners : ListenMarketEvent(x, m)
           \/ \E x \in Conns : AddChanel(x) \/ RemoveChanel(x) \/ CloseOut(x) \/ EndConnection(x)
           \/ \E q \in Requests : ListChannels(q) \/ \E m \in Miners : SectorsUnsealPiece(q, m)
           \/ BeginList \/ EndList
  <2>1. UNCHANGED out
    BY <1>4 DEF ListenMarketEvent, AddChanel, RemoveChanel, CloseOut, EndConnection, ListChannels,
       SectorsUnsealPiece, LookupMiner, BeginList, EndList
  <2>2. UNCHANGED pc \/ \E x \in Conns, p \in {"add", "init", "close", "closed"} :
                          /\ pc' = [pc EXCEPT ![x] = p] /\ (p \in {"add", "init"} => pc[x] \in {"idle", "add"})
    BY <1>4 DEF ListenMarketEvent, AddChanel, RemoveChanel, CloseOut, EndConnection, ListChannels,
       SectorsUnsealPiece, LookupMiner, BeginList, EndList, Goto, conns
  <2>3. \A x \in Conns : pc'[x] \in {"idle", "add", "init"} => pc[x] \in {"idle", "add", "init"}
    BY <1>1, <2>2
  <2> QED BY <1>1, <2>1, <2>3
<1> QED BY <1>2, <1>3, <1>4 DEF StreamStep, ConnStep

LEMMA StreamKeepsRoute ==
  ASSUME CallsInv, ~crashed, StreamStep
  PROVE  RouteOK'
<1>1. UNCHANGED <<list, cpc>>
  BY DEF StreamStep, broker
<1>2. /\ qpc \in [Requests -> {"idle", "found", "send", "refused"}] /\ asked \in [Requests -> Miners \cup {None}]
      /\ qstore \in [Requests -> Conns \cup {None}] /\ targets \in [Requests -> SUBSET Conns]
      /\ minerConnections \in [Miners -> Conns \cup {None}] /\ channels \in [Conns -> SUBSET Conns]
  BY DEF CallsInv, TypesOK, M!IInv, M!TypeOK
<1>3. ASSUME NEW s \in Conns, NEW m, M!CreatedFor(s, m) PROVE M!CreatedFor(s, m)'
  BY <1>3, ConnFrame DEF M!CreatedFor
<1>4. ASSUME NEW q \in Requests,
             UNCHANGED <<qpc[q], qstore[q], targets[q], asked[q]>>
      PROVE  (AskedOf(q) /\ AimedOf(q) /\ ListedOf(q))'
  <2>1. AskedOf(q)'
    BY <1>3, <1>4 DEF CallsInv, RouteOK, AskedOf, M!IInv, M!FoundOwn
  <2>2. AimedOf(q)'
    BY <1>2, <1>4, ConnFrame DEF CallsInv, RouteOK, AimedOf
  <2>3. Orderings(targets[q])' = Orderings(targets[q])
    BY <1>4 DEF Orderings
  <2>4. ListedOf(q)'
    BY <1>1, <1>4, <2>3 DEF CallsInv, RouteOK, ListedOf
  <2> QED BY <2>1, <2>2, <2>4
<1>5. ASSUME NEW q \in Requests, NEW m \in Miners, SectorsUnsealPiece(q, m) PROVE RouteOK'
  <2>1. /\ qpc[q] = "idle" /\ qstore' = [qstore EXCEPT ![q] = minerConnections[m]]
        /\ qpc' = [qpc EXCEPT ![q] = IF qstore'[q] = None THEN "refused" ELSE "found"]
        /\ asked' = [asked EXCEPT ![q] = m] /\ targets' = targets
    BY <1>5 DEF SectorsUnsealPiece, LookupMiner, StoreOf
  <2>2. targets[q] = {} /\ list[q] = <<>> /\ cpc[q] = "idle"
    BY <2>1 DEF CallsInv, RouteOK, AimedOf, ListedOf
  <2>3. AskedOf(q)'
    <3>1. minerConnections[m] # None => M!CreatedFor(minerConnections[m], m)
      BY DEF CallsInv, M!IInv, M!MapOwn
    <3>2. ASSUME NEW s \in Conns, s = minerConnections[m] PROVE M!CreatedFor(s, m)'
      BY <1>3, <3>1, <3>2, NoneAssumption
    <3>3. asked'[q] = m /\ qstore'[q] = minerConnections[m]
          /\ qpc'[q] = IF minerConnections[m] = None THEN "refused" ELSE "found"
      BY <1>2, <2>1
    <3> QED BY <1>2, <3>2, <3>3 DEF AskedOf, M!CreatedFor
  <2>4. AimedOf(q)' /\ ListedOf(q)'
    BY <1>1, <2>1, <2>2 DEF AimedOf, ListedOf
  <2>5. \A p \in Requests : p # q => UNCHANGED <<qpc[p], qstore[p], targets[p], asked[p]>>
    BY <1>2, <2>1
  <2> QED BY <1>4, <2>3, <2>4, <2>5 DEF RouteOK
<1>6. ASSUME NEW q \in Requests, ListChannels(q), UNCHANGED asked PROVE RouteOK'
  <2>1. /\ qpc[q] = "found" /\ targets' = [targets EXCEPT ![q] = channels[qstore[q]]]
        /\ qpc' = [qpc EXCEPT ![q] = IF channels[qstore[q]] = {} THEN "refused" ELSE "send"]
        /\ UNCHANGED <<qstore, pc, miner, store, asked>>
    BY <1>6 DEF ListChannels, conns
  <2>2. /\ qstore[q] \in Conns /\ M!CreatedFor(qstore[q], asked[q]) /\ asked[q] \in Miners
        /\ list[q] = <<>> /\ cpc[q] = "idle"
    BY <2>1 DEF CallsInv, RouteOK, AskedOf, ListedOf, M!IInv, M!FoundOwn
  <2>3. \A x \in channels[qstore[q]] : pc[x] # "idle" /\ miner[x] = asked[q] /\ store[x] = qstore[q]
    BY <1>2, <2>2 DEF CallsInv, StoresOK, M!IInv, M!HeldOwn, M!CreatedFor
  <2>4. /\ targets'[q] = channels[qstore[q]]
        /\ qpc'[q] = IF channels[qstore[q]] = {} THEN "refused" ELSE "send"
    BY <1>2, <2>1
  <2>5. AskedOf(q)' /\ AimedOf(q)' /\ ListedOf(q)'
    BY <1>1, <2>1, <2>2, <2>3, <2>4 DEF AskedOf, AimedOf, ListedOf
  <2>6. \A p \in Requests : p # q => UNCHANGED <<qpc[p], qstore[p], targets[p], asked[p]>>
    BY <1>2, <2>1
  <2> QED BY <1>4, <2>5, <2>6 DEF RouteOK
<1>7. CASE /\ UNCHANGED asked
           /\ \/ \E x \in Conns, m \in Miners : ListenMarketEvent(x, m)
              \/ \E x \in Conns : ConnStep(x) \/ EndConnection(x) \/ TakeAnnouncement(x)
              \/ BeginList \/ EndList
  <2>1. UNCHANGED <<qpc, qstore, targets>>
    BY <1>7 DEF ListenMarketEvent, ConnStep, AddChanel, InitConnect, RemoveChanel, CloseOut,
       EndConnection, TakeAnnouncement, ForwardToClient, BeginList, EndList, senders
  <2> QED BY <1>4, <1>7, <2>1 DEF RouteOK
<1> QED BY <1>5, <1>6, <1>7 DEF StreamStep

\* A connection gets its store once, and is added to no other.
LEMMA StreamKeepsStores ==
  ASSUME CallsInv, ~crashed, StreamStep
  PROVE  StoresOK'
<1>1. /\ pc \in [Conns -> {"idle", "add", "init", "wait", "close", "closed"}]
      /\ store \in [Conns -> Conns \cup {None}] /\ channels \in [Conns -> SUBSET Conns]
      /\ minerConnections \in [Miners -> Conns \cup {None}]
  BY DEF CallsInv, M!IInv, M!TypeOK
<1>2. /\ \A x \in Conns : pc[x] = "idle" <=> store[x] = None
      /\ \A s \in Conns : \A x \in channels[s] : store[x] = s
  BY DEF CallsInv, StoresOK
<1>3. ASSUME NEW y \in Conns, NEW m \in Miners, ListenMarketEvent(y, m) PROVE StoresOK'
  <2>1. PICK s \in Conns : /\ pc[y] = "idle" /\ pc' = [pc EXCEPT ![y] = "add"] /\ channels' = channels
                           /\ store' = [store EXCEPT ![y] = s]
    BY <1>1, <1>3 DEF ListenMarketEvent, Goto
  <2>2. \A x \in Conns : pc'[x] = "idle" <=> store'[x] = None
    BY <1>1, <1>2, <2>1, NoneAssumption
  <2>3. ASSUME NEW t \in Conns, NEW x \in channels[t] PROVE store'[x] = t
    <3>1. x \in Conns /\ store[x] = t /\ x # y
      BY <1>1, <1>2, <2>1, NoneAssumption
    <3> QED BY <1>1, <2>1, <3>1
  <2> QED BY <2>1, <2>2, <2>3 DEF StoresOK
<1>4. ASSUME NEW y \in Conns, AddChanel(y) PROVE StoresOK'
  <2>1. /\ pc[y] = "add" /\ pc' = [pc EXCEPT ![y] = "init"] /\ store' = store
        /\ channels' = [channels EXCEPT ![store[y]] = @ \cup {y}]
    BY <1>4 DEF AddChanel, Goto
  <2>2. \A x \in Conns : pc'[x] = "idle" <=> store'[x] = None
    BY <1>1, <1>2, <2>1
  <2>3. \A t \in Conns : channels'[t] = IF t = store[y] THEN channels[t] \cup {y} ELSE channels[t]
    BY <1>1, <2>1
  <2> QED BY <1>2, <2>1, <2>2, <2>3 DEF StoresOK
<1>5. ASSUME UNCHANGED store, \A t \in Conns : channels'[t] \subseteq channels[t],
             \A x \in Conns : pc'[x] = "idle" <=> pc[x] = "idle"
      PROVE  StoresOK'
  BY <1>2, <1>5 DEF StoresOK
<1>6. ASSUME NEW y \in Conns, InitConnect(y) \/ RemoveChanel(y) \/ CloseOut(y) PROVE StoresOK'
  <2>1. /\ UNCHANGED store
        /\ \/ UNCHANGED channels
           \/ \E s : channels' = [channels EXCEPT ![s] = channels[s] \ {y}]
    BY <1>6 DEF InitConnect, RemoveChanel, CloseOut, Without
  <2>2. \/ UNCHANGED pc
        \/ pc[y] # "idle" /\ \E p \in {"wait", "close", "closed"} : pc' = [pc EXCEPT ![y] = p]
    BY <1>6 DEF InitConnect, RemoveChanel, CloseOut, Goto
  <2>3. \A t \in Conns : channels'[t] \subseteq channels[t]
    BY <1>1, <2>1
  <2>4. \A x \in Conns : pc'[x] = "idle" <=> pc[x] = "idle"
    BY <1>1, <2>2
  <2> QED BY <1>5, <2>1, <2>3, <2>4
<1>7. ASSUME \/ \E q \in Requests : ListChannels(q) \/ \E m \in Miners : SectorsUnsealPiece(q, m)
             \/ \E y \in Conns : EndConnection(y) \/ TakeAnnouncement(y)
             \/ BeginList \/ EndList
      PROVE  StoresOK'
  <2>1. UNCHANGED <<channels, pc, store>>
    BY <1>7 DEF ListChannels, SectorsUnsealPiece, LookupMiner, EndConnection, TakeAnnouncement,
       ForwardToClient, BeginList, EndList, conns
  <2> QED BY <1>5, <2>1
<1> QED BY <1>3, <1>4, <1>6, <1>7 DEF StreamStep, ConnStep

\* RemoveChanel deletes a miner's store only after its connection has ended: that one
\* shared the store with any other that still believes in it, which is what Two remembers.
LEMMA StreamKeepsLast ==
  ASSUME CallsInv, ~crashed, StreamStep
  PROVE  StoreLasts'
<1>1. /\ pc \in [Conns -> {"idle", "add", "init", "wait", "close", "closed"}]
      /\ miner \in [Conns -> Miners \cup {None}] /\ store \in [Conns -> Conns \cup {None}]
      /\ minerConnections \in [Miners -> Conns \cup {None}] /\ done \subseteq Conns
      /\ \A x \in Conns : pc[x] # "idle" => miner[x] \in Miners /\ store[x] # None
      /\ \A x \in Conns : store[x] # None => pc[x] # "idle"
  BY DEF CallsInv, StoresOK, M!IInv, M!TypeOK, M!MinersOwn
<1>2. ASSUME NEW x \in Conns, Two(x) PROVE Two(x)'
  <2>1. PICK y \in done, z \in done \cup {x} : y # z /\ store[y] # None /\ store[y] = store[z]
    BY <1>2 DEF Two
  <2>2. y \in Conns /\ z \in Conns /\ y \in done' /\ z \in done' \cup {x}
    BY <1>1, ConnFrame
  <2>3. store'[y] = store[y] /\ store'[z] = store[z]
    BY <1>1, <2>1, <2>2, ConnFrame
  <2> QED BY <2>1, <2>2, <2>3 DEF Two
<1>3. ASSUME NEW x \in Conns, pc[x] \in {"add", "init", "wait"},
             minerConnections[miner[x]] = store[x] => minerConnections'[miner[x]] = store[x] \/ Two(x)'
      PROVE  minerConnections'[miner'[x]] = store'[x] \/ Two(x)'
  <2>1. minerConnections[miner[x]] = store[x] \/ Two(x)
    BY <1>3 DEF CallsInv, StoreLasts
  <2>2. miner'[x] = miner[x] /\ store'[x] = store[x]
    BY <1>3, ConnFrame
  <2> QED BY <1>2, <1>3, <2>1, <2>2
<1>4. ASSUME NEW y \in Conns, NEW m \in Miners, ListenMarketEvent(y, m) PROVE StoreLasts'
  <2>1. /\ pc[y] = "idle" /\ pc' = [pc EXCEPT ![y] = "add"] /\ miner' = [miner EXCEPT ![y] = m]
        /\ store' = [store EXCEPT ![y] = minerConnections'[m]]
        /\ \/ minerConnections' = minerConnections
           \/ minerConnections[m] = None /\ minerConnections' = [minerConnections EXCEPT ![m] = y]
    BY <1>1, <1>4 DEF ListenMarketEvent, Goto, WriteMap
  <2>2. \A n \in Miners : minerConnections[n] # None => minerConnections'[n] = minerConnections[n]
    BY <1>1, <2>1
  <2>3. miner'[y] = m /\ store'[y] = minerConnections'[m] /\ \A x \in Conns \ {y} : pc'[x] = pc[x]
    BY <1>1, <2>1
  <2>4. ASSUME NEW x \in Conns \ {y}, pc'[x] \in {"add", "init", "wait"}
        PROVE  minerConnections'[miner'[x]] = store'[x] \/ Two(x)'
    <3>1. pc[x] \in {"add", "init", "wait"} /\ miner[x] \in Miners /\ store[x] # None
      BY <1>1, <2>3, <2>4
    <3> QED BY <1>3, <2>2, <3>1
  <2> QED BY <2>3, <2>4 DEF StoreLasts
<1>5. ASSUME NEW y \in Conns, RemoveChanel(y), pc' # pc PROVE StoreLasts'
  <2>1. /\ pc[y] = "wait" /\ y \in done /\ pc' = [pc EXCEPT ![y] = "close"] /\ UNCHANGED <<miner, store, done>>
        /\ \/ minerConnections' = minerConnections
           \/ minerConnections' = [minerConnections EXCEPT ![miner[y]] = None]
    BY <1>5 DEF RemoveChanel, Goto, WriteMap, Ended
  <2>2. ASSUME NEW x \in Conns, pc'[x] \in {"add", "init", "wait"}
        PROVE  minerConnections'[miner'[x]] = store'[x] \/ Two(x)'
    <3>1. x # y /\ pc[x] \in {"add", "init", "wait"} /\ miner[x] \in Miners
      BY <1>1, <2>1, <2>2
    <3>2. ASSUME miner[x] = miner[y], minerConnections[miner[x]] = store[x] PROVE Two(x)
      <4>1. CASE store[y] = store[x]
        BY <1>1, <2>1, <3>1, <4>1 DEF Two
      <4>2. CASE store[y] # store[x]
        <5>1. Two(y)
          BY <2>1, <3>2, <4>2 DEF CallsInv, StoreLasts
        <5> QED BY <2>1, <5>1 DEF Two
      <4> QED BY <4>1, <4>2
    <3>3. miner[x] # miner[y] => minerConnections'[miner[x]] = minerConnections[miner[x]]
      BY <1>1, <2>1, <3>1
    <3> QED BY <1>2, <1>3, <3>1, <3>2, <3>3
  <2> QED BY <2>2 DEF StoreLasts
<1>6. ASSUME minerConnections' = minerConnections,
             \A x \in Conns : pc'[x] \in {"add", "init", "wait"} => pc[x] \in {"add", "init", "wait"}
      PROVE  StoreLasts'
  <2>1. ASSUME NEW x \in Conns, pc'[x] \in {"add", "init", "wait"}
        PROVE  minerConnections'[miner'[x]] = store'[x] \/ Two(x)'
    BY <1>3, <1>6, <2>1
  <2> QED BY <2>1 DEF StoreLasts
<1>7. ASSUME NEW y \in Conns, AddChanel(y) \/ InitConnect(y) \/ (RemoveChanel(y) /\ pc' = pc) \/ CloseOut(y)
      PROVE  StoreLasts'
  <2>1. minerConnections' = minerConnections
    BY <1>7, <1>1 DEF AddChanel, InitConnect, RemoveChanel, CloseOut, Goto
  <2>2. /\ UNCHANGED pc \/ \E p \in {"init", "wait", "closed"} : pc' = [pc EXCEPT ![y] = p]
        /\ UNCHANGED pc \/ pc[y] \in {"add", "init", "close"}
        /\ pc[y] = "close" => UNCHANGED pc \/ pc' = [pc EXCEPT ![y] = "closed"]
    BY <1>7 DEF AddChanel, InitConnect, CloseOut, Goto
  <2>3. \A x \in Conns : pc'[x] \in {"add", "init", "wait"} => pc[x] \in {"add", "init", "wait"}
    BY <1>1, <2>2
  <2> QED BY <1>6, <2>1, <2>3
<1>8. ASSUME \/ \E q \in Requests : ListChannels(q) \/ \E m \in Miners : SectorsUnsealPiece(q, m)
             \/ \E y \in Conns : EndConnection(y) \/ TakeAnnouncement(y)
             \/ BeginList \/ EndList
      PROVE  StoreLasts'
  <2>1. UNCHANGED <<minerConnections, pc>>
    BY <1>8 DEF ListChannels, SectorsUnsealPiece, LookupMiner, EndConnection, TakeAnnouncement,
       ForwardToClient, BeginList, EndList, conns
  <2> QED BY <1>6, <2>1
<1> QED BY <1>4, <1>5, <1>7, <1>8 DEF StreamStep, ConnStep

\* The two other ways to end: a map written under an iteration, and a nil store, which
\* StoreLasts explains by two connections that shared one.
LEMMA StreamCrash ==
  ASSUME CallsInv, ~crashed, StreamStep, crashed'
  PROVE  Overlapped \/ (listing /\ minerConnections' # minerConnections)
<1>1. /\ crashed = FALSE /\ (crashed' \in {crashed, listing} => listing)
      /\ minerConnections \in [Miners -> Conns \cup {None}]
  BY DEF CallsInv, TypesOK, M!IInv, M!TypeOK
<1>2. ASSUME NEW m \in Miners, NEW s, WriteMap(m, s), minerConnections[m] # s
      PROVE  listing /\ minerConnections' # minerConnections
  <2>1. minerConnections'[m] = s
    BY <1>1, <1>2 DEF WriteMap
  <2> QED BY <1>1, <1>2, <2>1 DEF WriteMap
<1>3. CASE \E x \in Conns, m \in Miners : ListenMarketEvent(x, m)
  <2>1. PICK x \in Conns, m \in Miners : WriteMap(m, x) /\ minerConnections[m] = None
    BY <1>1, <1>3 DEF ListenMarketEvent
  <2> QED BY <1>2, <2>1, NoneAssumption
<1>4. ASSUME NEW x \in Conns, RemoveChanel(x)
      PROVE  Overlapped \/ (listing /\ minerConnections' # minerConnections)
  <2>1. pc[x] = "wait" /\ x \in done /\ miner[x] \in Miners /\ store[x] # None
    BY <1>4 DEF RemoveChanel, Ended, CallsInv, StoresOK, M!IInv, M!MinersOwn
  <2>2. CASE minerConnections[miner[x]] # None
    <3>1. WriteMap(miner[x], None)
      BY <1>1, <1>4, <2>2 DEF RemoveChanel
    <3> QED BY <1>2, <2>1, <2>2, <3>1
  <2>3. CASE minerConnections[miner[x]] = None
    <3>1. Two(x)
      BY <2>1, <2>3 DEF CallsInv, StoreLasts
    <3> QED BY <2>1, <3>1 DEF Two, Overlapped
  <2> QED BY <2>2, <2>3
<1>5. CASE \/ \E q \in Requests : ListChannels(q) \/ \E m \in Miners : SectorsUnsealPiece(q, m)
           \/ \E y \in Conns : EndConnection(y) \/ TakeAnnouncement(y) \/ AddChanel(y) \/ InitConnect(y) \/ CloseOut(y)
           \/ BeginList \/ EndList
  BY <1>5 DEF ListChannels, SectorsUnsealPiece, LookupMiner, EndConnection, TakeAnnouncement,
     ForwardToClient, BeginList, EndList, AddChanel, InitConnect, CloseOut
<1> QED BY <1>3, <1>4, <1>5 DEF StreamStep, ConnStep

LEMMA StreamKeepsTies ==
  ASSUME CallsInv, ~crashed, StreamStep
  PROVE  TypesOK' /\ QueuesOK' /\ EndedFirst' /\ PanicSeen' /\ RouteOK' /\ StoresOK' /\ StoreLasts'
<1>1. UNCHANGED <<at, list, taken>>
  BY DEF StreamStep, broker
<1>2. asked' \in [Requests -> Miners \cup {None}]
  <2>1. asked \in [Requests -> Miners \cup {None}]
    BY DEF CallsInv, TypesOK
  <2>2. UNCHANGED asked \/ \E q \in Requests, m \in Miners : asked' = [asked EXCEPT ![q] = m]
    BY DEF StreamStep, SectorsUnsealPiece
  <2> QED BY <2>1, <2>2
<1>3. crashed' \in BOOLEAN
  <2>1. crashed \in BOOLEAN /\ listing \in BOOLEAN
    BY DEF CallsInv, TypesOK, M!IInv, M!TypeOK
  <2>2. CASE \/ \E x \in Conns, m \in Miners : ListenMarketEvent(x, m)
             \/ \E x \in Conns : ConnStep(x)
    BY <2>1, <2>2 DEF ListenMarketEvent, ConnStep, AddChanel, InitConnect, RemoveChanel, CloseOut, WriteMap
  <2>3. CASE \/ \E q \in Requests : ListChannels(q) \/ \E m \in Miners : SectorsUnsealPiece(q, m)
             \/ \E y \in Conns : EndConnection(y) \/ TakeAnnouncement(y)
             \/ BeginList \/ EndList
    BY <2>1, <2>3 DEF ListChannels, SectorsUnsealPiece, LookupMiner, EndConnection, TakeAnnouncement,
       ForwardToClient, BeginList, EndList
  <2> QED BY <2>2, <2>3 DEF StreamStep
<1>4. TypesOK'
  BY <1>2, <1>3, NoteFrame DEF TypesOK, B!Req
<1>5. QueuesOK'
  <2>1. ASSUME NEW x \in Conns, NEW r \in out'[x] \ {Announcement}
        PROVE  at'[r] # "none" /\ B!ChanOf(r)' = x
    <3>1. r \in out[x] \ {Announcement}
      BY <2>1, NoteFrame
    <3>2. at[r] # "none" /\ B!ChanOf(r) = x
      BY <3>1 DEF CallsInv, QueuesOK
    <3> QED BY <1>1, <3>2 DEF B!ChanOf
  <2>2. \A r \in taken' : at'[r] # "none"
    BY <1>1 DEF CallsInv, QueuesOK
  <2> QED BY <2>1, <2>2, NoteFrame DEF QueuesOK
<1>6. EndedFirst' /\ PanicSeen'
  BY ConnFrame, BrokerIdle DEF EndedFirst, PanicSeen, StreamStep
<1> QED BY <1>4, <1>5, <1>6, StreamKeepsRoute, StreamKeepsStores, StreamKeepsLast

----------------------------------------------------------------------------
(* The inductive invariant.                                                *)

LEMMA InitSeen == CallsInit => B!Init /\ M!Init /\ ~PanicEnded
<1> SUFFICES ASSUME CallsInit PROVE B!Init /\ M!Init /\ ~PanicEnded
  OBVIOUS
<1>1. ~PanicEnded
  BY DEF CallsInit, Broker!Init, PanicEnded
<1>2. PanicEnded = FALSE
  BY <1>1 DEF PanicEnded
<1>3. /\ {x \in Conns : pc[x] = "closed"} = {}
      /\ [x \in Conns |-> out[x] \ {Announcement}] = [x \in Conns |-> {}]
      /\ [x \in Conns |-> out[x] \cap {Announcement}] = [x \in Conns |-> {}]
      /\ (crashed /\ ~PanicEnded) = FALSE
  BY DEF CallsInit, Init
<1>4. B!Init
  BY <1>2, <1>3 DEF CallsInit, Broker!Init, B!Init, Broker!Req, B!Req
<1>5. M!Init
  BY <1>3 DEF CallsInit, Init, M!Init
<1> QED BY <1>1, <1>4, <1>5

LEMMA StutterSeen == UNCHANGED cvars => UNCHANGED <<B!vars, M!vars, PanicEnded>>
<1> SUFFICES ASSUME UNCHANGED cvars PROVE UNCHANGED <<B!vars, M!vars, PanicEnded>>
  OBVIOUS
<1> USE DEF cvars, vars, conns, senders, broker
<1>1. UNCHANGED PanicEnded
  BY DEF PanicEnded
<1>2. UNCHANGED B!vars
  BY <1>1 DEF B!vars, B!registry, B!streams, B!callers, B!attempts
<1>3. UNCHANGED M!vars
  BY <1>1 DEF M!vars, M!conns, M!senders
<1> QED BY <1>1, <1>2, <1>3

LEMMA CallsInvInit == CallsInit => CallsInv
<1> SUFFICES ASSUME CallsInit PROVE CallsInv
  OBVIOUS
<1>1. B!Init /\ M!Init /\ ~PanicEnded
  BY InitSeen
<1>2. TypesOK /\ PanicSeen
  BY <1>1 DEF CallsInit, Init, TypesOK, PanicSeen
<1>3. QueuesOK /\ EndedFirst /\ StoresOK /\ StoreLasts
  BY FS_EmptySet DEF CallsInit, Init, Broker!Init, QueuesOK, EndedFirst, StoresOK, StoreLasts
<1>4. RouteOK
  BY DEF CallsInit, Init, Broker!Init, RouteOK, AskedOf, AimedOf, ListedOf
<1> QED BY <1>1, <1>2, <1>3, <1>4, BrokerInductive, StreamInductive DEF CallsInv

LEMMA CallsInvStep == CallsInv /\ [CallsNext]_cvars => CallsInv'
<1> SUFFICES ASSUME CallsInv, [CallsNext]_cvars PROVE CallsInv'
  OBVIOUS
<1>1. B!BrokerInv /\ M!IInv
  BY DEF CallsInv
<1>2. CASE ~crashed /\ StreamStep
  <2>1. B!BrokerInv' /\ M!IInv'
    BY <1>1, <1>2, StreamSeen, StreamSeenByBroker, BrokerInductive, StreamInductive
  <2> QED BY <1>2, <2>1, StreamKeepsTies DEF CallsInv
<1>3. CASE ~crashed /\ BrokerStep
  <2>1. B!BrokerInv' /\ M!IInv'
    BY <1>1, <1>3, BrokerSeen, BrokerInductive, StreamInductive
  <2> QED BY <1>3, <2>1, BrokerKeepsTies DEF CallsInv
<1>4. CASE UNCHANGED cvars
  <2> USE <1>4 DEF cvars, vars, conns, senders, broker
  <2>1. UNCHANGED <<B!vars, M!vars, PanicEnded>>
    BY StutterSeen
  <2>2. TypesOK' /\ QueuesOK' /\ EndedFirst' /\ PanicSeen'
    BY <2>1 DEF CallsInv, TypesOK, QueuesOK, EndedFirst, PanicSeen, B!Req, B!ChanOf
  <2>3. RouteOK'
    BY DEF CallsInv, RouteOK, AskedOf, AimedOf, ListedOf, M!CreatedFor, Orderings
  <2>4. StoresOK' /\ StoreLasts'
    BY DEF CallsInv, StoresOK, StoreLasts, Two
  <2> QED BY <1>1, <2>1, <2>2, <2>3, <2>4, BrokerInductive, StreamInductive DEF CallsInv
<1> QED BY <1>2, <1>3, <1>4 DEF CallsNext

LEMMA CallsInvHolds == CallsSpec => []CallsInv
BY CallsInvInit, CallsInvStep, PTL DEF CallsSpec

----------------------------------------------------------------------------
(* What the two promise together.                                          *)

\* The requests a client has taken, and those in its queue, were asked of the miner it
\* registered for: no call of SectorsUnsealPiece strays to another miner's client.
THEOREM WorkIsForMiner == CallsSpec => []WorkGoesToMiner
<1>1. CallsInv => WorkGoesToMiner
  <2> SUFFICES ASSUME CallsInv PROVE WorkGoesToMiner
    OBVIOUS
  <2>1. ASSUME NEW r \in B!Req, at[r] # "none" PROVE miner[B!ChanOf(r)] = asked[r[1]]
    BY <2>1, MadeIsListed DEF CallsInv, RouteOK, AimedOf
  <2>2. ASSUME NEW r \in taken PROVE miner[Broker!ChanOf(r)] = asked[r[1]]
    <3>1. r \in B!Req /\ at[r] # "none"
      BY DEF CallsInv, QueuesOK, B!BrokerInv, B!IInv, B!TypeOK, B!StreamsOK
    <3> QED BY <2>1, <3>1 DEF Broker!ChanOf, B!ChanOf
  <2>3. ASSUME NEW x \in Conns, NEW r \in out[x] \ {Announcement}
        PROVE  Broker!ChanOf(r) = x /\ miner[x] = asked[r[1]]
    <3>1. r \in B!Req /\ at[r] # "none" /\ B!ChanOf(r) = x
      BY DEF CallsInv, QueuesOK, TypesOK
    <3> QED BY <2>1, <3>1 DEF Broker!ChanOf, B!ChanOf
  <2> QED BY <2>2, <2>3 DEF WorkGoesToMiner
<1> QED BY <1>1, CallsInvHolds, PTL

\* A list without repetition, as long as a set is large, leaves out none of it.
LEMMA OrderingIsOnto ==
  ASSUME NEW S \in SUBSET Conns, NEW l \in Orderings(S)
  PROVE  \A x \in S : \E i \in 1..Cardinality(S) : l[i] = x
<1> DEFINE n == Cardinality(S)
           R == {l[i] : i \in 1..n}
<1>1. IsFiniteSet(S) /\ n \in Nat
  BY ConnsAssumption, FS_Subset, FS_CardinalityType
<1>2. l \in [1..n -> S] /\ \A i, j \in 1..n : l[i] = l[j] => i = j
  BY DEF Orderings
<1>3. R \subseteq S
  BY <1>2
<1>4. l \in Bijection(1..n, R)
  <2>1. l \in [1..n -> R]
    BY <1>2
  <2>2. \A y \in R : \E i \in 1..n : l[i] = y
    OBVIOUS
  <2> QED BY <1>2, <2>1, <2>2 DEF Bijection, Injection, Surjection, IsInjective
<1>5. IsFiniteSet(1..n) /\ Cardinality(1..n) = n
  BY <1>1, FS_Interval
<1>6. IsFiniteSet(R) /\ Cardinality(R) = n
  BY <1>4, <1>5, FS_Bijection DEF ExistsBijection
<1>7. R = S
  BY <1>1, <1>3, <1>6, FS_Subset
<1> QED BY <1>7

\* A call of SectorsUnsealPiece that failed for its channels was given up by its caller,
\* or has lost every connection getChannels listed.
THEOREM FailureIsGone == CallsSpec => []FailureMeansGone
<1>1. CallsInv => FailureMeansGone
  <2> SUFFICES ASSUME CallsInv, NEW q \in Requests, outcome[q] \in {"closed", "allFailed"},
                      q \notin canceled, NEW x \in targets[q]
               PROVE  x \in done
    BY DEF FailureMeansGone
  <2>1. B!Spent(q) /\ cpc[q] # "idle"
    BY DEF CallsInv, B!BrokerInv, B!IInv, B!CallShape, B!ShapeOf
  <2>2. list[q] \in Orderings(targets[q]) /\ targets[q] \in SUBSET Conns
    BY <2>1 DEF CallsInv, RouteOK, ListedOf, M!IInv, M!TypeOK
  <2>3. PICK i \in 1..Cardinality(targets[q]) : list[q][i] = x
    BY <2>2, OrderingIsOnto
  <2>4. Len(list[q]) = Cardinality(targets[q])
    BY <2>2, OrderingIsList
  <2> QED BY <2>1, <2>3, <2>4 DEF B!Spent, B!Gone
<1> QED BY <1>1, CallsInvHolds, PTL

\* The gateway goes down by itself only in a write of the map under its iteration, or
\* when two connections of a miner that shared a store have ended.
THEOREM CrashHasReason == CallsSpec => CrashNeedsOverlap
<1>1. ASSUME CallsInv, [CallsNext]_cvars, ~crashed, crashed'
      PROVE  Overlapped \/ (listing /\ minerConnections' # minerConnections)
  <2>1. StreamStep \/ BrokerStep
    BY <1>1 DEF CallsNext, cvars, vars
  <2> QED BY <1>1, <2>1, PanicNeedsOverlap, StreamCrash
<1>2. CallsInv /\ [CallsNext]_cvars =>
        [~crashed /\ crashed' => Overlapped \/ (listing /\ minerConnections' # minerConnections)]_cvars
  BY <1>1
<1> QED BY <1>2, CallsInvHolds, PTL DEF CallsSpec, CrashNeedsOverlap

----------------------------------------------------------------------------
(* The refinements.                                                        *)

\* B and View instantiate BaseEvent alike, and so do M and StreamView MarketStream.
LEMMA ViewIsBroker ==
  /\ View!Init <=> B!Init
  /\ B!Next => View!Next
  /\ View!vars = B!vars
<1>1. (View!Init <=> B!Init) /\ View!vars = B!vars
  BY DEF View!Init, B!Init, View!Req, B!Req, View!vars, B!vars, View!registry, B!registry,
     View!streams, B!streams, View!callers, B!callers, View!attempts, B!attempts
<1>2. B!Next => View!Next
  BY DEF B!Next, View!Next, B!SendRequest, View!SendRequest, B!CallStep, View!CallStep, B!AttemptStep,
     View!AttemptStep, B!ResponseEvent, View!ResponseEvent, B!DeliverReply, View!DeliverReply,
     B!CleanRequests, View!CleanRequests, B!StopCleaning, View!StopCleaning, B!EnvStep, View!EnvStep,
     B!FirstReturns, View!FirstReturns, B!FanOut, View!FanOut, B!ReceiveReply, View!ReceiveReply,
     B!SelectCtxDone, View!SelectCtxDone, B!Register, View!Register, B!GiveUp, View!GiveUp,
     B!PassCheck, View!PassCheck, B!Enqueue, View!Enqueue, B!SendPanics, View!SendPanics,
     B!AcceptReply, View!AcceptReply, B!CountFailure, View!CountFailure, B!LastFailure, View!LastFailure,
     B!EnterOnce, View!EnterOnce, B!OnceIsFree, View!OnceIsFree, B!LeaveOnce, View!LeaveOnce,
     B!Cancel, View!Cancel, B!Take, View!Take, B!Disconnect, View!Disconnect,
     B!CloseOutBound, View!CloseOutBound, B!Forget, View!Forget, B!Return, View!Return,
     B!Retriable, View!Retriable, B!Req, View!Req, B!ChanOf, View!ChanOf, B!Others, View!Others,
     B!Answers, View!Answers, B!Replies, View!Replies, B!Failures, View!Failures,
     B!registry, View!registry, B!streams, View!streams, B!callers, View!callers,
     B!attempts, View!attempts, B!Cardinality, View!Cardinality
<1> QED BY <1>1, <1>2

LEMMA ViewIsStream ==
  /\ StreamView!Init <=> M!Init
  /\ M!Next => StreamView!Next
  /\ StreamView!vars = M!vars
<1>1. (StreamView!Init <=> M!Init) /\ StreamView!vars = M!vars
  BY DEF StreamView!Init, M!Init, StreamView!vars, M!vars, StreamView!conns, M!conns,
     StreamView!senders, M!senders
<1>2. M!Next => StreamView!Next
  BY DEF M!Next, StreamView!Next, M!ListenMarketEvent, StreamView!ListenMarketEvent, M!ConnStep,
     StreamView!ConnStep, M!AddChanel, StreamView!AddChanel, M!InitConnect, StreamView!InitConnect,
     M!RemoveChanel, StreamView!RemoveChanel, M!CloseOut, StreamView!CloseOut,
     M!ForwardToClient, StreamView!ForwardToClient, M!EndConnection, StreamView!EndConnection,
     M!SenderStep, StreamView!SenderStep, M!LookupMiner, StreamView!LookupMiner,
     M!ListChannels, StreamView!ListChannels, M!Send, StreamView!Send, M!SendPanics, StreamView!SendPanics,
     M!BeginList, StreamView!BeginList, M!EndList, StreamView!EndList, M!Goto, StreamView!Goto,
     M!WriteMap, StreamView!WriteMap, M!Put, StreamView!Put, M!Ended, StreamView!Ended,
     M!Without, StreamView!Without, M!Empty, StreamView!Empty, M!StoreOf, StreamView!StoreOf,
     M!conns, StreamView!conns, M!senders, StreamView!senders, M!Cardinality, StreamView!Cardinality
<1> QED BY <1>1, <1>2

\* Every step of the two, seen through the requests alone, is a step of BaseEvent.
LEMMA BrokerRefined == CallsSpec => B!Spec
<1>1. CallsInit => B!Init
  BY InitSeen
<1>2. CallsInv /\ [CallsNext]_cvars => [B!Next]_(B!vars)
  BY StutterSeen, BrokerSeen, StreamSeenByBroker DEF CallsNext
<1> QED BY <1>1, <1>2, CallsInvHolds, PTL DEF CallsSpec, B!Spec

\* And seen through the announcements alone, one of MarketStream.
LEMMA StreamRefined == CallsSpec => M!Spec
<1>1. CallsInit => M!Init
  BY InitSeen
<1>2. CallsInv /\ [CallsNext]_cvars => [M!Next]_(M!vars)
  BY StutterSeen, BrokerSeen, StreamSeen DEF CallsNext
<1> QED BY <1>1, <1>2, CallsInvHolds, PTL DEF CallsSpec, M!Spec

\* The composition implements the broker, with the market stream for its environment.
THEOREM CallsKeepBroker == CallsSpec => KeepsBroker
<1>1. B!Init => View!Init
  BY ViewIsBroker
<1>2. [B!Next]_(B!vars) => [View!Next]_(View!vars)
  <2>1. View!vars' = B!vars'
    BY DEF View!vars, B!vars, View!registry, B!registry, View!streams, B!streams, View!callers,
       B!callers, View!attempts, B!attempts
  <2> QED BY <2>1, ViewIsBroker
<1> QED BY <1>1, <1>2, BrokerRefined, PTL DEF KeepsBroker, View!Spec, B!Spec

\* The composition implements the market stream, with the broker for its sender.
THEOREM CallsKeepStream == CallsSpec => KeepsStream
<1>1. M!Init => StreamView!Init
  BY ViewIsStream
<1>2. [M!Next]_(M!vars) => [StreamView!Next]_(StreamView!vars)
  <2>1. StreamView!vars' = M!vars'
    BY DEF StreamView!vars, M!vars, StreamView!conns, M!conns, StreamView!senders, M!senders
  <2> QED BY <2>1, ViewIsStream
<1> QED BY <1>1, <1>2, StreamRefined, PTL DEF KeepsStream, StreamView!Spec, M!Spec

\* So what was proved of the broker alone holds of it here: a request is settled once,
\* and a call of SectorsUnsealPiece returns once, with a reply of its own or an error.
THEOREM CallsKeepPromise == CallsSpec => B!KeepsPromise
<1>1. Conns \subseteq Conns
  OBVIOUS
<1> QED BY <1>1, BrokerRefined, BrokerAssumptions, B!BrokerKeepsPromise, PTL

\* And of the stream: getChannels never yields a connection of another miner, nor one
\* that was taken out, whatever the calls do meanwhile.
THEOREM CallsKeepLookup == CallsSpec => []M!OnlyOwnAndLive
BY StreamRefined, QueueAssumption, NoneAssumption, AnnouncementAssumption, M!LookupIsOwnAndLive, PTL

\* Nor is a connection that was found under its miner lost before it has ended.
THEOREM CallsKeepRegistry == CallsSpec => M!KeepsRegistry
BY StreamRefined, QueueAssumption, NoneAssumption, AnnouncementAssumption, M!StreamKeepsRegistry, PTL
=============================================================================
