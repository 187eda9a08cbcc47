----------------------------- MODULE BaseEvent -----------------------------
(***************************************************************************)
(* The request broker every event stream embeds: types/base_event.go.      *)
(*                                                                         *)
(* A call of SendRequest offers its request to the first channel of its    *)
(* list and, when that attempt is lost, to all the others at once; the     *)
(* first of those to be answered wins.  An attempt registers a request     *)
(* under a fresh id, enqueues it on the channel of a connected client and  *)
(* waits.  The client's answer comes back as a separate RPC                *)
(* (ResponseEvent) and races with the ticker that times requests out.      *)
(*                                                                         *)
(* A request is named by the call and the position in its list that made   *)
(* it, standing for the UUID.  Payloads are reduced to what processResp    *)
(* tells apart; a payload that does not unmarshal counts as an "error".    *)
(* Time is abstract: which entries the ticker finds too old is a choice.   *)
(***************************************************************************)
EXTENDS Naturals, Sequences, FiniteSets

CONSTANTS
    Calls,        \* the calls of SendRequest
    Channels,     \* the ChannelInfo values of connected clients
    Closable,     \* those whose stream closes OutBound when it ends (market, wallet)
    Lists,        \* the channel lists a call may be given
    MaxLen,       \* a bound on their lengths
    QueueSize     \* cfg.RequestQueueSize, the capacity of an OutBound

ASSUME ListsAssumption == \A l \in Lists : l \in Seq(Channels) /\ Len(l) \in 0..MaxLen
ASSUME BoundAssumption == MaxLen \in Nat \ {0} /\ QueueSize \in Nat \ {0}
ASSUME ClosableAssumption == Closable \subseteq Channels

Req == Calls \X (1..MaxLen)

Answers == {"payload", "error"}             \* what a client answers
Replies == Answers \cup {"timeout"}         \* what arrives on a request's Result channel
Failures == {"closed", "canceled"}          \* the errors sendOnce returns
Outcomes == Replies \cup Failures \cup {"allFailed", "noChannel", "panic"}

VARIABLES
    idRequest,    \* the registered requests (the map, under reqLk)
    result,       \* result[r]: the content of r's Result channel, capacity 1
    replying,     \* ResponseEvent handlers between the unlock and the send on Result
    cleaning,     \* is the cleanRequests goroutine running
    ctxDone,      \* channels whose Ctx is done
    closed,       \* channels whose OutBound is closed
    outBound,     \* outBound[c]: the requests buffered in c's OutBound
    taken,        \* requests handed to a client
    list,         \* list[k]: the channels call k was given
    pc,           \* pc[k]: where call k's SendRequest is
    canceled,     \* calls whose context is done
    errRespCount, \* errRespCount[k]: failed attempts counted by the fan-out
    respOnce,     \* respOnce[k]: the attempt that entered respOnce.Do, or 0
    at,           \* at[r]: where the attempt that made r is
    got,          \* got[r]: what sendOnce returned to it
    outcome,      \* outcome[k]: what SendRequest returned
    crashed,      \* has a panic ended the process
    settled       \* history: settled[r] is what removed r from idRequest

registry == <<idRequest, result, replying, cleaning, settled>>
streams == <<ctxDone, closed, outBound, taken>>
callers == <<list, pc, canceled, errRespCount, respOnce, outcome>>
attempts == <<at, got>>
vars == <<registry, streams, callers, attempts, crashed>>

ChanOf(r) == list[r[1]][r[2]]
Others(k) == {k} \X (2..Len(list[k]))

Init ==
    /\ idRequest = {} /\ replying = {} /\ cleaning = TRUE
    /\ result = [r \in Req |-> "none"] /\ settled = [r \in Req |-> "none"]
    /\ ctxDone = {} /\ closed = {} /\ taken = {}
    /\ outBound = [c \in Channels |-> {}]
    /\ list = [k \in Calls |-> <<>>] /\ pc = [k \in Calls |-> "idle"]
    /\ canceled = {} /\ outcome = [k \in Calls |-> "none"]
    /\ errRespCount = [k \in Calls |-> 0] /\ respOnce = [k \in Calls |-> 0]
    /\ at = [r \in Req |-> "none"] /\ got = [r \in Req |-> "none"]
    /\ crashed = FALSE

----------------------------------------------------------------------------
(* SendRequest: the call itself.                                           *)

Return(k, o) ==
    /\ pc' = [pc EXCEPT ![k] = "returned"]
    /\ outcome' = [outcome EXCEPT ![k] = o]
    /\ UNCHANGED <<list, canceled, errRespCount, respOnce>>

\* An empty list is refused; otherwise the first channel is tried.
SendRequest(k, l) ==
    /\ pc[k] = "idle"
    /\ \/ /\ l = <<>>
          /\ Return(k, "noChannel")
          /\ UNCHANGED at
       \/ /\ l # <<>>
          /\ list' = [list EXCEPT ![k] = l]
          /\ pc' = [pc EXCEPT ![k] = "first"]
          /\ at' = [at EXCEPT ![<<k, 1>>] = "new"]
          /\ UNCHANGED <<canceled, errRespCount, respOnce, outcome>>
    /\ UNCHANGED <<registry, streams, got, crashed>>

\* Mutants of Retriable: a timed out first attempt is retried too; none is.
RetriableOnTimeout(k) ==
    got[<<k, 1>>] \in Failures \cup {"timeout"} /\ k \notin canceled /\ Len(list[k]) > 1

RetriableNever(k) == FALSE

\* The first attempt was lost, and there are others to try.  (The isTimeoutError
\* test never holds of an error of sendOnce: a timeout arrives as a response.)
Retriable(k) == got[<<k, 1>>] \in Failures /\ k \notin canceled /\ Len(list[k]) > 1

FirstReturns(k) ==
    LET r == <<k, 1>> IN
    /\ pc[k] = "first" /\ at[r] = "done"
    /\ ~Retriable(k)
    /\ Return(k, got[r])
    /\ at' = [at EXCEPT ![r] = "exit"]
    /\ UNCHANGED <<registry, streams, got, crashed>>

\* One goroutine for each other channel.
FanOut(k) ==
    /\ pc[k] = "first" /\ at[<<k, 1>>] = "done" /\ Retriable(k)
    /\ pc' = [pc EXCEPT ![k] = "select"]
    /\ at' = [r \in Req |-> IF r = <<k, 1>> THEN "exit"
                            ELSE IF r \in Others(k) THEN "new" ELSE at[r]]
    /\ UNCHANGED <<registry, streams, list, canceled, errRespCount, respOnce,
                   outcome, got, crashed>>

\* The rendezvous on the unbuffered respCh.
ReceiveReply(k) ==
    \E r \in Others(k) :
        /\ pc[k] = "select" /\ at[r] = "offer"
        /\ Return(k, got[r])
        /\ at' = [at EXCEPT ![r] = "exit"]
        /\ UNCHANGED <<registry, streams, got, crashed>>

SelectCtxDone(k) ==
    /\ pc[k] = "select" /\ k \in canceled
    /\ Return(k, "canceled")
    /\ UNCHANGED <<registry, streams, attempts, crashed>>

----------------------------------------------------------------------------
(* sendOnce: one attempt, run by the call (position 1) or by a goroutine.  *)

Register(r) ==
    /\ at[r] = "new"
    /\ idRequest' = idRequest \cup {r}
    /\ at' = [at EXCEPT ![r] = "check"]
    /\ UNCHANGED <<result, replying, cleaning, settled, streams, callers, got, crashed>>

\* Either context is done, seen before the send or while waiting.
GiveUp(r) ==
    /\ at[r] \in {"check", "wait"}
    /\ \/ ChanOf(r) \in ctxDone /\ got' = [got EXCEPT ![r] = "closed"]
       \/ r[1] \in canceled /\ got' = [got EXCEPT ![r] = "canceled"]
    /\ at' = [at EXCEPT ![r] = "done"]
    /\ UNCHANGED <<registry, streams, callers, crashed>>

\* The default branch: from here on neither context is looked at.
PassCheck(r) ==
    /\ at[r] = "check"
    /\ ChanOf(r) \notin ctxDone /\ r[1] \notin canceled
    /\ at' = [at EXCEPT ![r] = "send"]
    /\ UNCHANGED <<registry, streams, callers, got, crashed>>

\* channel.OutBound <- request, which waits while the buffer is full.
Enqueue(r) ==
    LET c == ChanOf(r) IN
    /\ at[r] = "send" /\ c \notin closed
    /\ Cardinality(outBound[c]) < QueueSize
    /\ outBound' = [outBound EXCEPT ![c] = @ \cup {r}]
    /\ at' = [at EXCEPT ![r] = "wait"]
    /\ UNCHANGED <<registry, ctxDone, closed, taken, callers, got, crashed>>

\* The same send on a closed OutBound.  In a goroutine of the fan-out the panic
\* ends the process; in the call it unwinds to the RPC server, which recovers.
SendPanics(r) ==
    /\ at[r] = "send" /\ ChanOf(r) \in closed
    /\ at' = [at EXCEPT ![r] = "exit"]
    /\ \/ /\ r[2] = 1
          /\ Return(r[1], "panic")
          /\ UNCHANGED crashed
       \/ /\ r[2] > 1
          /\ crashed' = TRUE
          /\ UNCHANGED callers
    /\ UNCHANGED <<registry, streams, got>>

\* Mutant of AcceptReply: the requests of one channel share a Result channel.
AcceptAnyReply(r) ==
    /\ at[r] = "wait"
    /\ \E q \in Req :
        /\ result[q] # "none" /\ ChanOf(q) = ChanOf(r)
        /\ got' = [got EXCEPT ![r] = result[q]]
        /\ result' = [result EXCEPT ![q] = "none"]
    /\ at' = [at EXCEPT ![r] = "done"]
    /\ UNCHANGED <<idRequest, replying, cleaning, settled, streams, callers, crashed>>

AcceptReply(r) ==
    /\ at[r] = "wait" /\ result[r] # "none"
    /\ got' = [got EXCEPT ![r] = result[r]]
    /\ result' = [result EXCEPT ![r] = "none"]
    /\ at' = [at EXCEPT ![r] = "done"]
    /\ UNCHANGED <<idRequest, replying, cleaning, settled, streams, callers, crashed>>

\* Mutants of LastFailure: one too few, one too many.
LastFailureEarly(k, n) == n = Len(list[k]) - 2

LastFailureLate(k, n) == n = Len(list[k])

LastFailure(k, n) == n = Len(list[k]) - 1

\* A goroutine of the fan-out whose attempt failed; the last one to fail
\* offers the collective error (and keeps lk while it does).
CountFailure(r) ==
    LET k == r[1] IN
    /\ at[r] = "done" /\ r[2] > 1 /\ got[r] \in Failures
    /\ errRespCount' = [errRespCount EXCEPT ![k] = @ + 1]
    /\ \/ /\ LastFailure(k, errRespCount'[k])
          /\ at' = [at EXCEPT ![r] = "offer"]
          /\ got' = [got EXCEPT ![r] = "allFailed"]
       \/ /\ ~LastFailure(k, errRespCount'[k])
          /\ at' = [at EXCEPT ![r] = "exit"]
          /\ UNCHANGED got
    /\ UNCHANGED <<registry, streams, list, pc, canceled, respOnce, outcome, crashed>>

\* Mutant of OnceIsFree: no respOnce.
OnceIsNothing(k) == TRUE

OnceIsFree(k) == respOnce[k] = 0

\* respOnce.Do: the first answered attempt offers its reply; the others wait
\* inside Do until it has been received and then leave.
EnterOnce(r) ==
    /\ at[r] = "done" /\ r[2] > 1 /\ got[r] \in Replies
    /\ OnceIsFree(r[1])
    /\ respOnce' = [respOnce EXCEPT ![r[1]] = r[2]]
    /\ at' = [at EXCEPT ![r] = "offer"]
    /\ UNCHANGED <<registry, streams, list, pc, canceled, errRespCount, outcome, got, crashed>>

LeaveOnce(r) ==
    /\ at[r] = "done" /\ r[2] > 1 /\ got[r] \in Replies
    /\ respOnce[r[1]] # 0 /\ at[<<r[1], respOnce[r[1]]>>] = "exit"
    /\ at' = [at EXCEPT ![r] = "exit"]
    /\ UNCHANGED <<registry, streams, callers, got, crashed>>

----------------------------------------------------------------------------
(* ResponseEvent and cleanRequests.                                        *)

\* Mutant of Forget: the entries are left in the map.
Remember(reqs) == UNCHANGED idRequest

Forget(reqs) == idRequest' = idRequest \ reqs

\* The entry is removed under reqLk.  (An answer to an unknown id is refused
\* and changes nothing.)
ResponseEvent(r, a) ==
    /\ r \in taken \cap idRequest
    /\ Forget({r})
    /\ replying' = replying \cup {[req |-> r, ans |-> a]}
    /\ settled' = [settled EXCEPT ![r] = a]
    /\ UNCHANGED <<result, cleaning, streams, callers, attempts, crashed>>

\* The non-blocking send after the unlock.
DeliverReply(m) ==
    /\ replying' = replying \ {m}
    /\ result' = [result EXCEPT ![m.req] = IF @ = "none" THEN m.ans ELSE @]
    /\ UNCHANGED <<idRequest, cleaning, settled, streams, callers, attempts, crashed>>

\* A tick: every entry found too old is removed and answered with a timeout,
\* without blocking, all under reqLk.
CleanRequests(late) ==
    /\ cleaning
    /\ Forget(late)
    /\ result' = [r \in Req |-> IF r \in late /\ result[r] = "none" THEN "timeout" ELSE result[r]]
    /\ settled' = [r \in Req |-> IF r \in late THEN "timeout" ELSE settled[r]]
    /\ UNCHANGED <<replying, cleaning, streams, callers, attempts, crashed>>

StopCleaning ==
    /\ cleaning /\ cleaning' = FALSE
    /\ UNCHANGED <<idRequest, result, replying, settled, streams, callers, attempts, crashed>>

----------------------------------------------------------------------------
(* The environment: the callers' contexts, and the streams the channels    *)
(* belong to (the RPC server forwards OutBound to the client).             *)

Cancel(k) ==
    /\ k \notin canceled /\ canceled' = canceled \cup {k}
    /\ UNCHANGED <<registry, streams, list, pc, errRespCount, respOnce, outcome, attempts, crashed>>

Take(c, r) ==
    /\ r \in outBound[c]
    /\ outBound' = [outBound EXCEPT ![c] = @ \ {r}]
    /\ taken' = taken \cup {r}
    /\ UNCHANGED <<registry, ctxDone, closed, callers, attempts, crashed>>

Disconnect(c) ==
    /\ c \notin ctxDone /\ ctxDone' = ctxDone \cup {c}
    /\ UNCHANGED <<registry, closed, outBound, taken, callers, attempts, crashed>>

CloseOutBound(c) ==
    /\ c \in (Closable \cap ctxDone) \ closed
    /\ closed' = closed \cup {c}
    /\ UNCHANGED <<registry, ctxDone, outBound, taken, callers, attempts, crashed>>

----------------------------------------------------------------------------
CallStep(k) == FirstReturns(k) \/ FanOut(k) \/ ReceiveReply(k) \/ SelectCtxDone(k)

AttemptStep(r) ==
    \/ Register(r) \/ GiveUp(r) \/ PassCheck(r) \/ Enqueue(r) \/ SendPanics(r)
    \/ AcceptReply(r) \/ CountFailure(r) \/ EnterOnce(r) \/ LeaveOnce(r)

EnvStep ==
    \/ \E k \in Calls : Cancel(k)
    \/ \E c \in Channels : Disconnect(c) \/ CloseOutBound(c)
    \/ \E c \in Channels, r \in Req : Take(c, r)

Next ==
    /\ ~crashed
    /\ \/ \E k \in Calls, l \in Lists : SendRequest(k, l)
       \/ \E k \in Calls : CallStep(k)
       \/ \E r \in Req : AttemptStep(r)
       \/ \E r \in Req, a \in Answers : ResponseEvent(r, a)
       \/ \E m \in replying : DeliverReply(m)
       \/ \E late \in SUBSET idRequest \ {{}} : CleanRequests(late)
       \/ StopCleaning
       \/ EnvStep

Spec == Init /\ [][Next]_vars

(* The Go scheduler runs every goroutine that can go on, and the ticker    *)
(* keeps firing, so an entry that stays registered becomes too old and is  *)
(* removed: that the age test misses none is taken for granted here.       *)
(* Nothing is assumed of clients, callers or connections.                  *)
Fairness ==
    /\ \A k \in Calls : WF_vars(~crashed /\ CallStep(k))
    /\ \A r \in Req : WF_vars(~crashed /\ AttemptStep(r))
    /\ WF_vars(~crashed /\ \E m \in replying : DeliverReply(m))
    /\ \A r \in Req : WF_vars(/\ ~crashed
                              /\ \E late \in SUBSET idRequest : r \in late /\ CleanRequests(late))

FairSpec == Spec /\ Fairness

----------------------------------------------------------------------------
(* Properties.                                                             *)

Pcs == {"idle", "first", "select", "returned"}
Places == {"none", "new", "check", "send", "wait", "done", "offer", "exit"}

RegistryOK ==
    /\ idRequest \subseteq Req /\ replying \subseteq [req : Req, ans : Answers]
    /\ result \in [Req -> Replies \cup {"none"}] /\ settled \in [Req -> Replies \cup {"none"}]
    /\ cleaning \in BOOLEAN
StreamsOK ==
    /\ ctxDone \subseteq Channels /\ closed \subseteq Channels
    /\ outBound \in [Channels -> SUBSET Req] /\ taken \subseteq Req
CallersOK ==
    /\ list \in [Calls -> Lists \cup {<<>>}] /\ pc \in [Calls -> Pcs]
    /\ canceled \subseteq Calls /\ outcome \in [Calls -> Outcomes \cup {"none"}]
    /\ errRespCount \in [Calls -> Nat] /\ respOnce \in [Calls -> 0..MaxLen]
AttemptsOK ==
    /\ at \in [Req -> Places]
    /\ got \in [Req -> Replies \cup Failures \cup {"allFailed", "none"}]

\* Every variable has its type.
TypeOK == RegistryOK /\ StreamsOK /\ CallersOK /\ AttemptsOK /\ crashed \in BOOLEAN

\* A reply on its way between ResponseEvent's unlock and its send always finds
\* the Result channel empty, however it races with the ticker: the default
\* branches of both non-blocking sends never lose a response.
NoReplyDropped ==
    \A m \in replying : result[m.req] = "none" /\ m.req \notin idRequest

\* Why: a request's reply is a token that exists once, in the map, in a handler,
\* in the Result buffer or with the attempt, and settled remembers what it is.
ReplyToken ==
    /\ \A r \in Req : at[r] \in {"none", "new"} => r \notin idRequest /\ settled[r] = "none"
    /\ \A r \in idRequest : settled[r] = "none"
    /\ \A m \in replying :
        settled[m.req] = m.ans /\ result[m.req] = "none" /\ got[m.req] \notin Replies
    /\ \A r \in Req : result[r] # "none" => settled[r] = result[r] /\ got[r] \notin Replies
    /\ \A r \in Req : got[r] \in Replies => settled[r] = got[r]

\* Answer, duplicate answer and timeout of one request race: whichever removes
\* the entry settles it, and nothing that comes later changes what was settled.
SettledOnce == [][\A r \in Req : settled[r] # "none" => settled'[r] = settled[r]]_vars

\* A reply a call returns is the one that settled one of its own requests,
\* never one of another call, and never one put together from two.
ReplyIsOwn ==
    \A k \in Calls : outcome[k] \in Replies =>
        \E i \in 1..Len(list[k]) : got[<<k, i>>] = outcome[k] /\ settled[<<k, i>>] = outcome[k]

\* Why: a call makes no request ahead of its turn, has no outcome before it
\* returns, and the attempt whose reply it returned is over for good.
ShapeOf(k) ==
    /\ pc[k] = "idle" => \A i \in 1..MaxLen : at[<<k, i>>] = "none"
    /\ pc[k] = "first" => list[k] # <<>> /\ \A i \in 2..MaxLen : at[<<k, i>>] = "none"
    /\ pc[k] # "returned" => outcome[k] = "none"
    /\ outcome[k] \in Replies =>
        \E i \in 1..Len(list[k]) : at[<<k, i>>] = "exit" /\ got[<<k, i>>] = outcome[k]
CallShape == \A k \in Calls : ShapeOf(k)

\* Why: a refused call makes no attempt, the first attempt is made by the call
\* itself, and an attempt that is over has something to show for it.
AttemptShape ==
    /\ \A r \in Req : at[r] # "none" => outcome[r[1]] # "noChannel"
    /\ \A r \in Req : r[2] = 1 /\ at[r] \notin {"none", "exit"} => pc[r[1]] = "first"
    /\ \A r \in Req : at[r] \in {"done", "offer"} => got[r] # "none"

\* A request goes to the other channels only after the first channel's stream
\* has ended: a slow client, a timeout or an error answer never makes a second
\* client do the work.
RetryOnlyWhenFirstIsGone ==
    \A r \in Req : r[2] > 1 /\ at[r] # "none" => ChanOf(<<r[1], 1>>) \in ctxDone

\* The collective failure is reported only when every attempt of the call is
\* over and none of them was answered: errRespCount never runs ahead.
AllFailedMeansAll ==
    \A r \in Req : got[r] = "allFailed" =>
        \A q \in Others(r[1]) \ {r} : at[q] = "exit" /\ got[q] \in Failures

\* At most one goroutine of a call ever sends on respCh, and one that finds
\* nobody receiving belongs to a call that gave up by its context.
OneOffer ==
    \A k \in Calls :
        /\ Cardinality({r \in Others(k) : at[r] = "offer"}) <= 1
        /\ (\E r \in Others(k) : at[r] = "offer") /\ pc[k] = "returned" => outcome[k] = "canceled"

\* The broker implements the write-once registers of RequestReply: whatever the
\* interleaving of attempts, answers, ticks and endings of streams, a request is
\* settled once and a call returns once, with a reply of its own or an error.
slotOf == [r \in Req |-> IF at[r] \in {"none", "new"} THEN "unsent"
                         ELSE IF settled[r] = "none" THEN "open" ELSE settled[r]]
statusOf == [k \in Calls |-> CASE pc[k] = "idle" -> "idle"
                                [] pc[k] = "returned" -> outcome[k]
                                [] OTHER -> "pending"]
Promise == INSTANCE RequestReply WITH
    slot <- slotOf, status <- statusOf, Errors <- Failures \cup {"allFailed", "panic"}
KeepsPromise == Promise!Spec

\* Attempt r waits for room in a full OutBound, where neither its Result channel
\* nor a context is selected.
Jammed(r) ==
    at[r] = "send" /\ ChanOf(r) \notin closed /\ Cardinality(outBound[ChanOf(r)]) = QueueSize

\* Every call of SendRequest returns, as long as the ticker runs, unless one of
\* its attempts is jammed for ever: a caller's timeout does not help it there.
EveryCallReturns ==
    \A k \in Calls : pc[k] # "idle" ~>
        pc[k] = "returned" \/ ~cleaning \/ crashed \/ [](\E i \in 1..MaxLen : Jammed(<<k, i>>))

\* A goroutine of the fan-out ends unless it is jammed, or its call gave up by
\* its context: then nobody receives on respCh, and it may wait there, or in
\* respOnce.Do, or for lk, for ever (base_event.go:88: "avoid goroutine leak").
FanOutEnds ==
    \A r \in Req : r[2] > 1 /\ at[r] # "none" ~>
        \/ at[r] = "exit" \/ outcome[r[1]] = "canceled" \/ ~cleaning \/ crashed
        \/ [](\E q \in Others(r[1]) : Jammed(q))

\* base_event.go:123, "this may be panic, but will catch by recover and try
\* other": a panic of the send is neither the end of the call nor of the process.
PanicTriesOthers == ~crashed /\ \A k \in Calls : outcome[k] # "panic"
=============================================================================
