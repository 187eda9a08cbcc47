---------------------------- MODULE MarketCalls ----------------------------
(***************************************************************************)
(* The market stream and the request broker it embeds, composed: calls of  *)
(* SectorsUnsealPiece look their miner's channels up in MarketStream and   *)
(* hand them to BaseEvent, whose channels are the stream's connections.    *)
(* The two meet in the outs (announcements and requests share one queue),  *)
(* in the contexts of the connections, and in the closing of out, which    *)
(* the stream does under the broker's senders.                             *)
(*                                                                         *)
(* The gateway runs: the ticker of the broker is not stopped.              *)
(***************************************************************************)
EXTENDS MarketStream, Sequences

\* Finitely many connections: a list of them has a bound, as BaseEvent asks.
ASSUME ConnsAssumption == IsFiniteSet(Conns) /\ Conns # {}
ASSUME RequestAssumption == Announcement \notin Requests \X (1..Cardinality(Conns))

VARIABLES
    asked,        \* history: asked[q] is the miner SectorsUnsealPiece q names
    idRequest, result, replying, cleaning, settled, taken,
    list, cpc, canceled, errRespCount, respOnce, outcome, at, got

\* getChannels ranges over a Go map: the order of the list is arbitrary.
Orderings(S) ==
    {l \in [1..Cardinality(S) -> S] : \A i, j \in DOMAIN l : l[i] = l[j] => i = j}

Broker == INSTANCE BaseEvent WITH
    Calls <- Requests, Channels <- Conns, Closable <- Conns,
    Lists <- UNION {Orderings(S) : S \in SUBSET Conns}, MaxLen <- Cardinality(Conns),
    pc <- cpc, ctxDone <- done, closed <- {x \in Conns : pc[x] = "closed"}, outBound <- out

broker == <<idRequest, result, replying, cleaning, settled, taken,
            list, cpc, canceled, errRespCount, respOnce, outcome, at, got>>
stream == <<minerConnections, channels, conns, done, senders, listing>>
cvars == <<vars, broker, asked>>

CallsInit == Init /\ Broker!Init /\ asked = [q \in Requests |-> None]

----------------------------------------------------------------------------
(* The steps of the stream.                                                *)

\* The call names its miner: getChannels looks it up.
SectorsUnsealPiece(q, m) ==
    /\ LookupMiner(q, m)
    /\ asked' = [asked EXCEPT ![q] = m]

\* Of what out holds the client takes an announcement here; requests: Broker!Take.
TakeAnnouncement(x) ==
    /\ ForwardToClient(x)
    /\ out[x] \ out'[x] = {Announcement}

StreamStep ==
    /\ \/ \E q \in Requests, m \in Miners : SectorsUnsealPiece(q, m)
       \/ /\ \/ \E x \in Conns, m \in Miners : ListenMarketEvent(x, m)
             \/ \E x \in Conns : ConnStep(x) \/ EndConnection(x) \/ TakeAnnouncement(x)
             \/ \E q \in Requests : ListChannels(q)
             \/ BeginList \/ EndList
          /\ UNCHANGED asked
    /\ UNCHANGED broker

----------------------------------------------------------------------------
(* The steps of the broker.                                                *)

\* getChannels has returned, in some order, the channels it listed.
SendRequest(q) ==
    /\ qpc[q] = "send"
    /\ \E l \in Orderings(targets[q]) : Broker!SendRequest(q, l)

BrokerStep ==
    /\ UNCHANGED <<stream, asked>>
    /\ \/ \E q \in Requests : SendRequest(q) \/ Broker!CallStep(q) \/ Broker!Cancel(q)
       \/ \E r \in Broker!Req : Broker!AttemptStep(r)
       \/ \E r \in Broker!Req, a \in Broker!Answers : Broker!ResponseEvent(r, a)
       \/ \E m \in replying : Broker!DeliverReply(m)
       \/ \E late \in SUBSET idRequest \ {{}} : Broker!CleanRequests(late)
       \/ \E x \in Conns, r \in Broker!Req : Broker!Take(x, r)

CallsNext == ~crashed /\ (StreamStep \/ BrokerStep)

CallsSpec == CallsInit /\ [][CallsNext]_cvars

----------------------------------------------------------------------------
(* Properties.                                                             *)

\* A client is handed only work for the miner it registered for: from the lookup,
\* through the list, both attempts and the queue, no call strays to a connection
\* of another miner, whatever comes and goes meanwhile.
WorkGoesToMiner ==
    /\ \A r \in taken : miner[Broker!ChanOf(r)] = asked[r[1]]
    /\ \A x \in Conns : \A r \in out[x] \ {Announcement} :
         Broker!ChanOf(r) = x /\ miner[x] = asked[r[1]]

\* A call fails for its channels only when every connection the lookup found has
\* ended, or its caller has given up: one that stays is tried.
FailureMeansGone ==
    \A q \in Requests : outcome[q] \in {"closed", "allFailed"} =>
        q \in canceled \/ targets[q] \subseteq done

\* Two ended connections that were given one store: the later registered before the
\* removal of the earlier had deleted it, for a store that was deleted never comes back.
Overlapped == \E x, y \in done : x # y /\ store[x] # None /\ store[x] = store[y]

\* The process ends by itself only in a write of the map under its iteration (an
\* iteration alone does not end it), or when two registrations of one miner overlapped
\* and both connections have ended: a client that reconnects only once its former
\* connection has been taken out puts it at risk neither by the send on a closed out
\* nor by a nil store. That the former connection has ended is not enough.
CrashNeedsOverlap ==
    [][~crashed /\ crashed' =>
        Overlapped \/ (listing /\ minerConnections' # minerConnections)]_cvars

\* The panic of a send in a goroutine of the fan-out has ended the process: an
\* attempt left without anything to show.
PanicEnded == \E r \in Broker!Req : r[2] > 1 /\ at[r] = "exit" /\ got[r] = "none"

\* The stream is an environment the broker can live with: seen through the requests
\* alone, every step of the two is a step of BaseEvent, which therefore keeps here
\* what it promises there.
View == INSTANCE BaseEvent WITH
    Calls <- Requests, Channels <- Conns, Closable <- Conns,
    Lists <- UNION {Orderings(S) : S \in SUBSET Conns}, MaxLen <- Cardinality(Conns),
    pc <- cpc, ctxDone <- done, closed <- {x \in Conns : pc[x] = "closed"},
    outBound <- [x \in Conns |-> out[x] \ {Announcement}], crashed <- PanicEnded
KeepsBroker == View!Spec

\* And the other way round: seen through the announcements alone, every step of the
\* two is a step of MarketStream, one where no call gets round to sending.
StreamView == INSTANCE MarketStream WITH
    out <- [x \in Conns |-> out[x] \cap {Announcement}], crashed <- crashed /\ ~PanicEnded
KeepsStream == StreamView!Spec
=============================================================================
