---------------------------- MODULE MarketStream ----------------------------
(***************************************************************************)
(* The connections of market clients: marketevent/market_event.go and its  *)
(* channelStore.  Unlike the proof stream there is one queue per           *)
(* connection, out, which is also the OutBound of its ChannelInfo and is   *)
(* closed under its senders; removal is one lock section; and the list of  *)
(* all connections is read without the lock.                               *)
(*                                                                         *)
(* A channelStore is named by the connection that created it.  What        *)
(* SendRequest does with a channel is reduced to its send on OutBound      *)
(* (on a closed OutBound it panics: see BaseEvent).                        *)
(***************************************************************************)
EXTENDS Naturals, FiniteSets

CONSTANTS
    Conns,        \* connections (one call of ListenMarketEvent each)
    Miners,       \* miner addresses that pass Validate
    Requests,     \* calls of SectorsUnsealPiece
    QueueSize,    \* cfg.RequestQueueSize
    Announcement, \* the InitConnect event
    None          \* no store, no miner

ASSUME QueueAssumption == QueueSize \in Nat \ {0}
ASSUME NoneAssumption == None \notin Conns \cup Miners
ASSUME AnnouncementAssumption == Announcement \notin Requests

VARIABLES
    minerConnections, \* minerConnections[m]: the store of miner m, or None
    channels,         \* channels[s]: the connections store s holds
    pc,               \* pc[x]: where connection x's call and goroutine are
    miner,            \* miner[x]: policy.Miner
    store,            \* store[x]: the channelStore ListenMarketEvent looked up
    done,             \* connections whose context is done
    out,              \* out[x]: the events buffered in out
    qpc,              \* qpc[q]: where SectorsUnsealPiece q is
    qstore,           \* qstore[q]: the store getChannels looked up
    targets,          \* targets[q]: the listed channels q has not been sent to
    listing,          \* is ListMarketConnectionsState iterating the map
    crashed           \* has a panic or a fatal error ended the process

conns == <<pc, miner, store>>
senders == <<qpc, qstore, targets>>
vars == <<minerConnections, channels, conns, done, out, senders, listing, crashed>>

Init ==
    /\ minerConnections = [m \in Miners |-> None]
    /\ channels = [s \in Conns |-> {}]
    /\ pc = [x \in Conns |-> "idle"]
    /\ miner = [x \in Conns |-> None] /\ store = [x \in Conns |-> None]
    /\ done = {} /\ out = [x \in Conns |-> {}]
    /\ qpc = [q \in Requests |-> "idle"] /\ qstore = [q \in Requests |-> None]
    /\ targets = [q \in Requests |-> {}]
    /\ listing = FALSE /\ crashed = FALSE

Goto(x, p) == pc' = [pc EXCEPT ![x] = p]

\* A write of the map; the runtime may notice one under an iteration, and then
\* ends the process ("concurrent map iteration and map write").
WriteMap(m, s) ==
    /\ minerConnections' = [minerConnections EXCEPT ![m] = s]
    /\ crashed' \in {crashed, listing}

----------------------------------------------------------------------------
(* ListenMarketEvent and its goroutine.                                    *)

\* Under connLk: the miner's store is looked up, or a new one is put in the map.
ListenMarketEvent(x, m) ==
    /\ pc[x] = "idle" /\ Goto(x, "add")
    /\ miner' = [miner EXCEPT ![x] = m]
    /\ \/ /\ minerConnections[m] # None
          /\ store' = [store EXCEPT ![x] = minerConnections[m]]
          /\ UNCHANGED <<minerConnections, crashed>>
       \/ /\ minerConnections[m] = None
          /\ store' = [store EXCEPT ![x] = x]
          /\ WriteMap(m, x)
    /\ UNCHANGED <<channels, done, out, senders, listing>>

\* addChanel, outside connLk.
AddChanel(x) ==
    /\ pc[x] = "add" /\ Goto(x, "init")
    /\ channels' = [channels EXCEPT ![store[x]] = @ \cup {x}]
    /\ UNCHANGED <<minerConnections, miner, store, done, out, senders, listing, crashed>>

Put(x, e) ==
    /\ Cardinality(out[x]) < QueueSize
    /\ out' = [out EXCEPT ![x] = @ \cup {e}]

InitConnect(x) ==
    /\ pc[x] = "init" /\ Goto(x, "wait")
    /\ Put(x, Announcement)
    /\ UNCHANGED <<minerConnections, channels, miner, store, done, senders, listing, crashed>>

\* Mutants of Ended, Without and Empty: the goroutine does not wait for the end;
\* nothing is removed, or everything; an empty store stays in the map.
EndedOrNot(x) == TRUE

WithoutNothing(s, x) == channels[s]

WithoutAny(s, x) == {}

NeverEmpty(cs) == FALSE

Ended(x) == x \in done

Without(s, x) == channels[s] \ {x}

Empty(cs) == cs = {}

\* Once the context is done, and in one section of connLk: the miner's store is
\* looked up (a nil store is dereferenced: the process ends), the channel removed
\* from it, and the store deleted when that was its last.
RemoveChanel(x) ==
    LET s == minerConnections[miner[x]] IN
    /\ pc[x] = "wait" /\ Ended(x)
    /\ \/ /\ s = None /\ crashed' = TRUE
          /\ UNCHANGED <<pc, minerConnections, channels>>
       \/ /\ s # None /\ Goto(x, "close")
          /\ channels' = [channels EXCEPT ![s] = Without(s, x)]
          /\ \/ Empty(channels'[s]) /\ WriteMap(miner[x], None)
             \/ ~Empty(channels'[s]) /\ UNCHANGED <<minerConnections, crashed>>
    /\ UNCHANGED <<miner, store, done, out, senders, listing>>

\* close(out), after the unlock: both are deferred.
CloseOut(x) ==
    /\ pc[x] = "close" /\ Goto(x, "closed")
    /\ UNCHANGED <<minerConnections, channels, miner, store, done, out, senders, listing, crashed>>

----------------------------------------------------------------------------
(* SectorsUnsealPiece: getChannels in its two steps, then the sends.       *)

\* Mutant of StoreOf: a miner without connections gets those of another.
StoreOfAny(m) ==
    IF minerConnections[m] # None THEN minerConnections[m]
    ELSE CHOOSE s \in {minerConnections[n] : n \in Miners} : s # None \/ \A n \in Miners : minerConnections[n] = s

StoreOf(m) == minerConnections[m]

LookupMiner(q, m) ==
    /\ qpc[q] = "idle"
    /\ qstore' = [qstore EXCEPT ![q] = StoreOf(m)]
    /\ qpc' = [qpc EXCEPT ![q] = IF qstore'[q] = None THEN "refused" ELSE "found"]
    /\ UNCHANGED <<minerConnections, channels, conns, done, out, targets, listing, crashed>>

ListChannels(q) ==
    /\ qpc[q] = "found"
    /\ targets' = [targets EXCEPT ![q] = channels[qstore[q]]]
    /\ qpc' = [qpc EXCEPT ![q] = IF channels[qstore[q]] = {} THEN "refused" ELSE "send"]
    /\ UNCHANGED <<minerConnections, channels, conns, done, out, qstore, listing, crashed>>

Send(q, x) ==
    /\ qpc[q] = "send" /\ x \in targets[q] /\ pc[x] # "closed"
    /\ Put(x, q)
    /\ targets' = [targets EXCEPT ![q] = @ \ {x}]
    /\ UNCHANGED <<minerConnections, channels, conns, done, qpc, qstore, listing, crashed>>

\* The send finds out closed: the panic ends the call, or, in a goroutine of the
\* fan-out, the process.
SendPanics(q, x) ==
    /\ qpc[q] = "send" /\ x \in targets[q] /\ pc[x] = "closed"
    /\ qpc' = [qpc EXCEPT ![q] = "refused"]
    /\ crashed' \in BOOLEAN
    /\ UNCHANGED <<minerConnections, channels, conns, done, out, qstore, targets, listing>>

----------------------------------------------------------------------------
(* ListMarketConnectionsState: an iteration of the map, without connLk.    *)

BeginList ==
    /\ ~listing /\ listing' = TRUE
    /\ UNCHANGED <<minerConnections, channels, conns, done, out, senders, crashed>>

EndList ==
    /\ listing /\ listing' = FALSE
    /\ UNCHANGED <<minerConnections, channels, conns, done, out, senders, crashed>>

----------------------------------------------------------------------------
(* The RPC server: it forwards out to the client, and ends the context.    *)

ForwardToClient(x) ==
    /\ out[x] # {}
    /\ \E e \in out[x] : out' = [out EXCEPT ![x] = @ \ {e}]
    /\ UNCHANGED <<minerConnections, channels, conns, done, senders, listing, crashed>>

EndConnection(x) ==
    /\ x \notin done /\ done' = done \cup {x}
    /\ UNCHANGED <<minerConnections, channels, conns, out, senders, listing, crashed>>

----------------------------------------------------------------------------
\* Mutant of ConnStep: the goroutine ends when it has sent InitConnect.
ConnStepUnwaiting(x) == AddChanel(x) \/ InitConnect(x)

ConnStep(x) == AddChanel(x) \/ InitConnect(x) \/ RemoveChanel(x) \/ CloseOut(x)

SenderStep(q) ==
    \/ \E m \in Miners : LookupMiner(q, m)
    \/ ListChannels(q)
    \/ \E x \in Conns : Send(q, x) \/ SendPanics(q, x)

Next ==
    /\ ~crashed
    /\ \/ \E x \in Conns, m \in Miners : ListenMarketEvent(x, m)
       \/ \E x \in Conns : ConnStep(x) \/ ForwardToClient(x) \/ EndConnection(x)
       \/ \E q \in Requests : SenderStep(q)
       \/ BeginList \/ EndList

Spec == Init /\ [][Next]_vars

(* The scheduler runs a connection's goroutine while it can go on.         *)
FairSpec == Spec /\ \A x \in Conns : WF_vars(~crashed /\ ConnStep(x))

----------------------------------------------------------------------------
(* Properties.                                                             *)

TypeOK ==
    /\ minerConnections \in [Miners -> Conns \cup {None}]
    /\ channels \in [Conns -> SUBSET Conns]
    /\ pc \in [Conns -> {"idle", "add", "init", "wait", "close", "closed"}]
    /\ miner \in [Conns -> Miners \cup {None}] /\ store \in [Conns -> Conns \cup {None}]
    /\ done \subseteq Conns /\ out \in [Conns -> SUBSET (Requests \cup {Announcement})]
    /\ qpc \in [Requests -> {"idle", "found", "send", "refused"}]
    /\ qstore \in [Requests -> Conns \cup {None}] /\ targets \in [Requests -> SUBSET Conns]
    /\ listing \in BOOLEAN /\ crashed \in BOOLEAN

Listed(m) == IF minerConnections[m] = None THEN {} ELSE channels[minerConnections[m]]

\* Although additions happen outside the lock, a lookup of a miner never yields a
\* connection of another miner, nor one that has been taken out.
OnlyOwnAndLive ==
    \A m \in Miners : \A x \in Listed(m) : miner[x] = m /\ pc[x] \notin {"close", "closed"}

\* A miner in the map without any connection is about to get one: removal never
\* leaves an empty store behind.
NoEmptyMiner ==
    \A m \in Miners : minerConnections[m] # None /\ Listed(m) = {} =>
        \E x \in Conns : pc[x] = "add" /\ store[x] = minerConnections[m]

\* The goroutine waits for room in out, whose client does not read it, before it
\* has looked at its context.
Jammed(x) == pc[x] = "init" /\ Cardinality(out[x]) = QueueSize

\* A connection that has ended is taken out and its out is closed, unless its
\* goroutine is jammed or the process ends first.
EndIsNoticed ==
    \A x \in Conns : (x \in done /\ pc[x] # "idle") ~> (pc[x] = "closed" \/ crashed \/ []Jammed(x))

\* The stream implements Registry: a connection, once found under its miner, is
\* found until it has ended, and never again, whatever other connections of the
\* miner come and go while it is added outside connLk.
Directory == INSTANCE Registry WITH
    listed <- [m \in Miners |-> Listed(m)],
    met <- {x \in Conns : pc[x] \notin {"idle", "add"}},
    ended <- done
KeepsRegistry == Directory!Spec
=============================================================================
