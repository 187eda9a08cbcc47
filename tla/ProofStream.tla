---------------------------- MODULE ProofStream ----------------------------
(***************************************************************************)
(* The connections of proof clients: proofevent/proof_event.go and its     *)
(* channelStore.  ListenProofEvent registers a connection in the store of  *)
(* its miner and leaves a goroutine behind that announces the connection   *)
(* (InitConnect), relays requests from reqEventChan to out, and, once the  *)
(* connection's context is done, takes it out of the store and closes out. *)
(*                                                                         *)
(* A channelStore is named by the connection that created it: the pointer  *)
(* a goroutine holds may not be the one minerConnections holds any more.   *)
(* SendRequest is reduced to its sends on the channels getChannels listed. *)
(***************************************************************************)
EXTENDS Naturals, Sequences, FiniteSets

CONSTANTS
    Conns,        \* connections (one call of ListenProofEvent each)
    Miners,       \* miner addresses that pass Validate
    Requests,     \* calls of ComputeProof
    QueueSize,    \* cfg.RequestQueueSize
    None          \* no store, no miner

ASSUME QueueAssumption == QueueSize \in Nat \ {0}
ASSUME NoneAssumption == None \notin Conns \cup Miners

VARIABLES
    minerConnections, \* minerConnections[m]: the store of miner m, or None
    channels,         \* channels[s]: the connections store s holds
    pc,               \* pc[x]: where connection x's call and goroutine are
    miner,            \* miner[x]: policy.MinerAddress
    store,            \* store[x]: the channelStore x's code last looked up
    done,             \* connections whose context is done
    reqEventChan,     \* reqEventChan[x]: OutBound of x's ChannelInfo
    hold,             \* hold[x]: what the relay has received and not sent on
    out,              \* out[x]: the channel the RPC server forwards
    qpc,              \* qpc[q]: where ComputeProof q is
    qstore,           \* qstore[q]: the store getChannels looked up
    targets,          \* targets[q]: the listed channels q has not been sent to
    crashed,          \* has a panic ended the process
    pushed,           \* history: pushed[x]: all that was put on reqEventChan[x]
    received          \* history: received[x]: all the client took from out[x]

conns == <<pc, miner, store>>
queues == <<reqEventChan, hold, out, pushed, received>>
senders == <<qpc, qstore, targets>>
vars == <<minerConnections, channels, conns, done, queues, senders, crashed>>

Init ==
    /\ minerConnections = [m \in Miners |-> None]
    /\ channels = [s \in Conns |-> {}]
    /\ pc = [x \in Conns |-> "idle"]
    /\ miner = [x \in Conns |-> None] /\ store = [x \in Conns |-> None]
    /\ done = {} /\ crashed = FALSE
    /\ reqEventChan = [x \in Conns |-> <<>>] /\ hold = [x \in Conns |-> <<>>]
    /\ out = [x \in Conns |-> <<>>]
    /\ pushed = [x \in Conns |-> <<>>] /\ received = [x \in Conns |-> <<>>]
    /\ qpc = [q \in Requests |-> "idle"] /\ qstore = [q \in Requests |-> None]
    /\ targets = [q \in Requests |-> {}]

Goto(x, p) == pc' = [pc EXCEPT ![x] = p]

----------------------------------------------------------------------------
(* ListenProofEvent and its goroutine.                                     *)

\* Under connLk: the miner's store is looked up, or a new one is put in the map.
ListenProofEvent(x, m) ==
    /\ pc[x] = "idle" /\ Goto(x, "add")
    /\ miner' = [miner EXCEPT ![x] = m]
    /\ \/ /\ minerConnections[m] # None
          /\ store' = [store EXCEPT ![x] = minerConnections[m]]
          /\ UNCHANGED minerConnections
       \/ /\ minerConnections[m] = None
          /\ store' = [store EXCEPT ![x] = x]
          /\ minerConnections' = [minerConnections EXCEPT ![m] = x]
    /\ UNCHANGED <<channels, done, queues, senders, crashed>>

\* addChanel, outside connLk.
AddChanel(x) ==
    /\ pc[x] = "add" /\ Goto(x, "init")
    /\ channels' = [channels EXCEPT ![store[x]] = @ \cup {x}]
    /\ UNCHANGED <<minerConnections, miner, store, done, queues, senders, crashed>>

\* Is there room in the queue (the mutant is one short).
RoomShort(x) == Len(reqEventChan[x]) < QueueSize - 1
Room(x) == Len(reqEventChan[x]) < QueueSize

Put(x, e) ==
    /\ Room(x)
    /\ reqEventChan' = [reqEventChan EXCEPT ![x] = Append(@, e)]
    /\ pushed' = [pushed EXCEPT ![x] = Append(@, e)]
    /\ UNCHANGED <<hold, out, received>>

\* The goroutine's first send, to a channel only itself will read.
InitConnect(x) ==
    /\ pc[x] = "init" /\ Goto(x, "loop")
    /\ Put(x, "InitConnect")
    /\ UNCHANGED <<minerConnections, channels, miner, store, done, senders, crashed>>

\* The loop's select: a request to relay ...
ReceiveRequest(x) ==
    /\ pc[x] = "loop" /\ reqEventChan[x] # <<>> /\ Goto(x, "relay")
    /\ hold' = [hold EXCEPT ![x] = <<Head(reqEventChan[x])>>]
    /\ reqEventChan' = [reqEventChan EXCEPT ![x] = Tail(@)]
    /\ UNCHANGED <<minerConnections, channels, miner, store, done, out, pushed, received,
                   senders, crashed>>

\* What is relayed (in the mutant not once the context is done).
RelayedLive(x) == IF x \in done THEN <<>> ELSE hold[x]
Relayed(x) == hold[x]

RelayRequest(x) ==
    /\ pc[x] = "relay" /\ Len(out[x]) < QueueSize /\ Goto(x, "loop")
    /\ out' = [out EXCEPT ![x] = @ \o Relayed(x)]
    /\ hold' = [hold EXCEPT ![x] = <<>>]
    /\ UNCHANGED <<minerConnections, channels, miner, store, done, reqEventChan, pushed, received,
                   senders, crashed>>

\* ... or the end of the context: removeChannel reads the miner's store under
\* connLk,
LookupStore(x) ==
    /\ pc[x] = "loop" /\ x \in done /\ Goto(x, "remove")
    /\ store' = [store EXCEPT ![x] = minerConnections[miner[x]]]
    /\ UNCHANGED <<minerConnections, channels, miner, done, queues, senders, crashed>>

\* What a store keeps without a channel (in the mutants the channel, too, or
\* nothing at all).
WithoutNothing(s, x) == channels[s]

WithoutAny(s, x) == {}

Without(s, x) == channels[s] \ {x}

\* removes the channel from it (a nil store is dereferenced: the process ends),
RemoveChanel(x) ==
    /\ pc[x] = "remove"
    /\ \/ /\ store[x] # None /\ Goto(x, "empty")
          /\ channels' = [channels EXCEPT ![store[x]] = Without(store[x], x)]
          /\ UNCHANGED crashed
       \/ /\ store[x] = None /\ crashed' = TRUE
          /\ UNCHANGED <<pc, channels>>
    /\ UNCHANGED <<minerConnections, miner, store, done, queues, senders>>

\* The mutants of the following: an empty store is not noticed; after removal the
\* loop goes on, as a break that leaves its select only would make it.
NeverEmpty(s) == FALSE
Empty(s) == channels[s] = {}

Continued == "loop"
Removed == "close"

\* asks whether it is empty,
CheckEmpty(x) ==
    /\ pc[x] = "empty"
    /\ Goto(x, IF Empty(store[x]) THEN "delete" ELSE Removed)
    /\ UNCHANGED <<minerConnections, channels, miner, store, done, queues, senders, crashed>>

\* and deletes whatever store the miner has by then.
DeleteStore(x) ==
    /\ pc[x] = "delete" /\ Goto(x, Removed)
    /\ minerConnections' = [minerConnections EXCEPT ![miner[x]] = None]
    /\ UNCHANGED <<channels, miner, store, done, queues, senders, crashed>>

CloseOut(x) ==
    /\ pc[x] = "close" /\ Goto(x, "closed")
    /\ UNCHANGED <<minerConnections, channels, miner, store, done, queues, senders, crashed>>

----------------------------------------------------------------------------
(* ComputeProof: getChannels in its two steps, then the sends.             *)

LookupMiner(q, m) ==
    /\ qpc[q] = "idle"
    /\ qstore' = [qstore EXCEPT ![q] = minerConnections[m]]
    /\ qpc' = [qpc EXCEPT ![q] = IF minerConnections[m] = None THEN "refused" ELSE "found"]
    /\ UNCHANGED <<minerConnections, channels, conns, done, queues, targets, crashed>>

ListChannels(q) ==
    /\ qpc[q] = "found"
    /\ targets' = [targets EXCEPT ![q] = channels[qstore[q]]]
    /\ qpc' = [qpc EXCEPT ![q] = IF channels[qstore[q]] = {} THEN "refused" ELSE "send"]
    /\ UNCHANGED <<minerConnections, channels, conns, done, queues, qstore, crashed>>

Send(q, x) ==
    /\ qpc[q] = "send" /\ x \in targets[q]
    /\ Put(x, q)
    /\ targets' = [targets EXCEPT ![q] = @ \ {x}]
    /\ UNCHANGED <<minerConnections, channels, conns, done, qpc, qstore, crashed>>

----------------------------------------------------------------------------
(* The RPC server: it forwards out to the client, and ends the context.    *)

ForwardToClient(x) ==
    /\ out[x] # <<>>
    /\ received' = [received EXCEPT ![x] = Append(@, Head(out[x]))]
    /\ out' = [out EXCEPT ![x] = Tail(@)]
    /\ UNCHANGED <<minerConnections, channels, conns, done, reqEventChan, hold, pushed,
                   senders, crashed>>

EndConnection(x) ==
    /\ x \notin done /\ done' = done \cup {x}
    /\ UNCHANGED <<minerConnections, channels, conns, queues, senders, crashed>>

----------------------------------------------------------------------------
ConnStep(x) ==
    \/ AddChanel(x) \/ InitConnect(x) \/ ReceiveRequest(x) \/ RelayRequest(x)
    \/ LookupStore(x) \/ RemoveChanel(x) \/ CheckEmpty(x) \/ DeleteStore(x) \/ CloseOut(x)

SenderStep(q) ==
    \/ \E m \in Miners : LookupMiner(q, m)
    \/ ListChannels(q)
    \/ \E x \in Conns : Send(q, x)

Next ==
    /\ ~crashed
    /\ \/ \E x \in Conns, m \in Miners : ListenProofEvent(x, m)
       \/ \E x \in Conns : ConnStep(x) \/ ForwardToClient(x) \/ EndConnection(x)
       \/ \E q \in Requests : SenderStep(q)

Spec == Init /\ [][Next]_vars

(* The scheduler runs a connection's goroutine while it can go on.  Nothing *)
(* is assumed of clients: one may stop reading, or never disconnect.        *)
FairSpec == Spec /\ \A x \in Conns : WF_vars(~crashed /\ ConnStep(x))

----------------------------------------------------------------------------
(* Properties.                                                             *)

Events == Requests \cup {"InitConnect"}

TypeOK ==
    /\ minerConnections \in [Miners -> Conns \cup {None}]
    /\ channels \in [Conns -> SUBSET Conns]
    /\ pc \in [Conns -> {"idle", "add", "init", "loop", "relay", "remove", "empty", "delete",
                         "close", "closed"}]
    /\ miner \in [Conns -> Miners \cup {None}] /\ store \in [Conns -> Conns \cup {None}]
    /\ done \subseteq Conns /\ crashed \in BOOLEAN
    /\ reqEventChan \in [Conns -> Seq(Events)] /\ hold \in [Conns -> Seq(Events)]
    /\ out \in [Conns -> Seq(Events)]
    /\ pushed \in [Conns -> Seq(Events)] /\ received \in [Conns -> Seq(Events)]
    /\ qpc \in [Requests -> {"idle", "found", "send", "refused"}]
    /\ qstore \in [Requests -> Conns \cup {None}] /\ targets \in [Requests -> SUBSET Conns]

Listed(m) == IF minerConnections[m] = None THEN {} ELSE channels[minerConnections[m]]

\* Stores come and go while connections of several miners are added, removed and
\* looked up in separate lock sections, yet a lookup never yields a connection of
\* another miner, nor one whose goroutine is over.
OnlyOwnAndLive ==
    \A m \in Miners : \A x \in Listed(m) : miner[x] = m /\ pc[x] \notin {"empty", "delete", "close", "closed"}

\* A miner listed by ListConnectedMiners without any connection is in transit: a
\* connection is about to be added to that store, or about to delete it.
NoEmptyMiner ==
    \A m \in Miners : minerConnections[m] # None /\ Listed(m) = {} =>
        \E x \in Conns :
            \/ pc[x] = "add" /\ store[x] = minerConnections[m]
            \/ pc[x] \in {"empty", "delete"} /\ miner[x] = m

\* Between SendRequest and the client no event is lost, repeated or overtaken,
\* across the two buffers and the relay between them.
InOrder ==
    \A x \in Conns : pushed[x] = received[x] \o out[x] \o hold[x] \o reqEventChan[x]

\* The goroutine waits for room: in the queue that only itself reads, or in an
\* out its client does not read, and selects no context there.
Jammed(x) ==
    \/ pc[x] = "init" /\ Len(reqEventChan[x]) = QueueSize
    \/ pc[x] = "relay" /\ Len(out[x]) = QueueSize

\* Every connection is announced to its client, unless requests fill its queue
\* before the goroutine's own InitConnect does.
ConnectIsAnnounced ==
    \A x \in Conns : pc[x] = "init" ~> (pc[x] # "init" \/ crashed \/ []Jammed(x))

\* A connection that has ended is taken out and its out is closed, unless its
\* goroutine is jammed or (see RemoveChanel) the process ends.
EndIsNoticed ==
    \A x \in Conns : (x \in done /\ pc[x] # "idle") ~> (pc[x] = "closed" \/ crashed \/ []Jammed(x))

\* A connection that lasts is missing from the lookups of its miner only because
\* another connection of that miner has ended.
LossHasReason ==
    \A x \in Conns : pc[x] \in {"init", "loop", "relay"} /\ x \notin done /\ x \notin Listed(miner[x]) =>
        \E y \in done : miner[y] = miner[x]

\* The stream implements LossyRegistry: whatever the lock sections of its removals
\* meet, an end takes out others of the same miner only, once, and for good.
Directory == INSTANCE LossyRegistry WITH
    listed <- [m \in Miners |-> Listed(m)],
    home <- [x \in Conns |-> IF pc[x] \in {"idle", "add"} THEN None ELSE miner[x]],
    ended <- done,
    cleared <- {x \in Conns : pc[x] \in {"close", "closed"}}
KeepsRegistry == Directory!Spec

\* proof_event_test.go:48-51: once a connection is announced, and while it lasts,
\* getChannels of its miner lists it.
AnnouncedIsListed ==
    \A x \in Conns : pc[x] \in {"loop", "relay"} /\ x \notin done => x \in Listed(miner[x])
=============================================================================
