# sophon-gateway: a TLA+ verification project

sophon-gateway is the liaison between the components of a Filecoin storage
service and the wallets, provers and markets behind them.  Wallets, miners
(proof clients) and markets connect to the gateway over a websocket JSON-RPC
API and keep a connection open on which the gateway *sends them requests*; the
other components call the gateway, which forwards the call to a suitable
connection, waits for the answer and returns it.  It also proxies other
services' APIs.

Everything hard about it is concurrency: requests, answers, timeouts and ends
of connections meet in a few maps and channels, from goroutines that nobody
waits for.

## 1. Inventory

| part | source | state | operations |
|---|---|---|---|
| Request broker | `types/base_event.go` | `idRequest` (pending requests by id, under `reqLk`), one `Result` channel (capacity 1) per request | `SendRequest`, `sendOnce`, `ResponseEvent`, `cleanRequests` (ticker) |
| Proof stream | `proofevent/` | `minerConnections` (under `connLk`), a `channelStore` per miner (its own lock), two queues and a relay goroutine per connection | `ListenProofEvent`, `ComputeProof`, lists |
| Market stream | `marketevent/` | `minerConnections`, a `channelStore` per miner, one queue per connection | `ListenMarketEvent`, `SectorsUnsealPiece`, lists |
| Wallet stream | `walletevent/wallet_event.go` | the embedded broker, a random challenge | `ListenWalletEvent`, `AddNewAddress`, `SupportNewAccount`, `RemoveAddress`, `WalletSign`, `WalletHas`, lists |
| Wallet connections | `walletevent/wallet_conn_mgr.go` | `walletInfos` (under `infoLk`): per wallet its accounts and connections, per connection its addresses | add, remove, look up |
| Event clients | `walletevent/wallet_client.go`, `proofevent/proof_client.go`, `marketevent/market_client.go` | channel id, `readyCh` | a loop that listens, reconnects and answers |
| Proxy | `proxy/` | the handler map (no lock); per websocket two connections and a `signal` channel | register, route, forward |
| Daemon | `main.go` | where the start-up is, the watcher of signals, the server | `RunMain`: set up, register, open, serve, shut down |
| Validator | `validator/` | none | asks the auth service for the owner of a miner |
| RPC surface, metrics, commands, configuration | `api/`, `metrics/`, `cmds/`, `config/` | none of their own | wiring |

How they interact.  Each of the three streams embeds a broker of its own.  A
stream registers the `ChannelInfo` of a connection (its context and `OutBound`
queue); the broker puts requests on `OutBound`, go-jsonrpc forwards them to the
client, the client answers with a call of `ResponseEvent`.  The wallet stream
also uses the broker to verify a wallet while it registers it.  Every request to
the process first passes the proxy's middleware, which looks up who is to serve it.

What makes each part correct, and hard:

* **Broker.** A request is settled once, whatever the race between answer,
  duplicate answer, timeout and retreat of the caller; a caller gets a reply to
  its own request; every call returns; a retry on other channels happens only
  when the first channel is lost; when several attempts fail the failure is
  reported once, by the last.
* **Proof and market stream.** A lookup yields live connections of the right
  miner; no miner is listed without a connection; nothing is lost between the
  two queues of the proof stream; an ended connection is cleaned up.  Hard,
  because a store is looked up, filled, emptied and deleted under two locks.
* **Wallet stream and connections.** Only addresses whose key the client has
  proved to hold are routed to it; a signing request goes to a wallet that
  granted the account; an entry lives as long as its connections.  Hard, because
  each operation is several lock sections with requests to the client between.
* **Proxy.** Messages are forwarded in order; when one side ends the other is
  closed.  Hard, because two goroutines share a channel of capacity one.
* **Clients.** After a reconnection the right channel id is used; the loop never
  blocks on `readyCh`.
* **Daemon.** A request finds its service however early it comes; a signal ends
  the process whenever it comes.  Hard, because the doors open one by one and the
  map of handlers is not guarded.

PROJECT.json lists each hazard at its line with the properties aimed at it.

## 2. The modules

| module | models | checked by |
|---|---|---|
| `BaseEvent` | the broker | `be_shared`, `be_fanout`, `be_panic` |
| `RequestReply` | what the broker promises (abstract) | `be_shared` (refinement) |
| `ProofStream` | the proof stream | `proof_stream`, `proof_orphan` |
| `MarketStream` | the market stream | `market_stream` |
| `Registry` | what a stream promises those who look up a miner (abstract) | `market_stream` (refinement) |
| `LossyRegistry` | what the proof stream promises of the same (abstract) | `proof_stream` and tlapm (refinement) |
| `MarketCalls` | the market stream and its broker, composed | `market_calls` |
| `WalletStream` | the wallet stream and its connection manager | `wallet_calls`, `wallet_ends` |
| `EventClient` | the listen loops of the clients, and a wallet's updates | `event_client` |
| `Proxy` | a proxied websocket session | `proxy_session` |
| `Daemon` | `RunMain` and the proxy's map of handlers | `daemon` |
| `MC...` | the instances TLC explores | |
| `BaseEventProofs`, `ProofStreamProofs`, `MarketStreamProofs`, `MarketCallsProofs`, `WalletStreamProofs`, `EventClientProofs`, `ProxyProofs`, `DaemonProofs` | theorems about the module each is named after | tlapm |

An operator introduced as the mutant of another is a plausible mistake in the code
behind it; nothing uses it.  With the mistake in place of the definition the
property named in PROJECT.json fails.

### BaseEvent

`Calls` are calls of `SendRequest`; each is given a list of channels, and request
`<<k, i>>` is the attempt of call `k` on position `i` of its list (it stands for
the UUID).  `pc[k]` is where the call is, `at[r]` where the attempt is (`new`,
`check`, `send`, `wait`: the four places of `sendOnce` where something else can
happen; `done`; `offer`: sending on `respCh`; `exit`).  One action per
atomic piece of the code:

| action | code |
|---|---|
| `SendRequest`, `FirstReturns`, `FanOut`, `ReceiveReply`, `SelectCtxDone` | `SendRequest` and its final `select` |
| `Register`, `PassCheck`, `GiveUp`, `Enqueue`, `SendPanics`, `AcceptReply` | `sendOnce`: the section of `reqLk`, the non-blocking check of the contexts, the send, the final `select` |
| `CountFailure`, `EnterOnce`, `LeaveOnce` | the goroutine of the fan-out: `errRespCount` under `lk`, `respOnce` |
| `ResponseEvent`, `DeliverReply` | removal under `reqLk`, then the non-blocking send on `Result` |
| `CleanRequests`, `StopCleaning` | a tick; the end of the broker's context |
| `Cancel`, `Take`, `Disconnect`, `CloseOutBound` | callers, clients, streams |

Abstractions: payloads are "payload" or "error" (a payload that does not
unmarshal is an error to the caller); time is a choice of which entries a tick
finds too old; an `OutBound` is a set, as the broker tells no order; an answer to
an unknown id is refused and changes nothing, so it is not an action.
`isTimeoutError` never holds of an error of `sendOnce` (a timeout arrives as a
response), so it is no branch.  A panic in the calling goroutine is recovered by
go-jsonrpc; in a goroutine of the fan-out it ends the process (`crashed`).
`settled` is a history variable.

### RequestReply

Write-once registers: opened, answered or timed out once; a call returns once,
with the content of one of its own registers or an error.  `BaseEvent`
implements it under the mapping `slotOf` (a register is "unsent" until the
attempt registers, "open" until `settled`) and `statusOf`.

### ProofStream

A `channelStore` is named by the connection that created it, since the pointer a
goroutine holds may not be the one in the map any more.  The two phases of
registration and the four of removal are separate actions, as they are separate
lock sections: `ListenProofEvent`, `AddChanel`; `LookupStore`, `RemoveChanel`,
`CheckEmpty`, `DeleteStore`.  `InitConnect`, `ReceiveRequest` and `RelayRequest`
are the sends and receives of the relay goroutine; `LookupMiner`, `ListChannels`
and `Send` those of `ComputeProof`, whose `SendRequest` is reduced to its sends
on the channels found (when and why it sends is `BaseEvent`'s business).

### MarketStream

As above with one queue, removal in one lock section, `close(out)` under the
senders, and the iteration of `ListMarketConnectionsState`, which holds no lock:
a write of the map during it may end the process (`WriteMap`).  The comment at
market_event.go:102 asks that "connection read and remove should in one lock"; the
removal keeps to it and the list does not.

### Registry

Per miner a set of connections.  A connection is entered once, under one miner, or
missed (the store it was to be added to has been deleted meanwhile); it leaves only
after it has ended, and does not come back.  `MarketStream` implements it with
`listed` being what `getChannels` would find.  `ProofStream` does not: its deletion
of a store, three lock sections after the look at it, takes out connections that
live (`proof_orphan` shows one of them).

### LossyRegistry

What is left of `Registry` for the proof stream: a connection that has ended and has
left itself (`Leave`) may then, once (`Clear`), take out all others of its miner,
and they do not come back.  `home` remembers under which miner a connection had its
chance, `cleared` who has used its own.  `LossHasReason`, in `ProofStream`, says the
same from the point of view of the one that is lost.

### MarketCalls

`SectorsUnsealPiece` as it is: the lookups of `MarketStream`, whose result, in any
order, is the list of channels that a whole `BaseEvent` works on.  The two modules
share the queues (announcements and requests in one), the ends of contexts, and
the closing of `out`, which in `BaseEvent` alone is an action of the environment.
The stream's own reduced sends are no steps here.  `KeepsBroker` closes the circle:
seen through the requests, every step of the composition is a step of `BaseEvent`,
so what is proved of the broker alone holds in the gateway.  `KeepsStream` is the other
half: seen through the announcements, every step is a step of `MarketStream`.  There
is one `crashed` for both; which of them a panic belongs to is read off the attempts
(`PanicEnded`).  The connections are assumed finite, as a list of them needs a
bound (`ConnsAssumption`), and an announcement to be no request.

### WalletStream

Each operation of `walletConnMgr` is one action (it is one section of `infoLk`);
between them the goroutine of a connection, or a call of `AddNewAddress` or
`SupportNewAccount`, asks the client.  A `SendRequest` on one channel is one step
with an answer or an error, and no step while the queue is full: that is what
the broker was checked to promise.  A valid signature stands for the client
having the key (`holds`).  Registration with the auth service, a loop of external
calls whose failures are logged, is one step that reaches any subset of the
accounts.  Refused calls change nothing and are no actions; `WalletHas` and the
lists only read.

### EventClient

One loop for the three clients; `kind` says whether requests are served in
goroutines ("wallet") or in the loop itself ("miner": proof and market clients do
not differ in control).  A connection is numbered by the successful call of
`Listen...Event` that opened it, and its number stands for the channel's id.

| action | code |
|---|---|
| `ListenOnce`, `ListenFails`, `EndRange`, `Restart`, `Stop` | `listen...RequestOnce` and the loop around it, with the clearing of `readyCh` |
| `ReceiveInitConnect`, `AssignChannel`, `SendReady`, `WaitReady` | the `InitConnect` case, and those who wait for it |
| `ReceiveRequest`, `Respond`, `ReceiveWalletList`, `WalletList` | the other cases and their handlers |
| `Change`, `ReadChannel` | `SupportAccount`, `AddNewAddress`, `RemoveAddress` at the client |
| `SupportNewAccount`, `GetConn`, `AddNewAddress`, `WalletDetail`, `RemoveAddress` | what the gateway does for them |
| `VerifyAddress`, `GiveUp`, `AddNewConn`, `InitConnect`, `RemoveConn`, `SendRequest` | the gateway's goroutine of a connection |
| `EndStream` | the end of the connection, as the client sees it |

A wallet tells the gateway its data twice over, when it connects and when they
change; the module follows one account, one key and one change, which is enough
to ask whether a change gets lost between the two.  `e.channel` is written by the
loop and read by callers without a lock: while it is being written `ReadChannel`
yields the old id, the new one, or one that names no connection.  The gateway's
side repeats the steps of `WalletStream` that touch these data.  Sends on the
gateway's queues do not block here; that they may is `WalletStream`'s subject.

### Proxy

A session has two forwarders, each named by the end it reads from; the handler is
the one that reads from the client.  The actions are the statements of
`forwardMessages` (`Select`, `ReadMessage`, `ReadFails`, `WriteMessage`,
`WriteFails`, `SendSignal`) and of the handler (`Dial`, `Upgrade`, `CloseBoth`, its
deferred closes).  The ends send, leave, stop reading (`Stall`) and read again
(`Resume`).  Messages are numbered per end: the type and content of a message are
passed on as they are.

### Daemon

`RunMain` from its first line to its return, as the order of what others can
notice: `Setup` (everything that can fail before), `SkipOrFail`, `BeginRegister` and
`EndRegister` (the registrations, with any configuration), `OpenDoor`
(`httptest.NewServer`, which is never closed: requests can come through it before
the listener is open), `Notify`, `Listen`, `ServeReturns` and `ServeFails`, and
`Shutdown` by the watcher.  `Serve` returns as soon as `Shutdown` has been called,
before or since, without waiting for it; the process then ends even if requests are
being served.  Requests take the steps of `ProxyMiddleware` (`Accept`, `Route`),
are answered (`Handle`, `AnswerForwarded`) or write the map (`RegisterReverse`,
`ReturnRegistered`).  As nothing guards the map, a write has a beginning and an end,
and any access in between may end the process.

## 3. The runs

Passing runs (bounds in brackets):

* `be_shared` [2 calls, lists `<<>>`, `<<c1>>`, `<<c1, c1>>`, queue of 1, closable
  channel, symmetry in the calls]: `NoReplyDropped`, `ReplyIsOwn`, and `KeepsPromise`,
  the refinement.  Two calls on one channel is the smallest case in which replies
  could be mixed up or block each other, and the empty list is the refused call.
* `be_fanout` [1 call, list of 3 on 2 channels, queues of 1, no channel closable,
  ticker not stopped]: `RetryOnlyWhenFirstIsGone`, `AllFailedMeansAll`, `OneOffer`,
  `EveryCallReturns`, `FanOutEnds`.  Two attempts in the fan-out
  are the fewest whose failures and successes can interleave.  The exceptions of the
  liveness properties are part of the statements: an attempt may be jammed at a full
  queue (the code selects nothing else there), and a caller that gives up may leave
  goroutines behind.  Closing under the senders is in `market_calls`.
* `proof_stream` [2 connections, 2 miners, 1 request, queues of 1]: `OnlyOwnAndLive`,
  `NoEmptyMiner`, `InOrder`, `EndIsNoticed`, `ConnectIsAnnounced`, and `KeepsRegistry`,
  the refinement of `LossyRegistry`: a connection may miss its entry, and one that ended
  may take others of its own miner with it, but only once and for good.
  Two connections of one miner meet in every phase of registration and removal;
  with a queue of 1 one request is enough to fill it before `InitConnect`.
* `market_stream` [the same bounds, and the list call]: `OnlyOwnAndLive`,
  `NoEmptyMiner`, `EndIsNoticed`, and `KeepsRegistry`, the refinement.  With three
  connections the instance has 827,000 states and the same result; it is not a
  run as the safety properties are theorems for any number of them.
* `market_calls` [2 connections, 2 miners, 1 call, queues of 1, symmetry]:
  `WorkGoesToMiner`, `FailureMeansGone`, `CrashNeedsOverlap`, and `KeepsBroker`.  One call
  that found two connections of a miner has a first attempt and a fan-out, each of
  which may meet the end of its connection and the closing of its queue.
  `CrashNeedsOverlap` is about steps: the one that ends the process is a write of the
  map while `ListMarketConnectionsState` iterates it (the list alone ends nothing), or
  it comes after the end of two connections that shared a store.  Reconnecting after
  the former connection has ended does not prevent that: its goroutine may not have
  taken it out yet, and the new connection then gets the store that is about to be
  deleted.  Only one that registers after the removal is safe.
* `wallet_calls` [2 connections of one wallet, 2 accounts, 1 address, 1 call, 1
  `WalletSign`, symmetry]: `OnlyVerified`, `SignIsEntitled`, `SuccessMeansAdded`,
  `SupportSurvives`.
* `wallet_ends` [2 connections, 2 wallets, one queue that fills and drains]:
  `EntriesAreLive`, `EndIsNoticed`.  A second wallet shows that the end of one
  wallet's connection leaves the other's entry alone.
* `event_client` [2 connections, 1 request, 1 waiter; wallet or miner, with or
  without the key at the start]: `ReadyIsFresh`, `UpdateReaches`, `LoopGoesOn`,
  `RequestsAreServed`.  Two connections are one reconnection, which is where a stale
  id, an unread token or a change that falls between the connections can do harm.
* `proxy_session` [2 messages each way]: `InOrder`, `StuckIsLast`, `MessagesArrive`,
  `SessionEnds`.  With two messages one can overtake, or be lost behind, another
  while the second is held by the forwarder.
* `daemon` [2 configurable services (the auth service and one that may be absent), 1
  address, 2 requests]: `NoEarlyRefusal`, `RaceNeedsRegister`, `SignalEndsIt`,
  `RequestsEnd`.  Two requests are the fewest that can meet in the map; the
  registrations of further services repeat those of the second.

The type invariants are not among the runs' properties: they are theorems
(`TypeCorrect` of each proof module).

Calls of `SendRequest`, connections and requests are finite, so the system stops
when they are used up: `CHECK_DEADLOCK FALSE` everywhere.

Violations, each a disagreement of the code with something the repository says:

* `be_panic`: base_event.go:123 says that a panic of the send "will catch by recover
  and try other".  There is no recover; a stream that closes `OutBound` between
  the check and the send ends the call, or, in the fan-out, the process.
* `proof_orphan`: the tests look a connection up once it has been announced.  A
  connection added to a store that is just being deleted is announced and never
  found, and its removal dereferences nil.

## 4. Fairness

Weak fairness of every goroutine's steps: the Go scheduler runs what can run.
The ticker keeps firing while it is not stopped, so an entry that stays in
`idRequest` is found too old (weak fairness of a tick that removes it).  This is assumed,
not shown: the age test of base_event.go:146 is a free choice in the model, and no
property says that the ticker misses no entry.  In
`WalletStream`, strong fairness of the goroutines: a queue may fill and drain for
ever, and Go serves the senders blocked on a channel in turn.  In `EventClient`
only the loop is fair: handlers, the gateway and the network owe nothing.  In
`Proxy`, strong fairness of the forwarders, as a write goes on whenever its end
reads again, and weak fairness of the handler's return.  In `Daemon`, weak fairness
of `RunMain`, of the watcher and of each request the gateway handles itself; signals
come or not, and a service behind the proxy may never answer.  `market_calls` checks
safety only.  Nothing is assumed of
clients, callers, or the network: they may stop reading, answering, or
disconnecting at any time.  Hence the exceptions called `Jammed`, `Stuck` and `Handling`
in the liveness properties.

## 5. The proofs

**The broker.**  `BaseEventProofs` proves for all calls, channels, lists and queue sizes:
`TypeCorrect`, `ReplyTokenHolds`, `NothingIsDropped`, `RepliesAreOwn`,
`SettledForGood` and `BrokerKeepsPromise` (the refinement).  `ReplyToken` and
`SettledOnce` are what `KeepsPromise` rests on, and are stated only there.  The
assumptions are the module's: lists are sequences of channels of bounded length, the
queue size is a positive number.

The argument.  Call the right to deliver a reply of request `r` a token.  It is
created with the entry in `idRequest`, taken out of the map by whoever deletes the
entry under `reqLk` (`ResponseEvent`, or a tick), sits in the handler between its
unlock and its send (`replying`) or goes straight to the `Result` buffer, and ends
in `got`.  `ReplyToken` says that it is in one place at a time and that `settled`
remembers its value.  So the buffer is always empty when a reply arrives, which
is why the `default` branches of the two non-blocking sends are dead code, and why
nobody can overwrite an answer with a timeout.  `ReplyToken` is inductive only
with what places are possible: `CallShape` (which attempts exist in which state of
the call) and `AttemptShape` (which results an attempt can have).  The
inductive invariant is `IInv == TypeOK /\ CallShape /\ AttemptShape /\ ReplyToken`;
each was checked by TLC first.  The refinement follows from it step by step: each
action maps to one action of `RequestReply` or to a stutter.

**The fan-out** (`BaseEventProofs`, too: `RetryHasReason`, `AllFailedIsTrue`, `OffersOnce`,
`FailureHasReason`).  For lists of any length, on top of the broker's invariant.  `Counted` is the set of
positions whose failure has been counted, and `errRespCount` is its cardinality; so
the count reaches the number of goroutines only when all have failed
(`CountedFinite`), and then there is nobody left with a reply.  `respOnce` names the
one position that may offer a reply (`Offered`); with one of them counted as answered
the count stays below.  `Received` adds what a call that returned leaves behind, so
nobody offers again.  `FailureHasReason` looks through the collective error, which hides
the attempts' own: a call that failed for its channels has a list of which all have
ended, or was given up.  Its invariant `Spent` says so of the last failure of a fan-out
as well, whose own error has been overwritten by then.

**The proof stream** (`ProofStreamProofs`: `TypeCorrect`, `LookupIsOwnAndLive`,
`EmptyStoresPass`, `EventsInOrder`).  A removal holds a pointer to a store that
somebody else may meanwhile have emptied, deleted or replaced.  The invariant
`Placed` says what such pointers are good for: every store anyone holds was
created for the holder's miner (`MapOwn`, `StoreOwn`, `HeldOwn`); a connection on
its way out leaves the very store of the map that lists it (`LeavesListed`); and
an empty store in the map has somebody who will fill or delete it
(`EmptyIsCared`, of which `NoEmptyMiner` is what a reader sees).  `LeavesListed` is
the crux: without it a removal could empty another store than the one that lists
the connection, which is then found for ever.  The order of events is separate
(`OrderInv`): the relay holds an event only between its receive and its send.

The code loses connections (`proof_orphan`), and two theorems say how far that goes.
`StreamKeepsRegistry`: the stream implements `LossyRegistry`, so an end takes out
connections of its own miner only, once, and for good.  The same lemmas as for the
market stream, one per action, carry it; a removal from a store that is no longer in
the map is a stutter (`StorePlace`), and the deletion is a `Clear` because a
connection on its way out has ended (`DoneLeaves`) and has left the store
that is listed (`GoneIsUnlisted`).  `LossIsExplained`: a connection that is announced
and lasts is missing only if another one of its miner has ended, so what
proof_event_test.go expects is true of a miner none of whose connections has ended.
Its invariant `LastsUnlessEnded` follows a connection from the lookup of its store
on.  TLC agreed on both with three connections before they were proved.

**The market stream** (`MarketStreamProofs`: `TypeCorrect`, `LookupIsOwnAndLive`,
`StoresAreNotEmpty`, `StreamKeepsRegistry`).  The same argument is shorter as removal is one lock
section: `LeftIsUnlisted` takes the place of `LeavesListed`, and `NoEmptyMiner` is
inductive with it.  The refinement uses the same invariant: an addition enters the
connection if the store is still its miner's and misses it otherwise
(`AddRegisters`), and a removal empties no other store than the one it deletes
(`RemoveRegisters`).

**The composition** (`MarketCallsProofs`: `WorkIsForMiner`, `FailureIsGone`,
`CrashHasReason`, `CallsKeepBroker`, `CallsKeepStream`, and what these carry over:
`CallsKeepPromise`, `CallsKeepLookup`, `CallsKeepRegistry`).  The proofs of the two
components are instantiated, `B` seen through the requests and `M` through the
announcements.  Every step of the composition is a step or a stutter of each
(`BrokerSeen`, `StreamSeenByBroker`; `StreamSeen`, `EnvSeen`), so the inductive
invariants of both hold of the mapped variables, and `CallsInv` only adds what ties
them together:

* `RouteOK`: a call's list is an ordering of the channels its lookup found (`ListedOf`),
  which are connections of the miner it asked for (`AskedOf`, `AimedOf`).
* `QueuesOK`: the shared queues hold announcements only after `InitConnect`, and
  requests only for the connection whose queue it is.
* `StoresOK`: a connection has one store from its registration on and is added to no
  other, so all channels of one list share theirs (the last conjunct of `AimedOf`).
* `StoreLasts`: a connection that has not been taken out has the store its miner has in
  the map, unless two connections shared a store and the other one has ended (`Two`);
  so it takes two to remove a connection from a nil store.
* `EndedFirst`: `out` is closed after the context is done, so a send that panics has
  met an end; it is a send of the fan-out, which starts when the first channel has
  ended as well: two connections in one store (`PanicNeedsOverlap`).

`CrashNeedsOverlap` is an action property: each step from a state of the invariant has
it (`PanicNeedsOverlap`, `StreamCrash`).  One more conjunct is needed for the
refinements:

* `PanicSeen`: the panic that `PanicEnded` reads off the attempts has ended the process.

`WorkIsForMiner` then follows from `RouteOK` and `QueuesOK`, and `FailureIsGone` from
the broker's `Spent` as an ordering of a set reaches all of it
(`OrderingIsOnto`).  The two refinements make every theorem of the components one of
the composition; three are stated.

**The wallet stream** (`WalletStreamProofs`: `TypeCorrect`, `AddressesAreVerified`,
`EntriesLive`, `SignersAreEntitled`, `SuccessIsAdded`, `AccountsSurvive`).
`Verification` follows the addresses a goroutine or call has ticked off
(`Verified`: the client behind its connection holds their keys) until they are
added; `HoldsLate` is needed because a call may name a connection only after it
began.  `Entries` ties the phases of connections to the entries; its
`SupportGranted` with `TargetsBegun` gives `SignIsEntitled`.  `AccountsSurvive` is
an action property, proved from the same invariant.

**The clients** (`EventClientProofs`: `TypeCorrect`, `ReadinessIsFresh`, `UpdatesReach`).  Clearing `readyCh` before each call is not the whole reason
why the loop never blocks on it: within one connection a second announcement
would.  `AnnouncedOnce` says there is none, and `ToldOnce` that it is no longer in
the stream once the loop tells of it.  So there is never a token when one is sent
(`NoTokenYet`), and the token tells of the connection the loop is on (`Stored`).
`UpdatesReach` is about the gateway's side of a change: `UpdateInv` says that the data of a
connection that knew or was reached by the change (`Knows`, `Reached`) show it from its
registration on (`Reflected`), since nothing but the one update (`Unapplied`) alters
a registered connection's data.

**The proxy** (`ProxyProofs`: `TypeCorrect`, `MessagesInOrder`,
`StuckForwarderIsLast`).  A token in `signal` was left by a forwarder that has
ended (`TokenIsLeft`); there are two, so whoever finds it there is the last, and
an end has gone (`EndsForReason`).  `InOrder` is inductive with
`HeldWhileWriting`, by arithmetic on concatenations (`PrefixCounts`).

**The daemon** (`DaemonProofs`: `TypeCorrect`, `RefusalHasReason`, `StartupIsAlone`), for
any services, configuration and requests.  Until the door opens there is no request
(`Quiet`), so the registrations are alone in the map and each of them stays
(`Registered`); after it `RunMain` writes no more (`WriterShape`, `Pending`).

The assumptions are those of the modules: sizes are numbers, `None` is none of the
values it stands apart from, names of different kinds differ.

The composition adds that the connections are finite.

Only model-checked: the liveness properties (temporal reasoning under fairness and
ENABLED are out of the prover's reach): `EveryCallReturns`, `FanOutEnds`,
`EndIsNoticed`, `ConnectIsAnnounced`, `LoopGoesOn`,
`RequestsAreServed`, `MessagesArrive`, `SessionEnds`, `SignalEndsIt` and `RequestsEnd`.
The composition inherits safety only: that the stream's and the broker's fairness
meet in it is not claimed.  Every invariant and every refinement the passing runs
check has a theorem.

## 6. Not modelled, and why

* Validator: one stateless query; it appears as the sets of miners or accounts.
* RPC surface: delegation.  Each method is modelled where it leads.
* Metrics: the loop reads the streams' lists on a timer and changes nothing.  Its one
  racing read, `ListMarketConnectionsState`, is in `MarketStream` and `MarketCalls`.
* Commands and configuration: command-line and file I/O, one API call each.
* Proxy: plain HTTP, which `net/http/httputil` forwards; `parseAddr`, of which only
  whether it fails matters.
* Daemon: what the steps of the set-up do; each fails or does not.
* `WalletHas` and the lists of the streams, which only read.
* `unregisterSignerAddress` is never called; `json.Marshal` of the gateway's own
  structures does not fail, so that branch is left out; nor does a client's
  `json.Unmarshal` of the gateway's `InitConnect` (wallet_client.go:119-122).
* go-jsonrpc, the auth service and the Go runtime appear as external actions.

## 7. Plan

Done: every component that keeps state has a module, its runs, and a proof module;
the market stream is composed with its broker; the broker, both streams and their
composition are shown to implement an abstract specification; every safety property
of the passing runs is a theorem.  Next, in this order:

1. What the liveness properties rest on, as theorems: that a goroutine which is
   neither jammed nor done has a step.
2. An abstract specification of the wallet's entries (who may be asked to sign for
   whom) that `WalletStream` implements.
3. `WalletStream` composed with the broker in place of one-step requests, if the
   state space allows.
