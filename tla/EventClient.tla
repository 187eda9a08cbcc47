----------------------------- MODULE EventClient -----------------------------
(***************************************************************************)
(* A client of the gateway: walletevent/wallet_client.go,                  *)
(* proofevent/proof_client.go, marketevent/market_client.go.  A loop       *)
(* listens on one connection after the other; readyCh tells that the       *)
(* gateway has announced the connection (InitConnect).  The wallet's       *)
(* client serves each request in a goroutine, the other two (a "miner",    *)
(* here: they do not differ in control) in the loop itself.                *)
(*                                                                         *)
(* A wallet tells the gateway which accounts it supports and which keys it *)
(* has twice over: with each connection (the policy, WalletList), and, when*)
(* they change, by a call.  The module follows one account, one key and    *)
(* one such call, across reconnections, with the gateway's registration of *)
(* the connections (wallet_event.go, as in WalletStream).                  *)
(***************************************************************************)
EXTENDS Integers, Sequences

CONSTANTS
    MaxConns,     \* bound: successful calls of Listen...Event
    Requests,     \* requests the gateway sends
    Waiters       \* callers of WaitReady

ASSUME ConnsAssumption == MaxConns \in Nat
ASSUME NamesAssumption == Requests \cap {"WalletList", "InitConnect"} = {}

Conns == 1..MaxConns
NoId == 0         \* the zero UUID, or one that names no connection

VARIABLES
    kind,         \* which client: "wallet" or "miner"
    pc,           \* where its loop is
    conn,         \* the connection it last opened
    readyCh,      \* tokens in readyCh, whose capacity is 1
    channel,      \* WalletEventClient.channel
    waiting,      \* the Waiters that have not returned
    stream,       \* stream[c]: the events not yet received from connection c
    ended,        \* the connections whose stream is closed at the client
    listing,      \* those for which a walletList goroutine runs
    job,          \* job[r]: request r at the client; "over": answered, failed or lost
    supports,     \* does getSupportAccounts list the account
    hasKey,       \* does the wallet have the key
    gpc,          \* gpc[c]: the gateway's goroutine of connection c
    policy,       \* policy[c]: was the account in the policy
    listed,       \* listed[c]: was the key's address in the WalletList
    routed,       \* routed[c]: is the address among those of c
    support,      \* is the account among those of the wallet's entry
    op, upc, id,  \* the update, where it is, and the channel it names
    reached,      \* history: the connections the update was applied to
    knew          \* history: those told of the change when they were opened

loop == <<kind, pc, conn, readyCh, channel>>
work == <<stream, ended, listing, job>>
own == <<supports, hasKey>>
gateway == <<gpc, policy, listed, routed, support>>
update == <<op, upc, id, reached>>
vars == <<loop, waiting, work, own, gateway, update, knew>>

Init ==
    /\ kind \in {"wallet", "miner"} /\ pc = "call" /\ conn = NoId
    /\ readyCh = 0 /\ channel = NoId /\ waiting = Waiters
    /\ stream = [c \in Conns |-> <<>>] /\ ended = {} /\ listing = {}
    /\ job = [r \in Requests |-> "none"]
    /\ supports = FALSE /\ hasKey \in BOOLEAN
    /\ gpc = [c \in Conns |-> "none"]
    /\ policy = [c \in Conns |-> FALSE] /\ listed = [c \in Conns |-> FALSE]
    /\ routed = [c \in Conns |-> FALSE] /\ support = FALSE
    /\ op = "none" /\ upc = "idle" /\ id = NoId /\ reached = {} /\ knew = {}

\* The connections the gateway has in minerConnections or walletInfos.
Registered == {c \in Conns : gpc[c] \in {"announce", "live"}}

----------------------------------------------------------------------------
(* The loop of Listen...Request.                                           *)

\* Does the policy list the account: asked anew each time, and not (the mutant) once.
OldPolicy == IF conn = NoId THEN supports ELSE policy[conn]
Policy == supports

\* A call of Listen...Event that succeeds: a wallet is asked for its addresses, a
\* miner is registered at once.
ListenOnce(c) ==
    /\ pc = "call" /\ c \in Conns /\ c = conn + 1
    /\ pc' = "range" /\ conn' = c
    /\ policy' = [policy EXCEPT ![c] = Policy]
    /\ \/ /\ kind = "wallet" /\ gpc' = [gpc EXCEPT ![c] = "list"]
          /\ stream' = [stream EXCEPT ![c] = <<"WalletList">>]
       \/ /\ kind = "miner" /\ gpc' = [gpc EXCEPT ![c] = "announce"]
          /\ UNCHANGED stream
    /\ knew' = IF op = "SupportAccount" THEN knew \cup {c} ELSE knew
    /\ UNCHANGED <<kind, readyCh, channel, waiting, ended, listing, job, own, listed,
                   routed, support, update>>

ListenFails ==
    /\ pc = "call" /\ pc' = "pause"
    /\ UNCHANGED <<kind, conn, readyCh, channel, waiting, work, own, gateway, update, knew>>

\* Receives the next event.
ReceiveEvent(e) ==
    /\ pc = "range" /\ stream[conn] # <<>> /\ e = Head(stream[conn])
    /\ stream' = [stream EXCEPT ![conn] = Tail(@)]

\* A wallet stores the channel's id, without a lock, before it tells of it (not in
\* the mutant); then readyCh is sent to.
TellOnly == "ready"
OnInitConnect == IF kind = "wallet" THEN "assign" ELSE "ready"

ReceiveInitConnect ==
    /\ ReceiveEvent("InitConnect") /\ pc' = OnInitConnect
    /\ UNCHANGED <<kind, conn, readyCh, channel, waiting, ended, listing, job, own, gateway,
                   update, knew>>

AssignChannel ==
    /\ pc = "assign" /\ pc' = "ready" /\ channel' = conn
    /\ UNCHANGED <<kind, conn, readyCh, waiting, work, own, gateway, update, knew>>

SendReady ==
    /\ pc = "ready" /\ readyCh = 0 /\ readyCh' = 1 /\ pc' = "range"
    /\ UNCHANGED <<kind, conn, channel, waiting, work, own, gateway, update, knew>>

ReceiveWalletList ==
    /\ ReceiveEvent("WalletList") /\ listing' = listing \cup {conn}
    /\ UNCHANGED <<loop, waiting, ended, job, own, gateway, update, knew>>

\* A request is served whenever it comes, and not (the mutant) after InitConnect only.
StartedIfReady(r) == IF channel = conn THEN "running" ELSE job[r]
Started(r) == "running"

ReceiveRequest(r) ==
    /\ ReceiveEvent(r) /\ job' = [job EXCEPT ![r] = Started(r)]
    /\ pc' = IF kind = "wallet" THEN "range" ELSE "handle"
    /\ UNCHANGED <<kind, conn, readyCh, channel, waiting, ended, listing, own, gateway,
                   update, knew>>

\* The stream is closed and drained: listenOnce returns, and cancels its context.
EndRange ==
    /\ pc = "range" /\ conn \in ended /\ stream[conn] = <<>> /\ pc' = "pause"
    /\ UNCHANGED <<kind, conn, readyCh, channel, waiting, work, own, gateway, update, knew>>

\* After a second, whatever was not waited for is cleared (not in the mutant).
Uncleared == readyCh
Cleared == 0

Restart ==
    /\ pc = "pause" /\ pc' = "call" /\ readyCh' = Cleared
    /\ UNCHANGED <<kind, conn, channel, waiting, work, own, gateway, update, knew>>

\* Or the context is done.
Stop ==
    /\ pc = "pause" /\ pc' = "stopped"
    /\ UNCHANGED <<kind, conn, readyCh, channel, waiting, work, own, gateway, update, knew>>

\* WaitReady: a waiter takes the token, or its context is done.
WaitReady(w) ==
    /\ w \in waiting /\ waiting' = waiting \ {w}
    /\ \/ readyCh = 1 /\ readyCh' = 0
       \/ UNCHANGED readyCh
    /\ UNCHANGED <<kind, pc, conn, channel, work, own, gateway, update, knew>>

----------------------------------------------------------------------------
(* The handlers: an answer or an error, which reaches the gateway or not.  *)

Respond(r) ==
    /\ job[r] = "running"
    /\ job' = [job EXCEPT ![r] = "over"]
    /\ pc' = IF kind = "wallet" THEN pc ELSE "range"
    /\ UNCHANGED <<kind, conn, readyCh, channel, waiting, stream, ended, listing, own,
                   gateway, update, knew>>

\* walletList: the keys of this moment; the gateway may have given up.
WalletList(c) ==
    /\ c \in listing /\ listing' = listing \ {c}
    /\ \/ /\ gpc[c] = "list" /\ gpc' = [gpc EXCEPT ![c] = "verify"]
          /\ listed' = [listed EXCEPT ![c] = hasKey]
          /\ knew' = IF op \in {"AddNewAddress", "RemoveAddress"} THEN knew \cup {c} ELSE knew
       \/ UNCHANGED <<gpc, listed, knew>>
    /\ UNCHANGED <<loop, waiting, stream, ended, job, own, policy, routed, support, update>>

----------------------------------------------------------------------------
(* The gateway's goroutine of a connection.                                *)

\* An event sent to a client that has closed the stream is lost.
Push(c, e) == stream' = IF c \in ended THEN stream ELSE [stream EXCEPT ![c] = Append(@, e)]

\* The address, if listed, is verified: the client signs with the key it has now.
VerifyAddress(c) ==
    /\ gpc[c] = "verify" /\ (listed[c] => hasKey) /\ gpc' = [gpc EXCEPT ![c] = "add"]
    /\ UNCHANGED <<loop, waiting, work, own, policy, listed, routed, support, update, knew>>

\* getValidatedAddress fails (an error, a timeout, the end of the context).
GiveUp(c) ==
    /\ gpc[c] \in {"list", "verify"} /\ gpc' = [gpc EXCEPT ![c] = "closed"]
    /\ UNCHANGED <<loop, waiting, work, own, policy, listed, routed, support, update, knew>>

AddNewConn(c) ==
    /\ gpc[c] = "add" /\ gpc' = [gpc EXCEPT ![c] = "announce"]
    /\ routed' = [routed EXCEPT ![c] = listed[c]]
    /\ support' = (support \/ policy[c])
    /\ UNCHANGED <<loop, waiting, work, own, policy, listed, update, knew>>

InitConnect(c) ==
    /\ gpc[c] = "announce" /\ gpc' = [gpc EXCEPT ![c] = "live"]
    /\ Push(c, "InitConnect")
    /\ UNCHANGED <<loop, waiting, ended, listing, job, own, policy, listed, routed, support,
                   update, knew>>

\* Once the context is done.  A wallet's entry, with its accounts, goes with its
\* last connection.
RemoveConn(c) ==
    /\ gpc[c] = "live" /\ gpc' = [gpc EXCEPT ![c] = "closed"]
    /\ support' = (support /\ Registered # {c})
    /\ UNCHANGED <<loop, waiting, work, own, policy, listed, routed, update, knew>>

SendRequest(r, c) ==
    /\ job[r] = "none" /\ c \in Registered
    /\ job' = [job EXCEPT ![r] = IF c \in ended THEN "over" ELSE "queued"]
    /\ Push(c, r)
    /\ UNCHANGED <<loop, waiting, ended, listing, own, gateway, update, knew>>

----------------------------------------------------------------------------
(* The wallet's data change, and it tells the gateway.                     *)

Change(o) ==
    /\ kind = "wallet" /\ upc = "idle" /\ upc' = "read" /\ op' = o
    /\ \/ o = "SupportAccount" /\ supports' = TRUE /\ UNCHANGED hasKey
       \/ o = "AddNewAddress" /\ ~hasKey /\ hasKey' = TRUE /\ UNCHANGED supports
       \/ o = "RemoveAddress" /\ hasKey /\ hasKey' = FALSE /\ UNCHANGED supports
    /\ UNCHANGED <<loop, waiting, work, gateway, id, reached, knew>>

\* The call reads e.channel, which the loop may just be writing: the old id, the
\* new one, or part of each.
ReadChannel ==
    /\ upc = "read" /\ upc' = "sent"
    /\ id' \in IF pc = "assign" THEN {channel, conn, NoId} ELSE {channel}
    /\ UNCHANGED <<loop, waiting, work, own, gateway, op, reached, knew>>

UpdateGoto(p) == upc' = p /\ UNCHANGED <<op, id>>

\* addSupportAccount, for an entry if there is one; whether there is, is seen when
\* the entry is read again for the registration with the auth service.
SupportNewAccount ==
    /\ op = "SupportAccount" /\ upc = "sent" /\ UpdateGoto("detail")
    /\ support' = (support \/ Registered # {}) /\ reached' = Registered
    /\ UNCHANGED <<loop, waiting, work, own, gpc, policy, listed, routed, knew>>

\* AddNewAddress: getConn and the verification, either of which may fail, then
\* addNewAddress.
GetConn ==
    /\ op = "AddNewAddress" /\ upc = "sent"
    /\ \/ id \in Registered /\ UpdateGoto("add")
       \/ UpdateGoto("failed")
    /\ UNCHANGED <<loop, waiting, work, own, gateway, reached, knew>>

AddNewAddress ==
    /\ upc = "add"
    /\ \/ /\ id \in Registered /\ UpdateGoto("detail")
          /\ routed' = [routed EXCEPT ![id] = TRUE] /\ reached' = {id}
       \/ Registered = {} /\ UpdateGoto("detail") /\ UNCHANGED <<routed, reached>>
       \/ id \notin Registered /\ Registered # {} /\ UpdateGoto("failed")
          /\ UNCHANGED <<routed, reached>>
    /\ UNCHANGED <<loop, waiting, work, own, gpc, policy, listed, support, knew>>

WalletDetail ==
    /\ upc = "detail" /\ UpdateGoto(IF Registered # {} THEN "ok" ELSE "failed")
    /\ UNCHANGED <<loop, waiting, work, own, gateway, reached, knew>>

\* removeAddress, which a wallet without an entry takes for done.
RemoveAddress ==
    /\ op = "RemoveAddress" /\ upc = "sent"
    /\ \/ /\ id \in Registered /\ UpdateGoto("ok")
          /\ routed' = [routed EXCEPT ![id] = FALSE] /\ reached' = {id}
       \/ Registered = {} /\ UpdateGoto("ok") /\ UNCHANGED <<routed, reached>>
       \/ id \notin Registered /\ Registered # {} /\ UpdateGoto("failed")
          /\ UNCHANGED <<routed, reached>>
    /\ UNCHANGED <<loop, waiting, work, own, gpc, policy, listed, support, knew>>

----------------------------------------------------------------------------
(* The network.  Each side learns in its own time that a connection is lost.*)

\* At the client the stream closes, before or after what was under way arrived.
EndStream(c) ==
    /\ gpc[c] # "none" /\ c \notin ended /\ ended' = ended \cup {c}
    /\ \/ UNCHANGED <<stream, job>>
       \/ /\ stream' = [stream EXCEPT ![c] = <<>>]
          /\ job' = [r \in Requests |->
                        IF \E i \in 1..Len(stream[c]) : stream[c][i] = r THEN "over" ELSE job[r]]
    /\ UNCHANGED <<loop, waiting, listing, own, gateway, update, knew>>

----------------------------------------------------------------------------
Receive ==
    \/ ReceiveInitConnect \/ ReceiveWalletList
    \/ \E r \in Requests : ReceiveRequest(r)

LoopStep == Receive \/ AssignChannel \/ SendReady \/ EndRange \/ Restart \/ Stop

GatewayStep(c) ==
    \/ VerifyAddress(c) \/ GiveUp(c) \/ AddNewConn(c) \/ InitConnect(c) \/ RemoveConn(c)
    \/ \E r \in Requests : SendRequest(r, c)

UpdateStep ==
    \/ \E o \in {"SupportAccount", "AddNewAddress", "RemoveAddress"} : Change(o)
    \/ ReadChannel \/ SupportNewAccount \/ GetConn \/ AddNewAddress \/ WalletDetail
    \/ RemoveAddress

Next ==
    \/ LoopStep \/ ListenFails
    \/ \E c \in Conns : ListenOnce(c) \/ WalletList(c) \/ GatewayStep(c) \/ EndStream(c)
    \/ \E w \in Waiters : WaitReady(w)
    \/ \E r \in Requests : Respond(r)
    \/ UpdateStep

Spec == Init /\ [][Next]_vars

(* The scheduler runs the loop, and the second between two connections     *)
(* passes.  Nothing is assumed of handlers, the gateway or the network.    *)
FairSpec == Spec /\ WF_vars(LoopStep)

----------------------------------------------------------------------------
(* Properties.                                                             *)

TypeOK ==
    /\ kind \in {"wallet", "miner"} /\ conn \in {NoId} \cup Conns /\ channel \in {NoId} \cup Conns
    /\ pc \in {"call", "range", "assign", "ready", "handle", "pause", "stopped"}
    /\ readyCh \in 0..1 /\ waiting \subseteq Waiters
    /\ stream \in [Conns -> Seq(Requests \cup {"WalletList", "InitConnect"})]
    /\ ended \subseteq Conns /\ listing \subseteq Conns
    /\ job \in [Requests -> {"none", "queued", "running", "over"}]
    /\ supports \in BOOLEAN /\ hasKey \in BOOLEAN /\ support \in BOOLEAN
    /\ gpc \in [Conns -> {"none", "list", "verify", "add", "announce", "live", "closed"}]
    /\ policy \in [Conns -> BOOLEAN] /\ listed \in [Conns -> BOOLEAN] /\ routed \in [Conns -> BOOLEAN]
    /\ op \in {"none", "SupportAccount", "AddNewAddress", "RemoveAddress"}
    /\ upc \in {"idle", "read", "sent", "add", "detail", "ok", "failed"}
    /\ id \in {NoId} \cup Conns /\ reached \subseteq Conns /\ knew \subseteq Conns

\* A token in readyCh tells of the connection the loop is on: the gateway has
\* registered it, and e.channel is its id.  It has been cleared when the next one is
\* announced, so the loop never blocks on readyCh although nobody need have waited.
ReadyIsFresh ==
    /\ pc = "ready" => readyCh = 0
    /\ readyCh = 1 => /\ pc \notin {"call", "assign"}
                      /\ conn # NoId /\ gpc[conn] \in {"live", "closed"}
                      /\ kind = "wallet" => channel = conn

\* Does the registration of connection c reflect the update?
Reflects(c) ==
    CASE op = "SupportAccount" -> support
      [] op = "AddNewAddress" -> routed[c]
      [] op = "RemoveAddress" -> ~routed[c]

\* After an update that succeeded, whatever connections ended and were opened
\* meanwhile, a registered connection reflects it if it was registered when the
\* update was applied to it, or told the new data when it was opened.  (One that
\* was opened with the old data and registered later does not.)
UpdateReaches ==
    upc = "ok" => \A c \in Registered : c \in reached \cup knew => Reflects(c)

\* A handler runs in the loop itself.
Handling == pc = "handle"

\* When the stream of its connection ends the loop listens again, unless a proof or
\* market handler does not return.
LoopGoesOn ==
    \A c \in Conns : (conn = c /\ c \in ended) ~> (pc \in {"call", "stopped"} \/ []Handling)

\* A request that reaches the client is answered, before InitConnect as well as
\* after it, unless its handler, or the one in the loop, does not return.
RequestsAreServed ==
    \A r \in Requests : job[r] = "queued" ~>
        (job[r] = "over" \/ [](job[r] = "running") \/ []Handling)
=============================================================================
