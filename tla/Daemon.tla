------------------------------- MODULE Daemon -------------------------------
(***************************************************************************)
(* The life of the gateway process: RunMain of main.go, and the part of    *)
(* the proxy (proxy/mod.go) that outlives a request: the map of handlers.  *)
(*                                                                         *)
(* RunMain fills the map from the configuration, opens a first door (the   *)
(* test server it starts and forgets), watches for signals, listens and    *)
(* serves.  Every request passes the middleware, which looks its header up *)
(* in the map; a RegisterReverse writes it.  Nothing guards the map: when  *)
(* a write meets another access the Go runtime may end the process, so a   *)
(* write has a beginning and an end here.                                  *)
(*                                                                         *)
(* Left out: what the steps of the set-up do (each may fail, and nothing   *)
(* can be reached before the last of them), and the service behind the     *)
(* proxy (a session of it is Proxy).                                       *)
(***************************************************************************)
EXTENDS Naturals, Sequences

CONSTANTS
    Requests,     \* the requests that reach the process
    Order,        \* the configurable hosts, in the order RunMain registers them
    Gateway,      \* HostGateway
    Addresses,    \* addresses that parse
    NoHeader,     \* of a request without VenusAPINamespaceHeader
    Unknown,      \* a header that is not in Header2HostPreset
    Main,         \* the goroutine of RunMain, as a writer of the map
    None          \* no handler

Services == {Order[i] : i \in 1..Len(Order)}
Hosts == Services \cup {Gateway}
Writers == Requests \cup {Main}

ASSUME OrderAssumption == Order \in Seq(Services) /\ Gateway \notin Services
ASSUME HeaderAssumption == {NoHeader, Unknown} \cap Hosts = {} /\ NoHeader # Unknown
ASSUME AddressAssumption == Addresses \cap {None, "gateway", "lookup", "empty", "bad", "absent"} = {}
ASSUME NoneAssumption == None \notin {"gateway", "lookup", "empty", "bad", "absent"}
ASSUME MainAssumption == Main \notin Requests

VARIABLES
    config,       \* config[s]: the address configured for service s
    pc,           \* where RunMain is
    turn,         \* which registration of the start-up is next
    watcher,      \* the goroutine that waits for a signal
    signaled,     \* has a signal come, or the context ended
    stopping,     \* has srv.Shutdown been called
    handler,      \* handler[h]: an address, the place of an own handler, or None
    writing,      \* the writers that are inside the map
    arg,          \* arg[w]: what writer w registers
    place,        \* place[r]: where request r is
    header,       \* header[r]: the host its header names
    unset,        \* history: hosts unregistered by a call of RegisterReverse
    crashed       \* has the runtime ended the process

life == <<config, pc, turn, watcher, signaled, stopping>>
map == <<handler, writing, arg, unset>>
traffic == <<place, header>>
vars == <<life, map, traffic, crashed>>

\* The auth service, registered first, always has a URL, if only an empty one.
Init ==
    /\ config \in [Services -> Addresses \cup {"absent", "empty", "bad"}]
    /\ Order # <<>> => config[Order[1]] # "absent"
    /\ pc = "setup" /\ turn = 1
    /\ watcher = "none" /\ signaled = FALSE /\ stopping = FALSE
    /\ handler = [h \in Hosts |-> None] /\ writing = {} /\ unset = {}
    /\ arg = [w \in Writers |-> [host |-> Gateway, to |-> "empty"]]
    /\ place = [r \in Requests |-> "idle"] /\ header = [r \in Requests |-> NoHeader]
    /\ crashed = FALSE

----------------------------------------------------------------------------
(* The map of handlers.                                                    *)

\* A write begins; the runtime may notice that another is going on.
BeginWrite(w, h, a) ==
    /\ arg' = [arg EXCEPT ![w] = [host |-> h, to |-> a]]
    /\ writing' = writing \cup {w}
    /\ crashed' \in {FALSE, writing # {}}
    /\ UNCHANGED <<handler, unset>>

\* An empty address deletes the entry, any other replaces it.
EndWrite(w) ==
    /\ handler' = [handler EXCEPT ![arg[w].host] = IF arg[w].to = "empty" THEN None ELSE arg[w].to]
    /\ writing' = writing \ {w}
    /\ UNCHANGED <<arg, crashed>>

----------------------------------------------------------------------------
(* RunMain.                                                                *)

End == pc' = "ended" /\ UNCHANGED <<config, turn, watcher, signaled, stopping>>
Goto(p) == pc' = p /\ UNCHANGED <<config, turn, watcher, signaled, stopping>>

\* Everything before the registrations; any part of it may fail.
Setup ==
    /\ pc = "setup"
    /\ Goto("register") \/ End
    /\ UNCHANGED <<map, traffic, crashed>>

\* Mutant of Inner: the handler already wrapped by the middleware is registered.
Wrapped == "lookup"

\* The gateway itself is registered by its inner handler.
Inner == "gateway"

\* RegisterReverseByAddr for the next service: not configured, or not an address.
SkipOrFail ==
    /\ pc = "register" /\ turn <= Len(Order)
    /\ \/ /\ config[Order[turn]] = "absent"
          /\ turn' = turn + 1
          /\ UNCHANGED <<config, pc, watcher, signaled, stopping>>
       \/ config[Order[turn]] = "bad" /\ End
    /\ UNCHANGED <<map, traffic, crashed>>

BeginRegister ==
    /\ pc = "register" /\ Main \notin writing
    /\ \/ /\ turn <= Len(Order) /\ config[Order[turn]] \notin {"absent", "bad"}
          /\ BeginWrite(Main, Order[turn], config[Order[turn]])
       \/ /\ turn = Len(Order) + 1
          /\ BeginWrite(Main, Gateway, Inner)
    /\ UNCHANGED <<life, traffic>>

EndRegister ==
    /\ Main \in writing /\ EndWrite(Main)
    /\ turn' = turn + 1
    /\ UNCHANGED <<config, pc, watcher, signaled, stopping, traffic, unset>>

\* httptest.NewServer: from here on requests arrive.
OpenDoor ==
    /\ pc = "register" /\ turn = Len(Order) + 2
    /\ Goto("notify")
    /\ UNCHANGED <<map, traffic, crashed>>

\* signal.Notify, and the goroutine that waits.
Notify ==
    /\ pc = "notify" /\ pc' = "listen" /\ watcher' = "waiting"
    /\ UNCHANGED <<config, turn, signaled, stopping, map, traffic, crashed>>

Listen ==
    /\ pc = "listen"
    /\ Goto("serve") \/ End
    /\ UNCHANGED <<map, traffic, crashed>>

\* Serve returns once Shutdown has been called, before or since, without waiting
\* for what it waits for; RunMain returns, and with it the process ends.
ServeReturns ==
    /\ pc = "serve" /\ stopping /\ End
    /\ UNCHANGED <<map, traffic, crashed>>

ServeFails ==
    /\ pc = "serve" /\ ~stopping /\ End
    /\ UNCHANGED <<map, traffic, crashed>>

RunMain ==
    \/ Setup \/ SkipOrFail \/ BeginRegister \/ EndRegister
    \/ OpenDoor \/ Notify \/ Listen \/ ServeReturns

\* SIGINT or SIGTERM, which ends the process before Notify, or the end of the
\* context RunMain was given, which waits for the watcher to look.
Signal ==
    /\ ~signaled /\ signaled' = TRUE
    /\ \/ UNCHANGED pc
       \/ watcher = "none" /\ pc' = "ended"
    /\ UNCHANGED <<config, turn, watcher, stopping, map, traffic, crashed>>

\* Mutant of StopServer: a server that does not serve yet forgets the call.
StopRunning == stopping' = (pc = "serve")

StopServer == stopping' = TRUE

Shutdown ==
    /\ watcher = "waiting" /\ signaled
    /\ watcher' = "done" /\ StopServer
    /\ UNCHANGED <<config, pc, turn, signaled, map, traffic, crashed>>

----------------------------------------------------------------------------
(* Requests.                                                               *)

Move(r, p) == place' = [place EXCEPT ![r] = p] /\ UNCHANGED header

\* Mutant of Reachable: the door is opened before the services are registered.
ReachableEarly == pc # "setup"

\* Through the forgotten test server or the listener.  (The first is not closed by
\* Shutdown.)
Reachable == pc \in {"notify", "listen", "serve"}

Accept(r, h) ==
    /\ place[r] = "idle" /\ Reachable
    /\ place' = [place EXCEPT ![r] = "lookup"] /\ header' = [header EXCEPT ![r] = h]
    /\ UNCHANGED <<life, map, crashed>>

\* getReverseHandler: no header means the gateway's own API.
Destination(h) ==
    CASE h = NoHeader -> "gateway"
      [] h = Unknown -> "refused"
      [] OTHER -> IF handler[h] = None THEN "refused"
                  ELSE IF handler[h] \in Addresses THEN "forwarded" ELSE handler[h]

\* ProxyMiddleware; the runtime may notice that the map is being written.
Route(r) ==
    /\ place[r] = "lookup" /\ Move(r, Destination(header[r]))
    /\ crashed' \in {FALSE, header[r] \in Hosts /\ writing # {}}
    /\ UNCHANGED <<life, map>>

\* Any other call of the API, or a RegisterReverse of a bad address, which fails.
Handle(r) ==
    /\ place[r] = "gateway" /\ Move(r, "answered")
    /\ UNCHANGED <<life, map, crashed>>

\* A RegisterReverse, of any host: only the command line checks which.
RegisterReverse(r, h, a) ==
    /\ place[r] = "gateway" /\ Move(r, "write")
    /\ BeginWrite(r, h, a)
    /\ UNCHANGED life

ReturnRegistered(r) ==
    /\ place[r] = "write" /\ Move(r, "answered")
    /\ EndWrite(r)
    /\ unset' = IF arg[r].to = "empty" THEN unset \cup {arg[r].host} ELSE unset
    /\ UNCHANGED life

\* The service answers.
AnswerForwarded(r) ==
    /\ place[r] = "forwarded" /\ Move(r, "answered")
    /\ UNCHANGED <<life, map, crashed>>

Serve(r) == Route(r) \/ Handle(r) \/ ReturnRegistered(r)

Next ==
    /\ pc # "ended" /\ ~crashed
    /\ \/ RunMain \/ ServeFails \/ Signal \/ Shutdown
       \/ \E r \in Requests :
            \/ \E h \in Hosts \cup {NoHeader, Unknown} : Accept(r, h)
            \/ Serve(r) \/ AnswerForwarded(r)
            \/ \E h \in Hosts, a \in Addresses \cup {"empty"} : RegisterReverse(r, h, a)

Spec == Init /\ [][Next]_vars

(* The goroutines of RunMain, of the watcher and of each request run while *)
(* they can.  Signals come or not; the services answer or not.             *)
Running == pc # "ended" /\ ~crashed
FairSpec ==
    /\ Spec
    /\ WF_vars(Running /\ RunMain) /\ WF_vars(Running /\ Shutdown)
    /\ \A r \in Requests : WF_vars(Running /\ Serve(r))

----------------------------------------------------------------------------
(* Properties.                                                             *)

TypeOK ==
    /\ config \in [Services -> Addresses \cup {"absent", "empty", "bad"}]
    /\ pc \in {"setup", "register", "notify", "listen", "serve", "ended"}
    /\ turn \in 1..(Len(Order) + 2)
    /\ watcher \in {"none", "waiting", "done"}
    /\ signaled \in BOOLEAN /\ stopping \in BOOLEAN /\ crashed \in BOOLEAN
    /\ handler \in [Hosts -> Addresses \cup {"gateway", None}]
    /\ writing \subseteq Writers /\ unset \subseteq Hosts
    /\ arg \in [Writers -> [host : Hosts, to : Addresses \cup {"gateway", "empty"}]]
    /\ place \in [Requests -> {"idle", "lookup", "refused", "gateway", "write", "forwarded", "answered"}]
    /\ header \in [Requests -> Hosts \cup {NoHeader, Unknown}]

\* However early a request comes, no host that is configured is refused as not
\* registered, unless somebody has unregistered it; nor is the gateway's own header.
NoEarlyRefusal ==
    \A r \in Requests : place[r] = "refused" =>
        \/ header[r] = Unknown \/ header[r] \in unset
        \/ header[r] \in Services /\ config[header[r]] \notin Addresses

\* The unguarded map ends the process only when a call of RegisterReverse overlaps
\* another request: the registrations of the start-up meet nobody.
RaceNeedsRegister ==
    crashed => \E r, s \in Requests : r # s /\ place[r] = "write" /\ place[s] # "idle"

\* A signal ends the process, at whatever moment of the start-up it comes.
SignalEndsIt == signaled ~> (pc = "ended" \/ crashed)

\* The middleware never sends a request round in circles: it is refused, handed to a
\* service, or answered by the gateway itself, as long as the process lives.
RequestsEnd ==
    \A r \in Requests : place[r] \in {"lookup", "gateway", "write"} ~>
        (place[r] \in {"refused", "forwarded", "answered"} \/ pc = "ended" \/ crashed)
=============================================================================
