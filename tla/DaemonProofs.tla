---------------------------- MODULE DaemonProofs ----------------------------
(***************************************************************************)
(* Theorems about Daemon, for any services, addresses and requests.        *)
(*                                                                         *)
(* The argument: until RunMain opens its door no request is in flight, so  *)
(* its registrations are the only accesses of the map and nobody removes   *)
(* what they enter; when it opens, everything configured is in the map,    *)
(* and from then on only calls of RegisterReverse write.                   *)
(***************************************************************************)
EXTENDS Daemon, TLAPS

\* No request is in flight before the door is open.
Quiet == pc \in {"setup", "register"} => \A r \in Requests : place[r] = "idle"

\* Who is inside the map.
WriterShape ==
    /\ \A r \in Requests : r \in writing <=> place[r] = "write"
    /\ Main \in writing => pc \in {"register", "ended"}

\* What RunMain is entering.
Pending ==
    Main \in writing =>
        \/ /\ turn <= Len(Order) /\ config[Order[turn]] # "bad" /\ config[Order[turn]] # "absent"
           /\ arg[Main] = [host |-> Order[turn], to |-> config[Order[turn]]]
        \/ turn = Len(Order) + 1 /\ arg[Main] = [host |-> Gateway, to |-> "gateway"]

\* Host h can be looked up, or somebody has unregistered it.
Present(h) == handler[h] # None \/ h \in unset

\* What has been registered so far.
Registered ==
    /\ \A i \in 1..Len(Order) : i < turn /\ config[Order[i]] \in Addresses => Present(Order[i])
    /\ turn = Len(Order) + 2 => Present(Gateway)
    /\ pc \in {"notify", "listen", "serve"} => turn = Len(Order) + 2

IInv == TypeOK /\ Quiet /\ WriterShape /\ Pending /\ Registered /\ NoEarlyRefusal /\ RaceNeedsRegister

LEMMA LenType == Len(Order) \in Nat /\ \A i \in 1..Len(Order) : Order[i] \in Services
BY OrderAssumption DEF Services

LEMMA Places ==
  ASSUME TypeOK, NEW h \in Hosts \cup {NoHeader, Unknown}
  PROVE  Destination(h) \in {"gateway", "refused", "forwarded"}
<1>1. CASE h \in {NoHeader, Unknown}
  BY <1>1 DEF Destination
<1>2. CASE h \notin {NoHeader, Unknown}
  BY <1>2 DEF Destination, TypeOK
<1> QED BY <1>1, <1>2

LEMMA IInvInit == Init => IInv
<1> SUFFICES ASSUME Init PROVE IInv
  OBVIOUS
<1>1. TypeOK
  <2>1. 1 \in 1..(Len(Order) + 2)
    BY LenType
  <2>2. [host |-> Gateway, to |-> "empty"] \in [host : Hosts, to : Addresses \cup {"gateway", "empty"}]
    BY DEF Hosts
  <2> QED BY <2>1, <2>2 DEF Init, TypeOK
<1>2. Quiet /\ WriterShape /\ Pending /\ NoEarlyRefusal /\ RaceNeedsRegister
  BY MainAssumption DEF Init, Quiet, WriterShape, Pending, NoEarlyRefusal, RaceNeedsRegister
<1>3. Registered
  BY LenType DEF Init, Registered
<1> QED BY <1>1, <1>2, <1>3 DEF IInv

----------------------------------------------------------------------------
(* The steps of RunMain.                                                   *)

\* A step that moves only RunMain, and not into the register state.
LEMMA MoveKeeps ==
  ASSUME IInv, UNCHANGED <<config, turn, map, traffic, crashed>>, TypeOK',
         \/ pc' = pc \/ pc' = "ended" \/ (pc = "setup" /\ pc' = "register")
         \/ Reachable /\ pc' \in {"notify", "listen", "serve"}
         \/ pc = "register" /\ turn = Len(Order) + 2 /\ pc' = "notify"
  PROVE  IInv'
<1> USE DEF IInv, map, traffic
<1>1. Main \notin writing \/ pc' \in {"register", "ended"}
  BY LenType DEF WriterShape, Pending, Reachable
<1>2. WriterShape'
  BY <1>1 DEF WriterShape
<1>3. Quiet' /\ Pending' /\ Registered'
  BY DEF Quiet, Pending, Registered, Present, Reachable
<1>4. NoEarlyRefusal' /\ RaceNeedsRegister'
  BY DEF NoEarlyRefusal, RaceNeedsRegister
<1> QED BY <1>2, <1>3, <1>4

LEMMA LifeKeeps ==
  ASSUME IInv, Setup \/ OpenDoor \/ Notify \/ Listen \/ ServeReturns \/ ServeFails
               \/ Signal \/ Shutdown
  PROVE  IInv'
<1>1. UNCHANGED <<config, turn, map, traffic, crashed>>
  BY DEF Setup, OpenDoor, Notify, Listen, ServeReturns, ServeFails, Signal, Shutdown, Goto, End
<1>2. TypeOK'
  BY <1>1 DEF Setup, OpenDoor, Notify, Listen, ServeReturns, ServeFails, Signal, Shutdown, Goto, End,
     StopServer, IInv, TypeOK, map, traffic
<1>3. \/ pc' = pc \/ pc' = "ended" \/ (pc = "setup" /\ pc' = "register")
      \/ Reachable /\ pc' \in {"notify", "listen", "serve"}
      \/ pc = "register" /\ turn = Len(Order) + 2 /\ pc' = "notify"
  BY DEF Setup, OpenDoor, Notify, Listen, ServeReturns, ServeFails, Signal, Shutdown, Goto, End, Reachable
<1> QED BY <1>1, <1>2, <1>3, MoveKeeps

LEMMA SkipKeeps ==
  ASSUME IInv, SkipOrFail PROVE IInv'
<1> USE DEF IInv
<1>1. CASE pc' = "ended" /\ UNCHANGED <<config, turn, watcher, signaled, stopping>>
  <2>1. UNCHANGED <<map, traffic, crashed>>
    BY DEF SkipOrFail
  <2>2. TypeOK'
    BY <1>1, <2>1 DEF TypeOK, map, traffic
  <2> QED BY <1>1, <2>1, <2>2, MoveKeeps
<1>2. CASE /\ config[Order[turn]] = "absent" /\ turn' = turn + 1
           /\ UNCHANGED <<config, pc, watcher, signaled, stopping>>
  <2>1. /\ pc = "register" /\ turn \in 1..Len(Order)
        /\ UNCHANGED <<handler, writing, arg, unset, place, header, crashed>>
    BY LenType DEF SkipOrFail, map, traffic, TypeOK
  <2>2. TypeOK'
    <3>1. turn' \in 1..(Len(Order) + 2)
      BY <1>2, <2>1, LenType
    <3> QED BY <1>2, <2>1, <3>1 DEF TypeOK
  <2>3. Main \notin writing
    BY <1>2, <2>1, LenType DEF Pending
  <2>4. Registered'
    <3>1. config[Order[turn]] \notin Addresses
      BY <1>2, AddressAssumption
    <3>2. \A i \in 1..Len(Order) : i < turn' => i < turn \/ i = turn
      BY <1>2, <2>1, LenType
    <3>3. turn' # Len(Order) + 2
      BY <1>2, <2>1, LenType
    <3> QED BY <1>2, <2>1, <3>1, <3>2, <3>3 DEF Registered, Present
  <2>5. Quiet' /\ WriterShape' /\ Pending' /\ NoEarlyRefusal' /\ RaceNeedsRegister'
    BY <1>2, <2>1, <2>3 DEF Quiet, WriterShape, Pending, NoEarlyRefusal, RaceNeedsRegister
  <2> QED BY <2>2, <2>4, <2>5
<1> QED BY <1>1, <1>2 DEF SkipOrFail, End

\* The map is empty of writers when RunMain enters it.
LEMMA BeginKeeps ==
  ASSUME IInv, BeginRegister PROVE IInv'
<1> USE DEF IInv
<1>1. /\ pc = "register" /\ Main \notin writing
      /\ UNCHANGED <<config, pc, turn, watcher, signaled, stopping, place, header, handler, unset>>
      /\ writing' = writing \cup {Main} /\ crashed' \in {FALSE, writing # {}}
  BY DEF BeginRegister, BeginWrite, life, traffic
<1>2. PICK a \in [host : Hosts, to : Addresses \cup {"gateway", "empty"}] :
        /\ arg' = [arg EXCEPT ![Main] = a]
        /\ \/ turn <= Len(Order) /\ config[Order[turn]] \notin {"absent", "bad"}
              /\ a = [host |-> Order[turn], to |-> config[Order[turn]]]
           \/ turn = Len(Order) + 1 /\ a = [host |-> Gateway, to |-> "gateway"]
  <2>1. CASE turn <= Len(Order) /\ config[Order[turn]] \notin {"absent", "bad"}
             /\ BeginWrite(Main, Order[turn], config[Order[turn]])
    <3>1. Order[turn] \in Services
      BY <2>1, LenType DEF TypeOK
    <3>2. [host |-> Order[turn], to |-> config[Order[turn]]]
            \in [host : Hosts, to : Addresses \cup {"gateway", "empty"}]
      BY <2>1, <3>1 DEF TypeOK, Hosts
    <3> QED BY <2>1, <3>2 DEF BeginWrite
  <2>2. CASE turn = Len(Order) + 1 /\ BeginWrite(Main, Gateway, Inner)
    <3>1. [host |-> Gateway, to |-> "gateway"] \in [host : Hosts, to : Addresses \cup {"gateway", "empty"}]
      BY DEF Hosts
    <3> QED BY <2>2, <3>1 DEF BeginWrite, Inner
  <2> QED BY <2>1, <2>2 DEF BeginRegister
<1>3. writing = {}
  BY <1>1 DEF Quiet, WriterShape, TypeOK, Writers
<1>4. crashed' = FALSE
  BY <1>1, <1>3
<1>5. TypeOK'
  BY <1>1, <1>2, <1>4 DEF TypeOK, Writers
<1>6. WriterShape'
  BY <1>1, MainAssumption DEF WriterShape
<1>7. Pending'
  BY <1>1, <1>2 DEF Pending, TypeOK, Writers
<1>8. Quiet' /\ Registered' /\ NoEarlyRefusal' /\ RaceNeedsRegister'
  BY <1>1, <1>4 DEF Quiet, Registered, Present, NoEarlyRefusal, RaceNeedsRegister
<1> QED BY <1>5, <1>6, <1>7, <1>8

LEMMA EndKeeps ==
  ASSUME IInv, EndRegister, pc # "ended" PROVE IInv'
<1> USE DEF IInv
<1>1. /\ Main \in writing /\ pc = "register" /\ writing' = writing \ {Main} /\ turn' = turn + 1
      /\ UNCHANGED <<config, pc, watcher, signaled, stopping, place, header, unset, arg, crashed>>
      /\ handler' = [handler EXCEPT ![arg[Main].host] = IF arg[Main].to = "empty" THEN None ELSE arg[Main].to]
  BY DEF EndRegister, EndWrite, WriterShape, traffic
<1>2. arg[Main].host \in Hosts /\ arg[Main].to \in Addresses \cup {"gateway", "empty"}
  BY DEF TypeOK, Writers
<1>3. turn \in 1..(Len(Order) + 1)
  BY <1>1, LenType DEF Pending, TypeOK
<1>4. TypeOK'
  <2>1. turn' \in 1..(Len(Order) + 2)
    BY <1>1, <1>3, LenType
  <2>2. handler' \in [Hosts -> Addresses \cup {"gateway", None}]
    BY <1>1, <1>2 DEF TypeOK
  <2> QED BY <1>1, <2>1, <2>2 DEF TypeOK
<1>5. Quiet' /\ WriterShape' /\ Pending' /\ NoEarlyRefusal' /\ RaceNeedsRegister'
  BY <1>1, MainAssumption DEF Quiet, WriterShape, Pending, NoEarlyRefusal, RaceNeedsRegister
<1>6. \A h \in Hosts : Present(h) => Present(h)' \/ (h = arg[Main].host /\ arg[Main].to = "empty")
  BY <1>1, <1>2, AddressAssumption, NoneAssumption DEF Present, TypeOK
<1>7. arg[Main].to # "empty" => Present(arg[Main].host)'
  BY <1>1, <1>2, AddressAssumption, NoneAssumption DEF Present, TypeOK
<1>8. CASE turn <= Len(Order) /\ arg[Main] = [host |-> Order[turn], to |-> config[Order[turn]]]
  <2>1. arg[Main].host = Order[turn] /\ arg[Main].to = config[Order[turn]]
    BY <1>8
  <2>2. ASSUME NEW i \in 1..Len(Order), i < turn', config[Order[i]] \in Addresses
        PROVE  Present(Order[i])'
    <3>1. config[Order[i]] # "empty" /\ Order[i] \in Hosts
      BY <2>2, AddressAssumption, LenType DEF Hosts
    <3>2. CASE i = turn
      BY <1>1, <1>7, <2>1, <2>2, <3>1, <3>2
    <3>3. CASE i < turn
      <4>1. Present(Order[i])
        BY <2>2, <3>3 DEF Registered
      <4> QED BY <1>6, <2>1, <3>1, <4>1
    <3> QED BY <1>1, <1>3, <2>2, <3>2, <3>3, LenType
  <2>3. turn' # Len(Order) + 2
    BY <1>1, <1>3, <1>8, LenType
  <2>4. \A i \in 1..Len(Order) : Order'[i] = Order[i] /\ config' = config
    BY <1>1
  <2>5. Registered'
    BY <1>1, <2>2, <2>3 DEF Registered
  <2> QED BY <1>4, <1>5, <2>5
<1>9. CASE turn = Len(Order) + 1 /\ arg[Main] = [host |-> Gateway, to |-> "gateway"]
  <2>1. Present(Gateway)'
    BY <1>1, <1>7, <1>9
  <2>2. \A i \in 1..Len(Order) : Present(Order[i]) => Present(Order[i])'
    BY <1>6, <1>9, LenType DEF Hosts
  <2>3. \A i \in 1..Len(Order) : i < turn
    BY <1>9, LenType
  <2>4. Registered'
    BY <1>1, <2>1, <2>2, <2>3 DEF Registered
  <2> QED BY <1>4, <1>5, <2>4
<1> QED BY <1>1, <1>8, <1>9 DEF Pending

----------------------------------------------------------------------------
(* The steps of requests.                                                  *)

\* While a request is in flight the registrations are over.
LEMMA InFlight ==
  ASSUME IInv, pc # "ended", NEW r \in Requests, place[r] # "idle"
  PROVE  turn = Len(Order) + 2 /\ Main \notin writing
BY DEF IInv, Quiet, Registered, WriterShape, TypeOK

\* A request that is refused was looking for a host that is not in the map.
LEMMA RefusedIsAbsent ==
  ASSUME IInv, pc # "ended", NEW r \in Requests, place[r] = "lookup",
         Destination(header[r]) = "refused"
  PROVE  \/ header[r] = Unknown \/ header[r] \in unset
         \/ header[r] \in Services /\ config[header[r]] \notin Addresses
<1> USE DEF IInv
<1>1. header[r] \in Hosts \cup {NoHeader, Unknown} /\ turn = Len(Order) + 2
  BY InFlight DEF TypeOK
<1>2. header[r] # NoHeader
  BY HeaderAssumption DEF Destination
<1>3. CASE header[r] \in Hosts
  <2>1. handler[header[r]] = None
    BY <1>3, HeaderAssumption DEF Destination, TypeOK
  <2>2. CASE header[r] = Gateway
    BY <1>1, <2>1, <2>2 DEF Registered, Present
  <2>3. CASE header[r] \in Services
    <3>1. PICK i \in 1..Len(Order) : header[r] = Order[i]
      BY <2>3 DEF Services
    <3>2. i < turn
      BY <1>1, LenType
    <3> QED BY <2>1, <2>3, <3>1, <3>2 DEF Registered, Present
  <2> QED BY <1>3, <2>2, <2>3 DEF Hosts
<1> QED BY <1>1, <1>2, <1>3

\* A step of one request that leaves RunMain and the map alone.
LEMMA RequestKeeps ==
  ASSUME IInv, pc # "ended", ~crashed, NEW r \in Requests,
         \/ \E h \in Hosts \cup {NoHeader, Unknown} : Accept(r, h)
         \/ Route(r) \/ Handle(r) \/ AnswerForwarded(r)
  PROVE  IInv'
<1> USE DEF IInv
<1>1. UNCHANGED <<life, map>>
  BY DEF Accept, Route, Handle, AnswerForwarded
<1>2. PICK p \in {"lookup", "refused", "gateway", "forwarded", "answered"} :
        /\ place' = [place EXCEPT ![r] = p] /\ place[r] \notin {"write", "refused"}
        /\ p = "refused" => place[r] = "lookup" /\ Destination(header[r]) = "refused"
  BY Places DEF Accept, Route, Handle, AnswerForwarded, Move, TypeOK
<1>3. \A q \in Requests : header'[q] = header[q] \/ (q = r /\ place'[r] = "lookup")
  BY DEF Accept, Route, Handle, AnswerForwarded, Move, TypeOK
<1>4. TypeOK'
  <2>1. place' \in [Requests -> {"idle", "lookup", "refused", "gateway", "write", "forwarded", "answered"}]
    BY <1>2 DEF TypeOK
  <2>2. header' \in [Requests -> Hosts \cup {NoHeader, Unknown}]
    BY DEF Accept, Route, Handle, AnswerForwarded, Move, TypeOK
  <2>3. crashed' \in BOOLEAN
    BY DEF Accept, Route, Handle, AnswerForwarded, TypeOK
  <2> QED BY <1>1, <2>1, <2>2, <2>3 DEF TypeOK, life, map
<1>5. Quiet'
  BY <1>1, <1>2 DEF Quiet, Accept, Route, Handle, AnswerForwarded, Reachable, life
<1>6. WriterShape' /\ Pending' /\ Registered'
  BY <1>1, <1>2 DEF WriterShape, Pending, Registered, Present, TypeOK, life, map
<1>7. NoEarlyRefusal'
  <2> SUFFICES ASSUME NEW q \in Requests, place'[q] = "refused"
               PROVE  \/ header'[q] = Unknown \/ header'[q] \in unset
                      \/ header'[q] \in Services /\ config[header'[q]] \notin Addresses
    BY <1>1 DEF NoEarlyRefusal, life, map
  <2>1. header'[q] = header[q]
    BY <1>3
  <2>2. CASE q = r
    <3>1. place[r] = "lookup" /\ Destination(header[r]) = "refused"
      BY <1>2, <2>2 DEF TypeOK
    <3> QED BY <2>1, <2>2, <3>1, RefusedIsAbsent
  <2>3. CASE q # r
    BY <1>2, <2>1, <2>3 DEF NoEarlyRefusal, TypeOK
  <2> QED BY <2>2, <2>3
<1>8. RaceNeedsRegister'
  <2>1. CASE crashed' = FALSE
    BY <2>1 DEF RaceNeedsRegister
  <2>2. CASE Route(r) /\ writing # {}
    <3>1. place[r] = "lookup" /\ Main \notin writing
      BY <2>2, InFlight DEF Route
    <3>2. PICK w \in Requests : place[w] = "write"
      BY <2>2, <3>1 DEF WriterShape, TypeOK, Writers
    <3>3. w # r /\ place'[w] = "write" /\ place'[r] # "idle"
      BY <1>2, <3>1, <3>2 DEF TypeOK
    <3> QED BY <3>3 DEF RaceNeedsRegister
  <2>3. crashed' = FALSE \/ (Route(r) /\ writing # {})
    <3>1. CASE Route(r)
      BY <3>1 DEF Route
    <3>2. CASE UNCHANGED crashed
      BY <3>2 DEF TypeOK
    <3> QED BY <3>1, <3>2 DEF Accept, Handle, AnswerForwarded
  <2> QED BY <2>1, <2>2, <2>3
<1> QED BY <1>4, <1>5, <1>6, <1>7, <1>8

\* A call of RegisterReverse enters the map: it may meet other calls there.
LEMMA EnterKeeps ==
  ASSUME IInv, pc # "ended", ~crashed, NEW r \in Requests, NEW h \in Hosts,
         NEW a \in Addresses \cup {"empty"}, RegisterReverse(r, h, a)
  PROVE  IInv'
<1> USE DEF IInv
<1>1. /\ place[r] = "gateway" /\ place' = [place EXCEPT ![r] = "write"]
      /\ UNCHANGED <<life, header, handler, unset>>
      /\ arg' = [arg EXCEPT ![r] = [host |-> h, to |-> a]]
      /\ writing' = writing \cup {r} /\ crashed' \in {FALSE, writing # {}}
  BY DEF RegisterReverse, Move, BeginWrite
<1>2. Main \notin writing /\ turn = Len(Order) + 2 /\ pc \notin {"setup", "register"}
  BY <1>1, InFlight DEF Quiet
<1>3. TypeOK'
  <2>1. [host |-> h, to |-> a] \in [host : Hosts, to : Addresses \cup {"gateway", "empty"}]
    OBVIOUS
  <2>2. place' \in [Requests -> {"idle", "lookup", "refused", "gateway", "write", "forwarded", "answered"}]
    BY <1>1 DEF TypeOK
  <2>3. arg' \in [Writers -> [host : Hosts, to : Addresses \cup {"gateway", "empty"}]]
    BY <1>1, <2>1 DEF TypeOK
  <2>4. crashed' \in BOOLEAN /\ writing' \subseteq Writers
    BY <1>1 DEF TypeOK, Writers
  <2> QED BY <1>1, <2>2, <2>3, <2>4 DEF TypeOK, life
<1>4. Quiet' /\ Pending' /\ Registered'
  BY <1>1, <1>2, MainAssumption DEF Quiet, Pending, Registered, Present, life
<1>5. WriterShape'
  BY <1>1, <1>2, MainAssumption DEF WriterShape, TypeOK
<1>6. NoEarlyRefusal'
  BY <1>1 DEF NoEarlyRefusal, TypeOK, life
<1>7. RaceNeedsRegister'
  <2>1. CASE writing = {}
    BY <1>1, <2>1 DEF RaceNeedsRegister
  <2>2. CASE writing # {}
    <3>1. PICK w \in Requests : place[w] = "write"
      BY <1>2, <2>2 DEF WriterShape, TypeOK, Writers
    <3>2. w # r /\ place'[w] = "write" /\ place'[r] = "write"
      BY <1>1, <3>1 DEF TypeOK
    <3> QED BY <3>2 DEF RaceNeedsRegister
  <2> QED BY <2>1, <2>2
<1> QED BY <1>3, <1>4, <1>5, <1>6, <1>7

LEMMA LeaveKeeps ==
  ASSUME IInv, pc # "ended", ~crashed, NEW r \in Requests, ReturnRegistered(r)
  PROVE  IInv'
<1> USE DEF IInv
<1>1. /\ place[r] = "write" /\ place' = [place EXCEPT ![r] = "answered"]
      /\ UNCHANGED <<life, header, arg, crashed>>
      /\ writing' = writing \ {r}
      /\ handler' = [handler EXCEPT ![arg[r].host] = IF arg[r].to = "empty" THEN None ELSE arg[r].to]
      /\ unset' = IF arg[r].to = "empty" THEN unset \cup {arg[r].host} ELSE unset
  BY DEF ReturnRegistered, Move, EndWrite
<1>2. Main \notin writing /\ turn = Len(Order) + 2 /\ pc \notin {"setup", "register"}
  BY <1>1, InFlight DEF Quiet
<1>3. arg[r].host \in Hosts /\ arg[r].to \in Addresses \cup {"gateway", "empty"}
  BY DEF TypeOK, Writers
<1>4. TypeOK'
  <2>1. place' \in [Requests -> {"idle", "lookup", "refused", "gateway", "write", "forwarded", "answered"}]
    BY <1>1 DEF TypeOK
  <2>2. handler' \in [Hosts -> Addresses \cup {"gateway", None}]
    BY <1>1, <1>3 DEF TypeOK
  <2> QED BY <1>1, <1>3, <2>1, <2>2 DEF TypeOK, life
<1>5. \A h \in Hosts : Present(h) => Present(h)'
  BY <1>1, <1>3, AddressAssumption, NoneAssumption DEF Present, TypeOK
<1>6. Registered'
  BY <1>1, <1>5, LenType DEF Registered, life, Hosts
<1>7. Quiet' /\ Pending' /\ WriterShape'
  BY <1>1, <1>2 DEF Quiet, Pending, WriterShape, TypeOK, life
<1>8. NoEarlyRefusal'
  BY <1>1 DEF NoEarlyRefusal, TypeOK, life
<1>9. RaceNeedsRegister'
  BY <1>1 DEF RaceNeedsRegister
<1> QED BY <1>4, <1>6, <1>7, <1>8, <1>9

----------------------------------------------------------------------------
(* The theorems.                                                           *)

LEMMA IInvStep == IInv /\ [Next]_vars => IInv'
<1> SUFFICES ASSUME IInv, [Next]_vars PROVE IInv'
  OBVIOUS
<1>1. CASE UNCHANGED vars
  BY <1>1 DEF vars, life, map, traffic, IInv, TypeOK, Quiet, WriterShape, Pending, Registered, Present,
     NoEarlyRefusal, RaceNeedsRegister
<1>2. ASSUME RunMain \/ ServeFails \/ Signal \/ Shutdown, pc # "ended" PROVE IInv'
  BY <1>2, LifeKeeps, SkipKeeps, BeginKeeps, EndKeeps DEF RunMain
<1>3. ASSUME NEW r \in Requests, pc # "ended", ~crashed,
             \/ \E h \in Hosts \cup {NoHeader, Unknown} : Accept(r, h)
             \/ Serve(r) \/ AnswerForwarded(r)
             \/ \E h \in Hosts, a \in Addresses \cup {"empty"} : RegisterReverse(r, h, a)
      PROVE  IInv'
  BY <1>3, RequestKeeps, EnterKeeps, LeaveKeeps DEF Serve
<1> QED BY <1>1, <1>2, <1>3 DEF Next

LEMMA Inductive == Spec => []IInv
BY IInvInit, IInvStep, PTL DEF Spec

\* Every variable of the process keeps its type.
THEOREM TypeCorrect == Spec => []TypeOK
BY Inductive, PTL DEF IInv

\* Whatever is configured can be reached from the first request on, for any list of
\* services: a refusal means no address, or that somebody unregistered the host.
THEOREM RefusalHasReason == Spec => []NoEarlyRefusal
BY Inductive, PTL DEF IInv

\* The start-up's writes of the unguarded map meet no other access: only a call of
\* RegisterReverse that overlaps another request can end the process.
THEOREM StartupIsAlone == Spec => []RaceNeedsRegister
BY Inductive, PTL DEF IInv
=============================================================================
