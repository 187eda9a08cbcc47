-------------------------- MODULE EventClientProofs --------------------------
(***************************************************************************)
(* Theorems about EventClient, for any number of connections: why the      *)
(* listen loop never blocks on readyCh and what a token in it tells, and   *)
(* which connections a change of the wallet's data reaches.                *)
(***************************************************************************)
EXTENDS EventClient, SequenceTheorems, TLAPS

Events == Requests \cup {"WalletList", "InitConnect"}
Announced(c) == gpc[c] \in {"live", "closed"}

\* A connection that has not been opened has no goroutine and no events.
NotOpened == \A c \in Conns : c > conn => gpc[c] = "none" /\ stream[c] = <<>>

\* The gateway announces a connection once.
AnnouncedOnce ==
    \A c \in Conns : \A i \in 1..Len(stream[c]) : stream[c][i] = "InitConnect" =>
        /\ Announced(c)
        /\ \A j \in 1..Len(stream[c]) : stream[c][j] = "InitConnect" => j = i

\* Is the loop about to tell, or has it told and was not waited for.
Telling == pc \in {"assign", "ready"} \/ readyCh = 1

\* The announcement of the connection it tells of has been taken from its stream.
ToldOnce ==
    Telling => /\ conn \in Conns /\ Announced(conn)
               /\ \A i \in 1..Len(stream[conn]) : stream[conn][i] # "InitConnect"

\* When it tells, a wallet has stored the channel.
Stored == /\ pc = "assign" => kind = "wallet"
          /\ kind = "wallet" /\ (pc = "ready" \/ readyCh = 1) => channel = conn

NoTokenYet == pc \in {"call", "assign", "ready"} => readyCh = 0

Opens == pc \in {"range", "assign", "ready", "handle"} => conn \in Conns

\* A miner's loop handles the request that runs, and no other runs.
OneHandled ==
    kind = "miner" => \A r \in Requests : job[r] = "running" =>
        pc = "handle" /\ \A s \in Requests : job[s] = "running" => s = r

Told == NotOpened /\ AnnouncedOnce /\ ToldOnce
Looping == Stored /\ NoTokenYet /\ Opens /\ OneHandled

IInv == TypeOK /\ Told /\ Looping

----------------------------------------------------------------------------
(* Types.  The queues of events are kept apart from the rest.              *)

Streams == stream \in [Conns -> Seq(Events)]

OtherTypes ==
    /\ kind \in {"wallet", "miner"} /\ conn \in {NoId} \cup Conns /\ channel \in {NoId} \cup Conns
    /\ pc \in {"call", "range", "assign", "ready", "handle", "pause", "stopped"}
    /\ readyCh \in 0..1 /\ waiting \subseteq Waiters
    /\ ended \subseteq Conns /\ listing \subseteq Conns
    /\ job \in [Requests -> {"none", "queued", "running", "over"}]
    /\ supports \in BOOLEAN /\ hasKey \in BOOLEAN /\ support \in BOOLEAN
    /\ gpc \in [Conns -> {"none", "list", "verify", "add", "announce", "live", "closed"}]
    /\ policy \in [Conns -> BOOLEAN] /\ listed \in [Conns -> BOOLEAN] /\ routed \in [Conns -> BOOLEAN]
    /\ op \in {"none", "SupportAccount", "AddNewAddress", "RemoveAddress"}
    /\ upc \in {"idle", "read", "sent", "add", "detail", "ok", "failed"}
    /\ id \in {NoId} \cup Conns /\ reached \subseteq Conns /\ knew \subseteq Conns

LEMMA TypeParts == TypeOK <=> Streams /\ OtherTypes
BY DEF TypeOK, Streams, OtherTypes, Events

LEMMA EmptyInterval == Len(<<>>) = 0 /\ 1..0 = {}
OBVIOUS

LEMMA EventNames ==
  /\ <<>> \in Seq(Events) /\ <<"WalletList">> \in Seq(Events) /\ "InitConnect" \in Events
  /\ Requests \subseteq Events
BY DEF Events

LEMMA TypeInit == Init => TypeOK
<1> SUFFICES ASSUME Init PROVE TypeOK
  OBVIOUS
<1>1. Streams
  BY EventNames DEF Init, Streams
<1>2. OtherTypes
  <2>1. /\ kind \in {"wallet", "miner"} /\ conn = NoId /\ channel = NoId /\ pc = "call"
        /\ readyCh = 0 /\ waiting = Waiters /\ ended = {} /\ listing = {}
        /\ supports = FALSE /\ hasKey \in BOOLEAN /\ support = FALSE
        /\ op = "none" /\ upc = "idle" /\ id = NoId /\ reached = {} /\ knew = {}
    BY DEF Init
  <2>2. NoId \in {NoId} \cup Conns /\ 0 \in 0..1
    OBVIOUS
  <2>3. /\ job \in [Requests -> {"none", "queued", "running", "over"}]
        /\ gpc \in [Conns -> {"none", "list", "verify", "add", "announce", "live", "closed"}]
        /\ policy \in [Conns -> BOOLEAN] /\ listed \in [Conns -> BOOLEAN] /\ routed \in [Conns -> BOOLEAN]
    BY DEF Init
  <2> QED BY <2>1, <2>2, <2>3 DEF OtherTypes
<1> QED BY <1>1, <1>2, TypeParts

LEMMA StreamsStep == Streams /\ Opens /\ [Next]_vars => Streams'
<1> SUFFICES ASSUME Streams, Opens, [Next]_vars PROVE Streams'
  OBVIOUS
<1> USE DEF loop, work, own, gateway, update
<1>1. ASSUME NEW e, ReceiveEvent(e) PROVE Streams'
  <2>1. conn \in Conns
    BY <1>1 DEF ReceiveEvent, Opens
  <2>2. Tail(stream[conn]) \in Seq(Events)
    BY <1>1, <2>1, HeadTailProperties DEF ReceiveEvent, Streams
  <2> QED BY <1>1, <2>2 DEF ReceiveEvent, Streams
<1>2. ASSUME NEW c \in Conns, NEW e \in Events, Push(c, e) PROVE Streams'
  BY <1>2 DEF Push, Streams
<1>3. CASE Receive
  BY <1>1, <1>3 DEF Receive, ReceiveInitConnect, OnInitConnect, ReceiveWalletList, ReceiveRequest, Started
<1>4. CASE UNCHANGED stream
  BY <1>4 DEF Streams
<1>5. ASSUME NEW c \in Conns, ListenOnce(c) \/ EndStream(c) PROVE Streams'
  BY <1>5, EventNames DEF ListenOnce, Policy, EndStream, Streams
<1>6. ASSUME NEW c \in Conns, GatewayStep(c) PROVE Streams'
  <2>1. CASE InitConnect(c)
    BY <1>2, <2>1, EventNames DEF InitConnect
  <2>2. ASSUME NEW r \in Requests, SendRequest(r, c) PROVE Streams'
    BY <1>2, <2>2, EventNames DEF SendRequest
  <2>3. CASE VerifyAddress(c) \/ GiveUp(c) \/ AddNewConn(c) \/ RemoveConn(c)
    BY <1>4, <2>3 DEF VerifyAddress, GiveUp, AddNewConn, RemoveConn
  <2> QED BY <1>6, <2>1, <2>2, <2>3 DEF GatewayStep
<1>7. CASE \/ AssignChannel \/ SendReady \/ EndRange \/ Restart \/ Stop \/ ListenFails
           \/ \E c \in Conns : WalletList(c)
           \/ \E w \in Waiters : WaitReady(w)
           \/ \E r \in Requests : Respond(r)
  BY <1>4, <1>7 DEF AssignChannel, SendReady, EndRange, Restart, Cleared, Stop, ListenFails, WalletList, WaitReady, Respond
<1>8. CASE UpdateStep \/ UNCHANGED vars
  BY <1>4, <1>8 DEF UpdateStep, Change, ReadChannel, SupportNewAccount, GetConn, AddNewAddress,
     WalletDetail, RemoveAddress, vars
<1> QED BY <1>3, <1>5, <1>6, <1>7, <1>8 DEF Next, LoopStep

LEMMA OtherTypesStep == OtherTypes /\ Opens /\ [Next]_vars => OtherTypes'
<1> SUFFICES ASSUME OtherTypes, Opens, [Next]_vars PROVE OtherTypes'
  OBVIOUS
<1> USE DEF loop, work, own, gateway, update
<1>1. CASE ReceiveInitConnect
  BY <1>1 DEF ReceiveInitConnect, OnInitConnect, ReceiveEvent, OtherTypes
<1>2. CASE ReceiveWalletList
  <2>1. conn \in Conns
    BY <1>2 DEF ReceiveWalletList, ReceiveEvent, Opens
  <2> QED BY <1>2, <2>1 DEF ReceiveWalletList, OtherTypes
<1>3. ASSUME NEW r \in Requests, ReceiveRequest(r) PROVE OtherTypes'
  BY <1>3 DEF ReceiveRequest, Started, OtherTypes
<1>4. CASE AssignChannel \/ SendReady
  BY <1>4 DEF AssignChannel, SendReady, OtherTypes
<1>5. CASE EndRange \/ Restart \/ Stop \/ ListenFails
  BY <1>5 DEF EndRange, Restart, Cleared, Stop, ListenFails, OtherTypes
<1>6. ASSUME NEW c \in Conns, ListenOnce(c) PROVE OtherTypes'
  <2>1. gpc' \in [Conns -> {"none", "list", "verify", "add", "announce", "live", "closed"}]
    BY <1>6 DEF ListenOnce, Policy, OtherTypes
  <2>2. policy' \in [Conns -> BOOLEAN]
    BY <1>6 DEF ListenOnce, Policy, OtherTypes
  <2>3. conn' \in Conns /\ pc' = "range" /\ knew' \subseteq Conns
    BY <1>6 DEF ListenOnce, Policy, OtherTypes
  <2>4. UNCHANGED <<kind, readyCh, channel, waiting, ended, listing, job, own, listed, routed, support,
                    update>>
    BY <1>6 DEF ListenOnce, Policy
  <2> QED BY <2>1, <2>2, <2>3, <2>4 DEF OtherTypes
<1>7. ASSUME NEW c \in Conns, WalletList(c) PROVE OtherTypes'
  BY <1>7 DEF WalletList, OtherTypes
<1>8. ASSUME NEW c \in Conns, VerifyAddress(c) \/ GiveUp(c) PROVE OtherTypes'
  BY <1>8 DEF VerifyAddress, GiveUp, OtherTypes
<1>9. ASSUME NEW c \in Conns, AddNewConn(c) \/ RemoveConn(c) PROVE OtherTypes'
  <2>1. support' \in BOOLEAN
    BY <1>9 DEF AddNewConn, RemoveConn
  <2>2. routed' \in [Conns -> BOOLEAN]
    BY <1>9 DEF AddNewConn, RemoveConn, OtherTypes
  <2>3. gpc' \in [Conns -> {"none", "list", "verify", "add", "announce", "live", "closed"}]
    BY <1>9 DEF AddNewConn, RemoveConn, OtherTypes
  <2> QED BY <1>9, <2>1, <2>2, <2>3 DEF AddNewConn, RemoveConn, OtherTypes
<1>10. ASSUME NEW c \in Conns, InitConnect(c) PROVE OtherTypes'
  BY <1>10 DEF InitConnect, OtherTypes
<1>11. ASSUME NEW c \in Conns, NEW r \in Requests, SendRequest(r, c) PROVE OtherTypes'
  BY <1>11 DEF SendRequest, OtherTypes
<1>12. ASSUME NEW c \in Conns, EndStream(c) PROVE OtherTypes'
  <2>1. job' \in [Requests -> {"none", "queued", "running", "over"}]
    BY <1>12 DEF EndStream, OtherTypes
  <2> QED BY <1>12, <2>1 DEF EndStream, OtherTypes
<1>13. ASSUME NEW w \in Waiters, WaitReady(w) PROVE OtherTypes'
  BY <1>13 DEF WaitReady, OtherTypes
<1>14. ASSUME NEW r \in Requests, Respond(r) PROVE OtherTypes'
  BY <1>14 DEF Respond, OtherTypes
<1>15. ASSUME NEW o \in {"SupportAccount", "AddNewAddress", "RemoveAddress"}, Change(o) PROVE OtherTypes'
  <2>1. supports' \in BOOLEAN /\ hasKey' \in BOOLEAN
    BY <1>15 DEF Change, OtherTypes
  <2>2. op' = o /\ upc' = "read" /\ UNCHANGED <<loop, waiting, work, gateway, id, reached, knew>>
    BY <1>15 DEF Change
  <2> QED BY <1>15, <2>1, <2>2 DEF OtherTypes
<1>16. CASE ReadChannel
  <2>1. id' \in {NoId} \cup Conns
    BY <1>16 DEF ReadChannel, OtherTypes
  <2> QED BY <1>16, <2>1 DEF ReadChannel, OtherTypes
<1>17. CASE SupportNewAccount \/ GetConn \/ WalletDetail
  <2>1. reached' \subseteq Conns
    BY <1>17 DEF SupportNewAccount, GetConn, WalletDetail, Registered, OtherTypes
  <2>2. support' \in BOOLEAN
    BY <1>17 DEF SupportNewAccount, GetConn, WalletDetail, OtherTypes
  <2>3. upc' \in {"detail", "add", "ok", "failed"} /\ UNCHANGED <<op, id, loop, waiting, work, own>>
    BY <1>17 DEF SupportNewAccount, GetConn, WalletDetail, UpdateGoto
  <2>4. UNCHANGED <<gpc, policy, listed, routed, knew>>
    BY <1>17 DEF SupportNewAccount, GetConn, WalletDetail
  <2> QED BY <2>1, <2>2, <2>3, <2>4 DEF OtherTypes
<1>18. CASE AddNewAddress \/ RemoveAddress
  <2>1. routed' \in [Conns -> BOOLEAN]
    BY <1>18 DEF AddNewAddress, RemoveAddress, OtherTypes
  <2>2. reached' \subseteq Conns
    BY <1>18 DEF AddNewAddress, RemoveAddress, Registered, OtherTypes
  <2> QED BY <1>18, <2>1, <2>2 DEF AddNewAddress, RemoveAddress, UpdateGoto, OtherTypes
<1>19. CASE UNCHANGED vars
  BY <1>19 DEF vars, OtherTypes
<1> QED BY <1>1, <1>2, <1>3, <1>4, <1>5, <1>6, <1>7, <1>8, <1>9, <1>10, <1>11, <1>12, <1>13, <1>14,
           <1>15, <1>16, <1>17, <1>18, <1>19 DEF Next, LoopStep, Receive, GatewayStep, UpdateStep

LEMMA TypeStep == TypeOK /\ Opens /\ [Next]_vars => TypeOK'
<1>1. (Streams /\ OtherTypes)' => TypeOK'
  BY TypeParts DEF TypeOK, Streams, OtherTypes, Events
<1> QED BY <1>1, TypeParts, StreamsStep, OtherTypesStep

----------------------------------------------------------------------------
(* The announcement.                                                       *)

LEMMA InitTold == Init => Told /\ Looping
<1> SUFFICES ASSUME Init PROVE Told /\ Looping
  OBVIOUS
<1>1. /\ conn = NoId /\ pc = "call" /\ readyCh = 0 /\ \A r \in Requests : job[r] = "none"
      /\ \A c \in Conns : gpc[c] = "none" /\ stream[c] = <<>>
  BY DEF Init
<1>2. \A c \in Conns : stream[c] = <<>> => 1..Len(stream[c]) = {}
  BY EmptyInterval
<1>3. Told
  BY <1>1, <1>2 DEF Told, NotOpened, AnnouncedOnce, ToldOnce, Telling
<1> QED BY <1>1, <1>3 DEF Looping, Stored, NoTokenYet, Opens, OneHandled

\* A step that no loop, and no event, takes part in.
LEMMA QuietTold ==
  ASSUME TypeOK, Told, UNCHANGED <<pc, conn, readyCh>>,
         \A c \in Conns : stream'[c] = stream[c] \/ stream'[c] = <<>>,
         \A c \in Conns : Announced(c) => Announced(c)',
         \A c \in Conns : gpc[c] = "none" => gpc'[c] = "none"
  PROVE  Told'
<1>1. NotOpened'
  BY DEF Told, NotOpened
<1>2. AnnouncedOnce'
  BY EmptyInterval DEF Told, AnnouncedOnce
<1>3. ToldOnce'
  BY EmptyInterval DEF Told, ToldOnce, Telling
<1> QED BY <1>1, <1>2, <1>3 DEF Told

\* Once an event is in a queue it is there behind the ones before it.
LEMMA Appended ==
  ASSUME NEW s \in Seq(Events), NEW e \in Events
  PROVE  /\ Len(Append(s, e)) = Len(s) + 1 /\ Len(s) \in Nat
         /\ \A i \in 1..Len(s) : Append(s, e)[i] = s[i]
         /\ Append(s, e)[Len(s) + 1] = e
BY AppendProperties

LEMMA Behind ==
  ASSUME NEW s \in Seq(Events), s # <<>>
  PROVE  /\ Len(Tail(s)) = Len(s) - 1 /\ Len(s) \in Nat /\ Len(s) >= 1 /\ Head(s) = s[1]
         /\ \A i \in 1..Len(Tail(s)) : Tail(s)[i] = s[i + 1]
BY HeadTailProperties, EmptySeq

LEMMA SendTold ==
  ASSUME TypeOK, Told, NEW c \in Conns, NEW r \in Requests, SendRequest(r, c), c \notin ended
  PROVE  Told'
<1>1. /\ stream[c] \in Seq(Events) /\ stream' = [stream EXCEPT ![c] = Append(@, r)]
      /\ UNCHANGED <<pc, conn, readyCh, gpc>> /\ r \in Events /\ r # "InitConnect"
      /\ gpc[c] # "none" /\ conn \in Int
  BY NamesAssumption, TypeParts
     DEF Streams, OtherTypes, SendRequest, Push, Registered, loop, gateway, Events, Conns, NoId
<1>2. \A x \in Conns : stream'[x] = IF x = c THEN Append(stream[c], r) ELSE stream[x]
  BY <1>1, TypeParts DEF Streams
<1>3. ASSUME NEW x \in Conns, NEW i \in 1..Len(stream'[x]), stream'[x][i] = "InitConnect"
      PROVE  i \in 1..Len(stream[x]) /\ stream[x][i] = "InitConnect"
  <2>1. CASE x = c
    <3>1. i \in 1..Len(stream[c]) \/ i = Len(stream[c]) + 1
      BY <1>1, <1>2, <1>3, <2>1, Appended
    <3> QED BY <1>1, <1>2, <1>3, <2>1, <3>1, Appended
  <2> QED BY <1>2, <1>3, <2>1
<1>4. NotOpened'
  BY <1>1, <1>2 DEF Told, NotOpened
<1>5. AnnouncedOnce'
  BY <1>1, <1>3 DEF Told, AnnouncedOnce, Announced
<1>6. ToldOnce'
  BY <1>1, <1>3 DEF Told, ToldOnce, Telling, Announced
<1> QED BY <1>4, <1>5, <1>6 DEF Told

LEMMA InitConnectTold ==
  ASSUME TypeOK, Told, NEW c \in Conns, InitConnect(c), c \notin ended
  PROVE  Told'
<1>1. /\ stream[c] \in Seq(Events) /\ stream' = [stream EXCEPT ![c] = Append(@, "InitConnect")]
      /\ UNCHANGED <<pc, conn, readyCh>> /\ "InitConnect" \in Events
      /\ gpc[c] = "announce" /\ conn \in Int
  BY TypeParts DEF Streams, OtherTypes, InitConnect, Push, loop, Events, Conns, NoId
<1>2. \A x \in Conns : stream'[x] = IF x = c THEN Append(stream[c], "InitConnect") ELSE stream[x]
  BY <1>1, TypeParts DEF Streams
<1>3. \A x \in Conns : gpc'[x] = IF x = c THEN "live" ELSE gpc[x]
  BY TypeParts DEF OtherTypes, InitConnect
<1>4. \A i \in 1..Len(stream[c]) : stream[c][i] # "InitConnect"
  BY <1>1 DEF Told, AnnouncedOnce, Announced
<1>5. ASSUME NEW i \in 1..Len(stream'[c]), stream'[c][i] = "InitConnect"
      PROVE  i = Len(stream[c]) + 1
  <2>1. i \in 1..Len(stream[c]) \/ i = Len(stream[c]) + 1
    BY <1>1, <1>2, Appended
  <2> QED BY <1>1, <1>2, <1>4, <1>5, <2>1, Appended
<1>6. NotOpened'
  BY <1>1, <1>2, <1>3 DEF Told, NotOpened
<1>7. AnnouncedOnce'
  BY <1>2, <1>3, <1>5 DEF Told, AnnouncedOnce, Announced
<1>8. ToldOnce'
  <2>1. Telling => conn # c
    BY <1>1 DEF Told, ToldOnce, Announced
  <2> QED BY <1>1, <1>2, <1>3, <2>1 DEF Told, ToldOnce, Telling, Announced
<1> QED BY <1>6, <1>7, <1>8 DEF Told

LEMMA ReceiveTold ==
  ASSUME TypeOK, Told, Looping, NEW e, ReceiveEvent(e), UNCHANGED <<conn, readyCh, gpc>>,
         pc' \in {"assign", "ready"} => e = "InitConnect"
  PROVE  Told'
<1>1. /\ conn \in Conns /\ stream[conn] # <<>> /\ stream[conn] \in Seq(Events)
      /\ e = Head(stream[conn]) /\ stream' = [stream EXCEPT ![conn] = Tail(@)]
  BY TypeParts DEF Streams, ReceiveEvent, Looping, Opens
<1>2. \A x \in Conns : stream'[x] = IF x = conn THEN Tail(stream[conn]) ELSE stream[x]
  BY <1>1, TypeParts DEF Streams
<1>3. ASSUME NEW i \in 1..Len(stream'[conn]), stream'[conn][i] = "InitConnect"
      PROVE  /\ i \in Nat /\ i + 1 \in 1..Len(stream[conn]) /\ stream[conn][i + 1] = "InitConnect"
  <2>1. PICK s \in Seq(Events) : s = stream[conn]
    BY <1>1
  <2>2. stream'[conn] = Tail(s) /\ s # <<>>
    BY <1>1, <1>2, <2>1
  <2>3. /\ Len(Tail(s)) = Len(s) - 1 /\ Len(s) \in Nat
        /\ \A j \in 1..Len(Tail(s)) : Tail(s)[j] = s[j + 1]
    BY <2>2, Behind
  <2>4. i \in 1..Len(Tail(s)) /\ Tail(s)[i] = "InitConnect"
    BY <1>3, <2>2
  <2> QED BY <2>1, <2>3, <2>4
<1>4. 1 \in 1..Len(stream[conn]) /\ stream[conn][1] = e
  BY <1>1, Behind
<1>5. NotOpened'
  <2>1. conn \in Int
    BY <1>1 DEF Conns
  <2> QED BY <1>2, <2>1 DEF Told, NotOpened
<1>6. AnnouncedOnce'
  <2>1. ASSUME NEW i \in 1..Len(stream'[conn]), stream'[conn][i] = "InitConnect",
               NEW j \in 1..Len(stream'[conn]), stream'[conn][j] = "InitConnect"
        PROVE  Announced(conn) /\ j = i
    <3>1. i + 1 = j + 1 /\ Announced(conn)
      BY <1>1, <1>3, <2>1 DEF Told, AnnouncedOnce
    <3> QED BY <1>3, <2>1, <3>1
  <2> QED BY <1>2, <2>1 DEF Told, AnnouncedOnce, Announced
<1>7. ToldOnce'
  <2>1. SUFFICES ASSUME Telling'
                 PROVE  Announced(conn) /\ \A i \in 1..Len(stream'[conn]) : stream'[conn][i] # "InitConnect"
    BY <1>1 DEF ToldOnce, Announced
  <2>2. CASE Telling
    <3>1. Announced(conn) /\ \A i \in 1..Len(stream[conn]) : stream[conn][i] # "InitConnect"
      BY <2>2 DEF Told, ToldOnce
    <3> QED BY <1>3, <3>1
  <2>3. CASE e = "InitConnect"
    <3>1. Announced(conn) /\ \A j \in 1..Len(stream[conn]) : stream[conn][j] = "InitConnect" => j = 1
      BY <1>1, <1>4, <2>3 DEF Told, AnnouncedOnce
    <3>2. ASSUME NEW i \in 1..Len(stream'[conn]), stream'[conn][i] = "InitConnect" PROVE FALSE
      <4>1. i + 1 = 1
        BY <1>3, <3>1, <3>2
      <4> QED BY <1>3, <3>2, <4>1
    <3> QED BY <3>1, <3>2
  <2> QED BY <2>1, <2>2, <2>3 DEF Telling
<1> QED BY <1>5, <1>6, <1>7 DEF Told

LEMMA ListenTold ==
  ASSUME TypeOK, Told, Looping, NEW c \in Conns, ListenOnce(c)
  PROVE  Told'
<1>1. /\ c = conn + 1 /\ conn' = c /\ conn \in Int /\ pc' = "range" /\ readyCh' = 0
      /\ gpc[c] = "none" /\ stream[c] = <<>>
  BY TypeParts DEF OtherTypes, ListenOnce, Policy, Conns, NoId, Told, NotOpened, Looping, NoTokenYet
<1>2. \A x \in Conns : stream'[x] = stream[x] \/ (x = c /\ stream'[x] = <<"WalletList">>)
  BY TypeParts DEF Streams, ListenOnce, Policy
<1>3. gpc'[c] \in {"list", "announce"} /\ \A x \in Conns : x # c => gpc'[x] = gpc[x]
  BY TypeParts DEF OtherTypes, ListenOnce, Policy
<1>4. NotOpened'
  BY <1>1, <1>2, <1>3 DEF Told, NotOpened, Conns
<1>5. AnnouncedOnce'
  <2>1. \A i \in 1..Len(stream'[c]) : stream'[c][i] # "InitConnect"
    BY <1>1, <1>2, EmptyInterval
  <2> QED BY <1>2, <1>3, <2>1 DEF Told, AnnouncedOnce, Announced
<1>6. ToldOnce'
  BY <1>1 DEF ToldOnce, Telling
<1> QED BY <1>4, <1>5, <1>6 DEF Told

\* What the loop does between two events.
LEMMA LoopTold ==
  ASSUME TypeOK, Told, UNCHANGED <<conn, stream, gpc>>, Telling' => Telling
  PROVE  Told'
<1>1. NotOpened'
  BY DEF Told, NotOpened
<1>2. AnnouncedOnce'
  <2>1. AnnouncedOnce
    BY DEF Told
  <2> QED BY <2>1 DEF AnnouncedOnce, Announced
<1>3. ToldOnce'
  <2>1. ToldOnce
    BY DEF Told
  <2> QED BY <2>1 DEF ToldOnce, Announced
<1> QED BY <1>1, <1>2, <1>3 DEF Told

LEMMA ToldStep == IInv /\ [Next]_vars => Told'
<1> SUFFICES ASSUME IInv, [Next]_vars PROVE Told'
  OBVIOUS
<1> USE DEF IInv, loop, work, own, gateway, update
<1>0. /\ stream \in [Conns -> Seq(Events)]
      /\ gpc \in [Conns -> {"none", "list", "verify", "add", "announce", "live", "closed"}]
  BY TypeParts DEF Streams, OtherTypes
<1>1. CASE Receive
  <2>1. PICK e : /\ ReceiveEvent(e) /\ UNCHANGED <<conn, readyCh, gpc>>
                 /\ pc' \in {"assign", "ready"} => e = "InitConnect"
    <3>1. CASE ReceiveInitConnect
      BY <3>1 DEF ReceiveInitConnect, OnInitConnect
    <3>2. CASE ReceiveWalletList
      BY <3>2 DEF ReceiveWalletList, ReceiveEvent
    <3>3. ASSUME NEW r \in Requests, ReceiveRequest(r)
          PROVE  /\ ReceiveEvent(r) /\ UNCHANGED <<conn, readyCh, gpc>>
                 /\ pc' \in {"assign", "ready"} => r = "InitConnect"
      BY <3>3 DEF ReceiveRequest, Started
    <3> QED BY <1>1, <3>1, <3>2, <3>3 DEF Receive
  <2> QED BY <2>1, ReceiveTold
<1>2. CASE \/ AssignChannel \/ SendReady \/ EndRange \/ Restart \/ Stop \/ ListenFails
           \/ \E w \in Waiters : WaitReady(w)
           \/ \E r \in Requests : Respond(r)
  BY <1>2, LoopTold DEF AssignChannel, SendReady, EndRange, Restart, Cleared, Stop, ListenFails, WaitReady, Respond, Telling
<1>3. ASSUME NEW c \in Conns, ListenOnce(c) PROVE Told'
  BY <1>3, ListenTold
<1>4. ASSUME NEW c \in Conns, GatewayStep(c) PROVE Told'
  <2>1. CASE VerifyAddress(c) \/ GiveUp(c) \/ AddNewConn(c) \/ RemoveConn(c)
    <3>1. /\ UNCHANGED <<pc, conn, readyCh, stream>>
          /\ gpc[c] # "none" /\ (Announced(c) => gpc'[c] = "closed")
          /\ \A x \in Conns : x # c => gpc'[x] = gpc[x]
      BY <1>0, <2>1 DEF VerifyAddress, GiveUp, AddNewConn, RemoveConn, Announced
    <3> QED BY <3>1, QuietTold DEF Announced
  <2>2. CASE InitConnect(c)
    <3>1. CASE c \in ended
      <4>1. /\ UNCHANGED <<pc, conn, readyCh, stream>> /\ gpc[c] = "announce" /\ gpc'[c] = "live"
            /\ \A x \in Conns : x # c => gpc'[x] = gpc[x]
        BY <1>0, <2>2, <3>1 DEF InitConnect, Push
      <4> QED BY <4>1, QuietTold DEF Announced
    <3> QED BY <2>2, <3>1, InitConnectTold
  <2>3. ASSUME NEW r \in Requests, SendRequest(r, c) PROVE Told'
    <3>1. CASE c \in ended
      BY <2>3, <3>1, QuietTold DEF SendRequest, Push, Announced
    <3> QED BY <2>3, <3>1, SendTold
  <2> QED BY <1>4, <2>1, <2>2, <2>3 DEF GatewayStep
<1>5. ASSUME NEW c \in Conns, WalletList(c) PROVE Told'
  <2>1. /\ UNCHANGED <<pc, conn, readyCh, stream>>
        /\ gpc' = gpc \/ gpc[c] = "list"
        /\ \A x \in Conns : x # c => gpc'[x] = gpc[x]
    BY <1>0, <1>5 DEF WalletList
  <2> QED BY <2>1, QuietTold DEF Announced
<1>6. ASSUME NEW c \in Conns, EndStream(c) PROVE Told'
  <2>1. \A x \in Conns : stream'[x] = stream[x] \/ stream'[x] = <<>>
    BY <1>0, <1>6 DEF EndStream
  <2> QED BY <1>6, <2>1, QuietTold DEF EndStream, Announced
<1>7. CASE UpdateStep
  <2>1. UNCHANGED <<pc, conn, readyCh, stream, gpc>>
    BY <1>7 DEF UpdateStep, Change, ReadChannel, SupportNewAccount, GetConn, AddNewAddress, WalletDetail,
       RemoveAddress
  <2> QED BY <2>1, QuietTold DEF Announced
<1>8. CASE UNCHANGED vars
  BY <1>8, QuietTold DEF vars, Announced
<1> QED BY <1>1, <1>2, <1>3, <1>4, <1>5, <1>6, <1>7, <1>8 DEF Next, LoopStep

----------------------------------------------------------------------------
(* The loop.                                                               *)

LEMMA LoopingStep == IInv /\ [Next]_vars => Looping'
<1> SUFFICES ASSUME IInv, [Next]_vars PROVE Looping'
  OBVIOUS
<1> USE DEF IInv, loop, work, own, gateway, update
<1>0. /\ job \in [Requests -> {"none", "queued", "running", "over"}]
      /\ conn \in {NoId} \cup Conns
  BY TypeParts DEF OtherTypes
<1>1. CASE ReceiveInitConnect \/ ReceiveWalletList
  <2>1. CASE ReceiveInitConnect
    <3>1. /\ conn \in Conns /\ pc = "range" /\ stream[conn] \in Seq(Events) /\ stream[conn] # <<>>
          /\ Head(stream[conn]) = "InitConnect" /\ readyCh \in 0..1
      BY <2>1, TypeParts DEF Streams, OtherTypes, ReceiveInitConnect, OnInitConnect, ReceiveEvent, Looping, Opens
    <3>2. ~Telling
      <4>1. 1 \in 1..Len(stream[conn]) /\ stream[conn][1] = "InitConnect"
        BY <3>1, Behind
      <4> QED BY <4>1 DEF Told, ToldOnce
    <3>3. readyCh = 0
      BY <3>1, <3>2 DEF Telling
    <3> QED BY <2>1, <3>1, <3>3 DEF ReceiveInitConnect, OnInitConnect, Looping, Stored, NoTokenYet, Opens, OneHandled
  <2>2. CASE ReceiveWalletList
    BY <2>2 DEF ReceiveWalletList, Looping, Stored, NoTokenYet, Opens, OneHandled
  <2> QED BY <1>1, <2>1, <2>2
<1>2. ASSUME NEW r \in Requests, ReceiveRequest(r) PROVE Looping'
  <2>1. (Stored /\ NoTokenYet /\ Opens)'
    BY <1>2 DEF ReceiveRequest, Started, ReceiveEvent, Looping, Stored, NoTokenYet, Opens
  <2>2. OneHandled'
    BY <1>0, <1>2 DEF ReceiveRequest, Started, ReceiveEvent, Looping, OneHandled
  <2> QED BY <2>1, <2>2 DEF Looping
<1>3. CASE AssignChannel \/ SendReady
  BY <1>0, <1>3 DEF AssignChannel, SendReady, Looping, Stored, NoTokenYet, Opens, OneHandled
<1>4. CASE EndRange \/ Restart \/ Stop \/ ListenFails
  BY <1>4 DEF EndRange, Restart, Cleared, Stop, ListenFails, Looping, Stored, NoTokenYet, Opens, OneHandled
<1>5. ASSUME NEW c \in Conns, ListenOnce(c) PROVE Looping'
  BY <1>5 DEF ListenOnce, Policy, Looping, Stored, NoTokenYet, Opens, OneHandled
<1>6. ASSUME NEW w \in Waiters, WaitReady(w) PROVE Looping'
  BY <1>6 DEF WaitReady, Looping, Stored, NoTokenYet, Opens, OneHandled
<1>7. ASSUME NEW r \in Requests, Respond(r) PROVE Looping'
  <2>1. OneHandled'
    BY <1>0, <1>7 DEF Respond, Looping, OneHandled
  <2>2. (Stored /\ NoTokenYet /\ Opens)'
    <3>1. \/ pc' = pc
          \/ pc = "handle" /\ pc' = "range"
      <4>1. kind \in {"wallet", "miner"}
        BY TypeParts DEF OtherTypes
      <4>2. CASE kind = "wallet"
        BY <1>7, <4>2 DEF Respond
      <4>3. CASE kind = "miner"
        BY <1>7, <4>3 DEF Respond, Looping, OneHandled
      <4> QED BY <4>1, <4>2, <4>3
    <3>2. UNCHANGED <<kind, conn, readyCh, channel>>
      BY <1>7 DEF Respond
    <3> QED BY <3>1, <3>2 DEF Looping, Stored, NoTokenYet, Opens
  <2> QED BY <2>1, <2>2 DEF Looping
<1>8. ASSUME UNCHANGED loop, \A r \in Requests : job'[r] = "running" => job[r] = "running"
      PROVE  Looping'
  BY <1>8 DEF Looping, Stored, NoTokenYet, Opens, OneHandled
<1>9. ASSUME NEW c \in Conns, WalletList(c) \/ GatewayStep(c) \/ EndStream(c) PROVE Looping'
  <2>1. ASSUME NEW r \in Requests, SendRequest(r, c) PROVE Looping'
    BY <1>0, <1>8, <2>1 DEF SendRequest
  <2>2. CASE EndStream(c)
    BY <1>8, <2>2 DEF EndStream
  <2>3. CASE WalletList(c) \/ VerifyAddress(c) \/ GiveUp(c) \/ AddNewConn(c) \/ InitConnect(c) \/ RemoveConn(c)
    BY <1>8, <2>3 DEF WalletList, VerifyAddress, GiveUp, AddNewConn, InitConnect, RemoveConn
  <2> QED BY <1>9, <2>1, <2>2, <2>3 DEF GatewayStep
<1>10. CASE UpdateStep
  BY <1>8, <1>10 DEF UpdateStep, Change, ReadChannel, SupportNewAccount, GetConn, AddNewAddress,
     WalletDetail, RemoveAddress
<1>11. CASE UNCHANGED vars
  BY <1>8, <1>11 DEF vars
<1> QED BY <1>1, <1>2, <1>3, <1>4, <1>5, <1>6, <1>7, <1>9, <1>10, <1>11 DEF Next, LoopStep, Receive

----------------------------------------------------------------------------
(* Theorems.                                                               *)

THEOREM Inductive == Spec => []IInv
<1>1. Init => IInv
  BY TypeInit, InitTold DEF IInv
<1>2. IInv /\ [Next]_vars => IInv'
  BY TypeStep, ToldStep, LoopingStep DEF IInv, Looping
<1> QED BY <1>1, <1>2, PTL DEF Spec

\* The values the code can give its variables, whatever the numbers of
\* connections, requests and waiters; in particular readyCh holds one token at most.
THEOREM TypeCorrect == Spec => []TypeOK
<1>1. IInv => TypeOK
  BY DEF IInv
<1> QED BY <1>1, Inductive, PTL

\* Whoever WaitReady wakes is told of a connection the gateway has announced, the
\* one whose id e.channel holds, and sending on readyCh never blocks the loop.
THEOREM ReadinessIsFresh == Spec => []ReadyIsFresh
<1>1. ASSUME IInv, readyCh = 1
      PROVE  /\ pc \notin {"call", "assign"}
             /\ conn # NoId /\ gpc[conn] \in {"live", "closed"}
             /\ kind = "wallet" => channel = conn
  <2>1. conn \in Conns /\ Announced(conn)
    BY <1>1 DEF IInv, Told, ToldOnce, Telling
  <2>2. pc \notin {"call", "assign"}
    BY <1>1 DEF IInv, Looping, NoTokenYet
  <2>3. kind = "wallet" => channel = conn
    BY <1>1 DEF IInv, Looping, Stored
  <2> QED BY <2>1, <2>2, <2>3 DEF Announced, Conns, NoId
<1>2. IInv => ReadyIsFresh
  <2>1. IInv /\ pc = "ready" => readyCh = 0
    BY DEF IInv, Looping, NoTokenYet
  <2> QED BY <1>1, <2>1 DEF ReadyIsFresh
<1> QED BY <1>2, Inductive, PTL

----------------------------------------------------------------------------
(* The update.                                                             *)
(*                                                                         *)
(* The argument: a connection reflects the update from the moment it is    *)
(* both registered and either reached or told, and nothing takes that away *)
(* while it is registered: the wallet's entry, which holds the accounts,   *)
(* outlives each of its connections, and the addresses of a connection are *)
(* changed by the one update only, which is applied once.                  *)

\* The update is made once, and applied once.
Unapplied ==
    /\ op = "none" <=> upc = "idle"
    /\ op = "none" => knew = {}
    /\ op # "none" => kind = "wallet"
    /\ upc \in {"idle", "read", "sent", "add"} => reached = {}
    /\ upc = "add" => op = "AddNewAddress"

\* What the wallet has changed stays changed.
Changed ==
    /\ op = "SupportAccount" => supports
    /\ op = "AddNewAddress" => hasKey
    /\ op = "RemoveAddress" => ~hasKey

\* A connection that was told the new data is registered with them.
Knows(c) ==
    /\ op = "SupportAccount" => gpc[c] # "none" /\ policy[c]
    /\ op \in {"AddNewAddress", "RemoveAddress"} =>
         gpc[c] \notin {"none", "list"} /\ (listed[c] <=> op = "AddNewAddress")

\* One that was reached had been registered, and is not registered again.
Reached(c) == gpc[c] \in {"announce", "live", "closed"}

\* Reflects, by cases that are implications.
Shows(c) ==
    /\ op = "SupportAccount" => support
    /\ op = "AddNewAddress" => routed[c]
    /\ op = "RemoveAddress" => ~routed[c]

Reflected == \A c \in Registered : c \in reached \cup knew => Shows(c)

UpdateInv ==
    /\ Unapplied /\ Changed /\ Reflected
    /\ \A c \in knew : Knows(c)
    /\ \A c \in reached : Reached(c)

\* A step that changes no data, and of the gateway's goroutines at most registers none.
LEMMA UpdateUnmoved ==
  ASSUME UpdateInv, UNCHANGED <<kind, own, policy, listed, routed, update, knew>>,
         \A c \in Conns : gpc'[c] = gpc[c] \/ (gpc[c] = "list" /\ gpc'[c] = "verify")
                          \/ (gpc[c] = "verify" /\ gpc'[c] = "add")
                          \/ (gpc[c] = "announce" /\ gpc'[c] = "live") \/ (gpc[c] # "none" /\ gpc'[c] = "closed"),
         (\E c \in Registered : c \in Registered') => (support => support'),
         knew \subseteq Conns, reached \subseteq Conns
  PROVE  UpdateInv'
<1> USE DEF own, update
<1>1. Unapplied' /\ Changed'
  BY DEF UpdateInv, Unapplied, Changed
<1>2. Reflected'
  <2> SUFFICES ASSUME NEW c \in Registered', c \in reached \cup knew PROVE Shows(c)'
    BY DEF Reflected
  <2>1. c \in Registered /\ Shows(c)
    BY DEF Registered, UpdateInv, Reflected
  <2> QED BY <2>1 DEF Shows
<1>3. \A c \in knew : Knows(c)'
  BY DEF UpdateInv, Knows
<1>4. \A c \in reached : Reached(c)'
  BY DEF UpdateInv, Reached
<1> QED BY <1>1, <1>2, <1>3, <1>4 DEF UpdateInv

LEMMA UpdateOfListen ==
  ASSUME IInv, UpdateInv, NEW c \in Conns, ListenOnce(c)
  PROVE  UpdateInv'
<1> USE DEF own, update
<1>0. /\ gpc \in [Conns -> {"none", "list", "verify", "add", "announce", "live", "closed"}]
      /\ policy \in [Conns -> BOOLEAN] /\ conn \in Int /\ c = conn + 1 /\ c \in Int
      /\ kind \in {"wallet", "miner"}
  BY TypeParts DEF IInv, OtherTypes, ListenOnce, Conns, NoId
<1>1. /\ gpc[c] = "none" /\ UNCHANGED <<kind, own, listed, routed, support, update>>
      /\ policy' = [policy EXCEPT ![c] = supports]
      /\ knew' = IF op = "SupportAccount" THEN knew \cup {c} ELSE knew
  BY <1>0 DEF IInv, Told, NotOpened, ListenOnce, Policy
<1>2. \E p \in {"list", "announce"} : gpc' = [gpc EXCEPT ![c] = p] /\ (p = "announce" => op = "none")
  BY <1>0 DEF ListenOnce, UpdateInv, Unapplied
<1>3. Unapplied' /\ Changed'
  BY <1>1 DEF UpdateInv, Unapplied, Changed
<1>4. \A x \in reached : Reached(x)'
  BY <1>0, <1>1, <1>2 DEF UpdateInv, Reached
<1>5. \A x \in knew' : Knows(x)'
  <2>1. ASSUME NEW x \in knew PROVE Knows(x)'
    <3>1. Knows(x) /\ x \in Conns /\ op # "none"
      BY TypeParts DEF UpdateInv, IInv, OtherTypes, Unapplied
    <3>2. CASE x # c
      <4>1. gpc'[x] = gpc[x] /\ policy'[x] = policy[x]
        BY <1>0, <1>1, <1>2, <3>1, <3>2
      <4> QED BY <1>1, <3>1, <4>1 DEF Knows
    <3>3. CASE x = c
      BY <1>1, <3>1, <3>3, TypeParts DEF Knows, IInv, OtherTypes
    <3> QED BY <3>2, <3>3
  <2>2. op = "SupportAccount" => Knows(c)'
    BY <1>0, <1>1, <1>2 DEF Knows, UpdateInv, Changed
  <2> QED BY <1>1, <2>1, <2>2
<1>6. Reflected'
  <2> SUFFICES ASSUME NEW x \in Registered', x \in reached' \cup knew' PROVE Shows(x)'
    BY DEF Reflected
  <2>1. CASE x = c
    <3>1. op = "none"
      BY <1>0, <1>2, <2>1 DEF Registered
    <3> QED BY <1>1, <3>1 DEF Shows
  <2>2. CASE x # c
    <3>1. x \in Registered /\ x \in reached \cup knew
      BY <1>0, <1>1, <1>2, <2>2 DEF Registered
    <3> QED BY <1>1, <3>1 DEF UpdateInv, Reflected, Shows
  <2> QED BY <2>1, <2>2
<1> QED BY <1>1, <1>3, <1>4, <1>5, <1>6 DEF UpdateInv

LEMMA UpdateOfList ==
  ASSUME IInv, UpdateInv, NEW c \in Conns, WalletList(c)
  PROVE  UpdateInv'
<1> USE DEF own, update
<1>0. /\ gpc \in [Conns -> {"none", "list", "verify", "add", "announce", "live", "closed"}]
      /\ listed \in [Conns -> BOOLEAN] /\ knew \subseteq Conns /\ reached \subseteq Conns
      /\ op \in {"none", "SupportAccount", "AddNewAddress", "RemoveAddress"}
  BY TypeParts DEF IInv, OtherTypes
<1>1. UNCHANGED <<kind, own, policy, routed, support, update>>
  BY DEF WalletList, loop
<1>2. CASE UNCHANGED <<gpc, listed, knew>>
  BY <1>0, <1>1, <1>2, UpdateUnmoved
<1>3. CASE /\ gpc[c] = "list" /\ gpc' = [gpc EXCEPT ![c] = "verify"]
           /\ listed' = [listed EXCEPT ![c] = hasKey]
           /\ knew' = IF op \in {"AddNewAddress", "RemoveAddress"} THEN knew \cup {c} ELSE knew
  <2>1. Unapplied' /\ Changed'
    BY <1>1, <1>3 DEF UpdateInv, Unapplied, Changed
  <2>2. \A x \in reached : Reached(x)'
    BY <1>0, <1>3 DEF UpdateInv, Reached
  <2>3. \A x \in knew' : Knows(x)'
    <3>1. ASSUME NEW x \in knew PROVE Knows(x)'
      BY <1>0, <1>1, <1>3 DEF UpdateInv, Knows, Changed
    <3>2. op \in {"AddNewAddress", "RemoveAddress"} => Knows(c)'
      BY <1>0, <1>1, <1>3 DEF Knows, UpdateInv, Changed
    <3> QED BY <1>3, <3>1, <3>2
  <2>4. Reflected'
    BY <1>0, <1>1, <1>3 DEF UpdateInv, Reflected, Registered, Shows
  <2> QED BY <1>1, <2>1, <2>2, <2>3, <2>4 DEF UpdateInv
<1> QED BY <1>2, <1>3 DEF WalletList

\* A connection is registered with what the wallet told: the accounts join those of the
\* entry, the addresses are its own.
LEMMA UpdateOfAdd ==
  ASSUME IInv, UpdateInv, NEW c \in Conns, AddNewConn(c)
  PROVE  UpdateInv'
<1> USE DEF own, update
<1>0. /\ gpc \in [Conns -> {"none", "list", "verify", "add", "announce", "live", "closed"}]
      /\ routed \in [Conns -> BOOLEAN] /\ knew \subseteq Conns /\ reached \subseteq Conns
  BY TypeParts DEF IInv, OtherTypes
<1>1. /\ gpc[c] = "add" /\ gpc' = [gpc EXCEPT ![c] = "announce"]
      /\ routed' = [routed EXCEPT ![c] = listed[c]] /\ support' = (support \/ policy[c])
      /\ UNCHANGED <<kind, own, policy, listed, update, knew>>
  BY DEF AddNewConn, loop
<1>2. Unapplied' /\ Changed'
  BY <1>1 DEF UpdateInv, Unapplied, Changed
<1>3. \A x \in reached : Reached(x)'
  BY <1>0, <1>1 DEF UpdateInv, Reached
<1>4. \A x \in knew : Knows(x)'
  BY <1>0, <1>1 DEF UpdateInv, Knows
<1>5. Reflected'
  <2> SUFFICES ASSUME NEW x \in Registered', x \in reached \cup knew PROVE Shows(x)'
    BY <1>1 DEF Reflected
  <2>1. CASE x = c
    <3>1. c \in knew
      BY <1>1, <2>1 DEF UpdateInv, Reached
    <3>2. Knows(c)
      BY <3>1 DEF UpdateInv
    <3>3. routed'[c] = listed[c]
      BY <1>0, <1>1
    <3> QED BY <1>1, <2>1, <3>2, <3>3 DEF Knows, Shows
  <2>2. CASE x # c
    <3>1. x \in Registered /\ routed'[x] = routed[x]
      BY <1>0, <1>1, <2>2 DEF Registered
    <3> QED BY <1>1, <3>1 DEF UpdateInv, Reflected, Shows
  <2> QED BY <2>1, <2>2
<1> QED BY <1>1, <1>2, <1>3, <1>4, <1>5 DEF UpdateInv

\* The update itself: the change, the call, and what the gateway makes of it.
LEMMA UpdateOfUpdate ==
  ASSUME IInv, UpdateInv, UpdateStep
  PROVE  UpdateInv'
<1> USE DEF own, update
<1>0. /\ routed \in [Conns -> BOOLEAN] /\ knew \subseteq Conns /\ reached \subseteq Conns
      /\ op \in {"none", "SupportAccount", "AddNewAddress", "RemoveAddress"} /\ id \in {NoId} \cup Conns
      /\ upc \in {"idle", "read", "sent", "add", "detail", "ok", "failed"}
      /\ hasKey \in BOOLEAN /\ Registered \subseteq Conns
  BY TypeParts DEF IInv, OtherTypes, Registered
<1>1. UNCHANGED <<kind, gpc, policy, listed, knew>>
  BY DEF UpdateStep, Change, ReadChannel, SupportNewAccount, GetConn, AddNewAddress, WalletDetail,
     RemoveAddress, loop, gateway
<1>2. UNCHANGED Registered
  BY <1>1 DEF Registered
<1>3. ASSUME NEW o \in {"SupportAccount", "AddNewAddress", "RemoveAddress"}, Change(o) PROVE UpdateInv'
  <2>1. /\ upc = "idle" /\ upc' = "read" /\ op' = o /\ kind = "wallet" /\ UNCHANGED <<id, reached, routed, support>>
    BY <1>3 DEF Change, gateway
  <2>2. op = "none" /\ knew = {} /\ reached = {}
    BY <2>1 DEF UpdateInv, Unapplied
  <2>3. Unapplied'
    BY <1>1, <2>1, <2>2 DEF Unapplied
  <2>4. Changed'
    BY <1>3, <2>1 DEF Change, Changed
  <2>5. Reflected'
    BY <1>1, <2>1, <2>2 DEF Reflected
  <2> QED BY <1>1, <2>1, <2>2, <2>3, <2>4, <2>5 DEF UpdateInv
<1>4. ASSUME UNCHANGED <<own, op, reached, routed, support>>, upc \notin {"idle", "ok", "failed"},
             upc' \notin {"idle", "read"},
             upc' \in {"sent", "add"} => reached = {}, upc' = "add" => op = "AddNewAddress"
      PROVE  UpdateInv'
  <2>1. Unapplied' /\ Changed'
    BY <1>1, <1>4 DEF UpdateInv, Unapplied, Changed
  <2>2. Reflected'
    BY <1>1, <1>2, <1>4 DEF UpdateInv, Reflected, Shows
  <2>3. (\A c \in knew : Knows(c)') /\ \A c \in reached : Reached(c)'
    BY <1>1, <1>4 DEF UpdateInv, Knows, Reached
  <2> QED BY <1>1, <1>4, <2>1, <2>2, <2>3 DEF UpdateInv
<1>5. CASE ReadChannel \/ GetConn \/ WalletDetail
  BY <1>4, <1>5 DEF ReadChannel, GetConn, WalletDetail, UpdateGoto, gateway, UpdateInv, Unapplied
<1>6. ASSUME UNCHANGED <<own, op>>, upc \in {"sent", "add"}, upc' \in {"detail", "ok"}, reached' \subseteq Registered,
             \A c \in Registered : c \in reached' => Shows(c)',
             \A c \in Registered : c \in knew /\ Shows(c) => Shows(c)'
      PROVE  UpdateInv'
  <2>1. Unapplied' /\ Changed'
    BY <1>1, <1>6 DEF UpdateInv, Unapplied, Changed
  <2>2. Reflected'
    BY <1>1, <1>2, <1>6 DEF UpdateInv, Reflected
  <2>3. \A c \in knew : Knows(c)'
    BY <1>1, <1>6 DEF UpdateInv, Knows
  <2>4. \A c \in reached' : Reached(c)'
    BY <1>1, <1>6 DEF Registered, Reached
  <2> QED BY <1>1, <2>1, <2>2, <2>3, <2>4 DEF UpdateInv
<1>7. CASE SupportNewAccount
  <2>1. /\ op = "SupportAccount" /\ UNCHANGED <<own, op, routed>> /\ upc = "sent" /\ upc' = "detail"
        /\ support' = (support \/ Registered # {}) /\ reached' = Registered
    BY <1>7 DEF SupportNewAccount, UpdateGoto
  <2> QED BY <1>6, <2>1 DEF Shows
<1>8. ASSUME NEW b \in BOOLEAN, id \in Registered, routed' = [routed EXCEPT ![id] = b], reached' = {id},
             op = IF b THEN "AddNewAddress" ELSE "RemoveAddress", upc \in {"sent", "add"}, upc' \in {"detail", "ok"},
             UNCHANGED <<own, op, support>>
      PROVE  UpdateInv'
  <2>1. \A c \in Registered : routed'[c] = IF c = id THEN b ELSE routed[c]
    BY <1>0, <1>8
  <2>2. ASSUME NEW c \in Registered, c = id PROVE Shows(c)'
    <3>1. routed'[c] = b
      BY <2>1, <2>2
    <3>2. CASE b = TRUE
      BY <1>8, <3>1, <3>2 DEF Shows
    <3>3. CASE b = FALSE
      BY <1>8, <3>1, <3>3 DEF Shows
    <3> QED BY <3>2, <3>3
  <2>3. ASSUME NEW c \in Registered, c # id, Shows(c) PROVE Shows(c)'
    <3>1. routed'[c] = routed[c]
      BY <2>1, <2>3
    <3> QED BY <1>8, <2>3, <3>1 DEF Shows
  <2> QED BY <1>6, <1>8, <2>2, <2>3
<1>9. CASE AddNewAddress
  <2>1. upc = "add" /\ op = "AddNewAddress" /\ reached = {} /\ UNCHANGED <<own, op, support>>
    BY <1>9 DEF AddNewAddress, UpdateGoto, UpdateInv, Unapplied
  <2>2. CASE id \in Registered /\ UpdateGoto("detail") /\ routed' = [routed EXCEPT ![id] = TRUE] /\ reached' = {id}
    BY <1>8, <2>1, <2>2 DEF UpdateGoto
  <2>3. CASE UNCHANGED <<routed, reached>> /\ (UpdateGoto("detail") \/ UpdateGoto("failed"))
    BY <1>4, <2>1, <2>3 DEF UpdateGoto
  <2> QED BY <1>9, <2>2, <2>3 DEF AddNewAddress
<1>10. CASE RemoveAddress
  <2>1. upc = "sent" /\ op = "RemoveAddress" /\ reached = {} /\ UNCHANGED <<own, op, support>>
    BY <1>10 DEF RemoveAddress, UpdateGoto, UpdateInv, Unapplied
  <2>2. CASE id \in Registered /\ UpdateGoto("ok") /\ routed' = [routed EXCEPT ![id] = FALSE] /\ reached' = {id}
    BY <1>8, <2>1, <2>2 DEF UpdateGoto
  <2>3. CASE UNCHANGED <<routed, reached>> /\ (UpdateGoto("ok") \/ UpdateGoto("failed"))
    BY <1>4, <2>1, <2>3 DEF UpdateGoto
  <2> QED BY <1>10, <2>2, <2>3 DEF RemoveAddress
<1> QED BY <1>3, <1>5, <1>7, <1>9, <1>10 DEF UpdateStep

LEMMA UpdateInvStep == IInv /\ UpdateInv /\ [Next]_vars => UpdateInv'
<1> SUFFICES ASSUME IInv, UpdateInv, [Next]_vars PROVE UpdateInv'
  OBVIOUS
<1> USE DEF loop, work, own, gateway, update
<1>0. /\ gpc \in [Conns -> {"none", "list", "verify", "add", "announce", "live", "closed"}]
      /\ knew \subseteq Conns /\ reached \subseteq Conns
  BY TypeParts DEF IInv, OtherTypes
<1>1. ASSUME UNCHANGED <<kind, own, gateway, update, knew>> PROVE UpdateInv'
  BY <1>0, <1>1, UpdateUnmoved
<1>2. CASE LoopStep \/ ListenFails
  BY <1>1, <1>2 DEF LoopStep, Receive, ReceiveInitConnect, ReceiveWalletList, ReceiveRequest, AssignChannel,
     SendReady, EndRange, Restart, Stop, ListenFails
<1>3. ASSUME NEW c \in Conns, EndStream(c) \/ (\E r \in Requests : SendRequest(r, c)) PROVE UpdateInv'
  BY <1>1, <1>3 DEF EndStream, SendRequest
<1>4. CASE (\E w \in Waiters : WaitReady(w)) \/ (\E r \in Requests : Respond(r)) \/ UNCHANGED vars
  BY <1>1, <1>4 DEF WaitReady, Respond, vars
<1>5. ASSUME NEW c \in Conns, VerifyAddress(c) \/ GiveUp(c) \/ InitConnect(c) PROVE UpdateInv'
  <2>1. UNCHANGED <<kind, own, policy, listed, routed, support, update, knew>>
    BY <1>5 DEF VerifyAddress, GiveUp, InitConnect
  <2>2. \A x \in Conns : gpc'[x] = gpc[x] \/ (gpc[x] = "verify" /\ gpc'[x] = "add")
           \/ (gpc[x] = "announce" /\ gpc'[x] = "live") \/ (gpc[x] # "none" /\ gpc'[x] = "closed")
    BY <1>0, <1>5 DEF VerifyAddress, GiveUp, InitConnect
  <2> QED BY <1>0, <2>1, <2>2, UpdateUnmoved
<1>6. ASSUME NEW c \in Conns, RemoveConn(c) PROVE UpdateInv'
  <2>1. /\ gpc[c] = "live" /\ gpc' = [gpc EXCEPT ![c] = "closed"] /\ support' = (support /\ Registered # {c})
        /\ UNCHANGED <<kind, own, policy, listed, routed, update, knew>>
    BY <1>6 DEF RemoveConn
  <2>2. Registered' = Registered \ {c}
    BY <1>0, <2>1 DEF Registered
  <2>3. (\E x \in Registered : x \in Registered') => (support => support')
    BY <2>1, <2>2
  <2>4. \A x \in Conns : gpc'[x] = gpc[x] \/ (gpc[x] # "none" /\ gpc'[x] = "closed")
    BY <1>0, <2>1
  <2> QED BY <1>0, <2>1, <2>3, <2>4, UpdateUnmoved
<1> QED BY <1>2, <1>3, <1>4, <1>5, <1>6, UpdateOfListen, UpdateOfList, UpdateOfAdd, UpdateOfUpdate
        DEF Next, GatewayStep

\* An update that succeeded is reflected by every registered connection that it was
\* applied to or that was told the new data, whatever ended and was opened meanwhile.
THEOREM UpdatesReach == Spec => []UpdateReaches
<1>1. Init => UpdateInv
  BY DEF Init, UpdateInv, Unapplied, Changed, Reflected, Registered
<1>2. IInv /\ UpdateInv /\ [Next]_vars => UpdateInv'
  BY UpdateInvStep
<1>3. IInv /\ UpdateInv => UpdateReaches
  <2> SUFFICES ASSUME IInv, UpdateInv, upc = "ok", NEW c \in Registered, c \in reached \cup knew
               PROVE  Reflects(c)
    BY DEF UpdateReaches
  <2>1. op \in {"SupportAccount", "AddNewAddress", "RemoveAddress"}
    BY TypeParts DEF IInv, OtherTypes, UpdateInv, Unapplied
  <2>2. Shows(c)
    BY DEF UpdateInv, Reflected
  <2> QED BY <2>1, <2>2 DEF Shows, Reflects
<1> QED BY <1>1, <1>2, <1>3, Inductive, PTL DEF Spec
=============================================================================
