------------------------- MODULE MarketStreamProofs -------------------------
(***************************************************************************)
(* Theorems about MarketStream: what getChannels and the list of miners    *)
(* can rely on, although connections are added outside connLk to a store   *)
(* that was looked up under it.                                            *)
(***************************************************************************)
EXTENDS MarketStream, TLAPS

\* Store s was created for miner m.
CreatedFor(s, m) == miner[s] = m /\ pc[s] # "idle"

\* The store a miner has in the map, the one a connection is about to be added to,
\* and the one it is held by were created for its miner.
MapOwn ==
    \A m \in Miners : minerConnections[m] # None => CreatedFor(minerConnections[m], m)

AddsOwn ==
    \A x \in Conns : pc[x] = "add" => store[x] \in Conns /\ CreatedFor(store[x], miner[x])

HeldOwn ==
    \A s, x \in Conns : x \in channels[s] =>
        CreatedFor(s, miner[x]) /\ pc[x] \notin {"idle", "add"}

MinersOwn == \A x \in Conns : pc[x] # "idle" => miner[x] \in Miners

\* A connection that has been taken out may still be in a store, but in none that is
\* in the map.
LeftIsUnlisted ==
    \A m \in Miners : minerConnections[m] # None =>
        \A x \in channels[minerConnections[m]] : pc[x] \notin {"close", "closed"}

\* A lookup that goes on has found a store.
FoundOwn == \A q \in Requests : qpc[q] = "found" => qstore[q] \in Conns

IInv ==
    TypeOK /\ FoundOwn /\ MapOwn /\ AddsOwn /\ HeldOwn /\ MinersOwn /\ LeftIsUnlisted /\ NoEmptyMiner

----------------------------------------------------------------------------
(* Types.                                                                  *)

LEMMA TypeInit == Init => TypeOK
BY DEF Init, TypeOK

LEMMA TypeStep == TypeOK /\ FoundOwn /\ [Next]_vars => TypeOK'
<1> SUFFICES ASSUME TypeOK, FoundOwn, [Next]_vars PROVE TypeOK'
  OBVIOUS
<1> USE DEF TypeOK, Goto, WriteMap, Put, conns, senders
<1>1. ASSUME NEW x \in Conns, NEW m \in Miners, ListenMarketEvent(x, m) PROVE TypeOK'
  BY <1>1 DEF ListenMarketEvent
<1>2. ASSUME NEW x \in Conns, AddChanel(x) PROVE TypeOK'
  <2>1. channels' \in [Conns -> SUBSET Conns]
    BY <1>2 DEF AddChanel
  <2> QED BY <1>2, <2>1 DEF AddChanel
<1>3. ASSUME NEW x \in Conns, InitConnect(x) PROVE TypeOK'
  <2>1. out' \in [Conns -> SUBSET (Requests \cup {Announcement})]
    BY <1>3 DEF InitConnect
  <2> QED BY <1>3, <2>1 DEF InitConnect
<1>4. ASSUME NEW x \in Conns, RemoveChanel(x) PROVE TypeOK'
  <2>1. channels' \in [Conns -> SUBSET Conns]
    BY <1>4 DEF RemoveChanel, Ended, Without, Empty
  <2>2. minerConnections' \in [Miners -> Conns \cup {None}]
    BY <1>4 DEF RemoveChanel, Ended, Without, Empty
  <2>3. pc' \in [Conns -> {"idle", "add", "init", "wait", "close", "closed"}]
    BY <1>4 DEF RemoveChanel, Ended, Without, Empty
  <2>4. crashed' \in BOOLEAN
    BY <1>4 DEF RemoveChanel, Ended, Without, Empty
  <2> QED BY <1>4, <2>1, <2>2, <2>3, <2>4 DEF RemoveChanel, Ended, Without, Empty
<1>5. ASSUME NEW x \in Conns, CloseOut(x) PROVE TypeOK'
  BY <1>5 DEF CloseOut
<1>6. ASSUME NEW x \in Conns, ForwardToClient(x) \/ EndConnection(x) PROVE TypeOK'
  BY <1>6 DEF ForwardToClient, EndConnection
<1>7. ASSUME NEW q \in Requests, NEW m \in Miners, LookupMiner(q, m) PROVE TypeOK'
  BY <1>7 DEF LookupMiner, StoreOf
<1>8. ASSUME NEW q \in Requests, ListChannels(q) PROVE TypeOK'
  BY <1>8 DEF ListChannels, FoundOwn
<1>9. ASSUME NEW q \in Requests, NEW x \in Conns, Send(q, x) PROVE TypeOK'
  <2>1. out' \in [Conns -> SUBSET (Requests \cup {Announcement})]
    BY <1>9 DEF Send
  <2>2. targets' \in [Requests -> SUBSET Conns]
    BY <1>9 DEF Send
  <2> QED BY <1>9, <2>1, <2>2 DEF Send
<1>10. ASSUME NEW q \in Requests, NEW x \in Conns, SendPanics(q, x) PROVE TypeOK'
  BY <1>10 DEF SendPanics
<1>11. CASE BeginList \/ EndList
  BY <1>11 DEF BeginList, EndList
<1>12. CASE UNCHANGED vars
  BY <1>12 DEF vars
<1> QED BY <1>1, <1>2, <1>3, <1>4, <1>5, <1>6, <1>7, <1>8, <1>9, <1>10, <1>11, <1>12
        DEF Next, ConnStep, SenderStep

----------------------------------------------------------------------------
(* Whose stores they are.                                                  *)

\* What a step that changes no connection, store or map entry keeps.
Placement == <<minerConnections, channels, conns>>

LEMMA PlacementKept ==
  ASSUME UNCHANGED Placement, MapOwn, AddsOwn, HeldOwn, MinersOwn, LeftIsUnlisted, NoEmptyMiner
  PROVE  MapOwn' /\ AddsOwn' /\ HeldOwn' /\ MinersOwn' /\ LeftIsUnlisted' /\ NoEmptyMiner'
BY DEF Placement, conns, MapOwn, AddsOwn, HeldOwn, MinersOwn, LeftIsUnlisted, NoEmptyMiner,
   Listed, CreatedFor

\* A connection registers: in the store of its miner, or in a new, empty one.
LEMMA ListenKeeps ==
  ASSUME IInv, NEW x \in Conns, NEW m \in Miners, ListenMarketEvent(x, m)
  PROVE  MapOwn' /\ AddsOwn' /\ HeldOwn' /\ MinersOwn' /\ LeftIsUnlisted' /\ NoEmptyMiner'
<1> USE DEF IInv, TypeOK
<1>1. /\ pc[x] = "idle" /\ pc' = [pc EXCEPT ![x] = "add"] /\ miner' = [miner EXCEPT ![x] = m]
      /\ UNCHANGED channels
  BY DEF ListenMarketEvent, Goto
<1>2. channels[x] = {} /\ \A s \in Conns : x \notin channels[s]
  BY <1>1 DEF HeldOwn, CreatedFor
<1>3. \A n \in Miners : minerConnections[n] # x
  BY <1>1, NoneAssumption DEF MapOwn, CreatedFor
<1>4. \/ /\ minerConnections[m] # None /\ store' = [store EXCEPT ![x] = minerConnections[m]]
         /\ minerConnections' = minerConnections
      \/ /\ minerConnections[m] = None /\ store' = [store EXCEPT ![x] = x]
         /\ minerConnections' = [minerConnections EXCEPT ![m] = x]
  BY DEF ListenMarketEvent, WriteMap
<1>5. \A s \in Conns, n \in Miners : CreatedFor(s, n) => s # x /\ CreatedFor(s, n)'
  BY <1>1 DEF CreatedFor
<1>6. CreatedFor(x, m)'
  BY <1>1 DEF CreatedFor
<1>7. MapOwn'
  BY <1>4, <1>5, <1>6 DEF MapOwn
<1>8. MinersOwn'
  BY <1>1 DEF MinersOwn
<1>9. AddsOwn'
  <2> SUFFICES ASSUME NEW y \in Conns, pc'[y] = "add"
               PROVE  store'[y] \in Conns /\ CreatedFor(store[y], miner[y])'
    BY DEF AddsOwn
  <2>1. CASE y = x
    BY <1>1, <1>4, <1>5, <1>6, <2>1 DEF MapOwn
  <2>2. CASE y # x
    <3>1. pc[y] = "add" /\ store'[y] = store[y] /\ miner'[y] = miner[y]
      BY <1>1, <1>4, <2>2
    <3> QED BY <1>5, <3>1 DEF AddsOwn, MinersOwn
  <2> QED BY <2>1, <2>2
<1>10. HeldOwn'
  <2> SUFFICES ASSUME NEW s \in Conns, NEW y \in Conns, y \in channels[s]
               PROVE  CreatedFor(s, miner[y])' /\ pc'[y] \notin {"idle", "add"}
    BY <1>1 DEF HeldOwn
  <2>1. y # x /\ pc'[y] = pc[y] /\ miner'[y] = miner[y]
    BY <1>1, <1>2
  <2> QED BY <1>5, <2>1 DEF HeldOwn, MinersOwn
<1>11. LeftIsUnlisted'
  BY <1>1, <1>2, <1>4 DEF LeftIsUnlisted
<1>12. NoEmptyMiner'
  <2> SUFFICES ASSUME NEW n \in Miners, minerConnections'[n] # None, channels[minerConnections'[n]] = {}
               PROVE  \E y \in Conns : pc'[y] = "add" /\ store'[y] = minerConnections'[n]
    BY <1>1 DEF NoEmptyMiner, Listed
  <2>1. CASE minerConnections'[n] = x
    BY <1>1, <1>3, <1>4, <2>1
  <2>2. CASE minerConnections'[n] # x
    <3>1. minerConnections'[n] = minerConnections[n]
      BY <1>4, <2>2
    <3>2. PICK y \in Conns : pc[y] = "add" /\ store[y] = minerConnections[n]
      BY <3>1 DEF NoEmptyMiner, Listed
    <3> QED BY <1>1, <1>4, <3>1, <3>2
  <2> QED BY <2>1, <2>2
<1> QED BY <1>7, <1>8, <1>9, <1>10, <1>11, <1>12

\* A connection is added to the store looked up for it, listed or not.
LEMMA AddKeeps ==
  ASSUME IInv, NEW x \in Conns, AddChanel(x)
  PROVE  MapOwn' /\ AddsOwn' /\ HeldOwn' /\ MinersOwn' /\ LeftIsUnlisted' /\ NoEmptyMiner'
<1> USE DEF IInv, TypeOK
<1>1. /\ pc[x] = "add" /\ pc' = [pc EXCEPT ![x] = "init"]
      /\ channels' = [channels EXCEPT ![store[x]] = @ \cup {x}]
      /\ UNCHANGED <<minerConnections, miner, store>>
  BY DEF AddChanel, Goto
<1>2. store[x] \in Conns /\ CreatedFor(store[x], miner[x])
  BY <1>1 DEF AddsOwn
<1>3. \A s \in Conns, n \in Miners : CreatedFor(s, n) => CreatedFor(s, n)'
  BY <1>1 DEF CreatedFor
<1>4. \A s \in Conns : channels'[s] = IF s = store[x] THEN channels[s] \cup {x} ELSE channels[s]
  BY <1>1, <1>2
<1>5. MapOwn' /\ AddsOwn' /\ MinersOwn'
  BY <1>1, <1>3 DEF MapOwn, AddsOwn, MinersOwn
<1>6. HeldOwn'
  BY <1>1, <1>2, <1>3, <1>4 DEF HeldOwn, MinersOwn
<1>7. LeftIsUnlisted'
  BY <1>1, <1>4 DEF LeftIsUnlisted
<1>8. NoEmptyMiner'
  BY <1>1, <1>4 DEF NoEmptyMiner, Listed
<1> QED BY <1>5, <1>6, <1>7, <1>8

\* InitConnect and close(out) leave stores alone; the latter follows a removal.
LEMMA MoveKeeps ==
  ASSUME IInv, NEW x \in Conns, InitConnect(x) \/ CloseOut(x)
  PROVE  MapOwn' /\ AddsOwn' /\ HeldOwn' /\ MinersOwn' /\ LeftIsUnlisted' /\ NoEmptyMiner'
<1> USE DEF IInv, TypeOK
<1>1. /\ UNCHANGED <<minerConnections, channels, miner, store>>
      /\ \/ pc[x] = "init" /\ pc' = [pc EXCEPT ![x] = "wait"]
         \/ pc[x] = "close" /\ pc' = [pc EXCEPT ![x] = "closed"]
  BY DEF InitConnect, CloseOut, Goto
<1>2. \A s \in Conns, n \in Miners : CreatedFor(s, n) => CreatedFor(s, n)'
  BY <1>1 DEF CreatedFor
<1>3. MapOwn' /\ AddsOwn' /\ MinersOwn'
  BY <1>1, <1>2 DEF MapOwn, AddsOwn, MinersOwn
<1>4. HeldOwn'
  BY <1>1, <1>2 DEF HeldOwn, MinersOwn
<1>5. LeftIsUnlisted' /\ NoEmptyMiner'
  BY <1>1 DEF LeftIsUnlisted, NoEmptyMiner, Listed
<1> QED BY <1>3, <1>4, <1>5

\* The removal empties only the store of its own miner, and then deletes it.
LEMMA RemoveKeeps ==
  ASSUME IInv, NEW x \in Conns, RemoveChanel(x)
  PROVE  MapOwn' /\ AddsOwn' /\ HeldOwn' /\ MinersOwn' /\ LeftIsUnlisted' /\ NoEmptyMiner'
<1> USE DEF IInv, TypeOK
<1> DEFINE s == minerConnections[miner[x]]
<1>1. pc[x] = "wait" /\ miner[x] \in Miners /\ UNCHANGED <<miner, store>>
  BY DEF RemoveChanel, Ended, Without, Empty, MinersOwn
<1>2. CASE s = None
  BY <1>1, <1>2, PlacementKept DEF RemoveChanel, Ended, Without, Empty, Placement, conns
<1>3. CASE s # None
  <2>1. /\ pc' = [pc EXCEPT ![x] = "close"] /\ channels' = [channels EXCEPT ![s] = @ \ {x}]
        /\ \/ channels'[s] = {} /\ minerConnections' = [minerConnections EXCEPT ![miner[x]] = None]
           \/ channels'[s] # {} /\ UNCHANGED minerConnections
    BY <1>3 DEF RemoveChanel, Ended, Without, Empty, Goto, WriteMap
  <2>2. s \in Conns /\ CreatedFor(s, miner[x])
    BY <1>1, <1>3 DEF MapOwn
  <2>3. \A t \in Conns, n \in Miners : CreatedFor(t, n) => CreatedFor(t, n)'
    BY <1>1, <2>1 DEF CreatedFor
  <2>4. \A t \in Conns : channels'[t] = IF t = s THEN channels[t] \ {x} ELSE channels[t]
    BY <2>1, <2>2
  <2>5. \A n \in Miners : minerConnections'[n] # None => minerConnections'[n] = minerConnections[n]
    BY <1>1, <2>1
  <2>6. \A n \in Miners : minerConnections[n] = s => n = miner[x]
    BY <1>3, <2>2 DEF MapOwn, CreatedFor
  <2>7. MapOwn' /\ AddsOwn' /\ MinersOwn'
    BY <1>1, <2>1, <2>3, <2>5 DEF MapOwn, AddsOwn, MinersOwn
  <2>8. HeldOwn'
    BY <1>1, <2>1, <2>3, <2>4 DEF HeldOwn, MinersOwn
  <2>9. LeftIsUnlisted'
    <3> SUFFICES ASSUME NEW n \in Miners, minerConnections'[n] # None,
                        NEW y \in channels'[minerConnections'[n]]
                 PROVE  pc'[y] \notin {"close", "closed"}
      BY DEF LeftIsUnlisted
    <3>1. minerConnections'[n] = minerConnections[n] /\ minerConnections[n] \in Conns
      BY <2>5
    <3>2. y \in channels[minerConnections[n]] /\ y \in Conns
      BY <2>4, <3>1
    <3>3. y # x
      <4>1. CASE minerConnections[n] = s
        <5>1. channels'[minerConnections[n]] = channels[minerConnections[n]] \ {x}
          BY <2>4, <3>1, <4>1
        <5> QED BY <3>1, <5>1
      <4>2. CASE minerConnections[n] # s
        <5>1. y = x => CreatedFor(minerConnections[n], miner[x])
          BY <3>1, <3>2 DEF HeldOwn
        <5>2. CreatedFor(minerConnections[n], n)
          BY <3>1, NoneAssumption DEF MapOwn
        <5> QED BY <4>2, <5>1, <5>2 DEF CreatedFor
      <4> QED BY <4>1, <4>2
    <3> QED BY <2>1, <3>1, <3>2, <3>3, NoneAssumption DEF LeftIsUnlisted
  <2>10. NoEmptyMiner'
    <3> SUFFICES ASSUME NEW n \in Miners, minerConnections'[n] # None,
                        channels'[minerConnections'[n]] = {}
                 PROVE  \E y \in Conns : pc'[y] = "add" /\ store'[y] = minerConnections'[n]
      BY DEF NoEmptyMiner, Listed
    <3>1. minerConnections'[n] = minerConnections[n] /\ minerConnections[n] \in Conns
      BY <2>5
    <3>2. minerConnections[n] # s
      BY <2>1, <2>6, <3>1
    <3>3. PICK y \in Conns : pc[y] = "add" /\ store[y] = minerConnections[n]
      <4>1. channels[minerConnections[n]] = {} /\ minerConnections[n] # None
        BY <2>4, <3>1, <3>2
      <4> QED BY <4>1 DEF NoEmptyMiner, Listed
    <3>4. y # x
      BY <1>1, <3>3
    <3>5. pc'[y] = pc[y] /\ store'[y] = store[y]
      BY <1>1, <2>1, <3>4
    <3> QED BY <3>1, <3>3, <3>5
  <2> QED BY <2>7, <2>8, <2>9, <2>10
<1> QED BY <1>2, <1>3

LEMMA FoundStep == TypeOK /\ FoundOwn /\ [Next]_vars => FoundOwn'
<1> SUFFICES ASSUME TypeOK, FoundOwn, [Next]_vars PROVE FoundOwn'
  OBVIOUS
<1> USE DEF TypeOK, FoundOwn
<1>1. ASSUME NEW q \in Requests, NEW m \in Miners, LookupMiner(q, m) PROVE FoundOwn'
  BY <1>1 DEF LookupMiner, StoreOf
<1>2. ASSUME NEW q \in Requests, ListChannels(q) PROVE FoundOwn'
  BY <1>2 DEF ListChannels
<1>3. ASSUME NEW q \in Requests, NEW x \in Conns, SendPanics(q, x) PROVE FoundOwn'
  BY <1>3 DEF SendPanics
<1>4. ASSUME \/ \E q \in Requests, x \in Conns : Send(q, x)
             \/ \E x \in Conns, m \in Miners : ListenMarketEvent(x, m)
             \/ \E x \in Conns : ConnStep(x) \/ ForwardToClient(x) \/ EndConnection(x)
             \/ BeginList \/ EndList \/ UNCHANGED vars
      PROVE  UNCHANGED <<qpc, qstore>>
  BY <1>4 DEF Send, ListenMarketEvent, ConnStep, AddChanel, InitConnect, RemoveChanel, CloseOut,
     ForwardToClient, EndConnection, BeginList, EndList, senders, vars
<1> QED BY <1>1, <1>2, <1>3, <1>4 DEF Next, SenderStep

----------------------------------------------------------------------------
(* The theorems.                                                           *)

LEMMA IInvInit == Init => IInv
BY TypeInit, NoneAssumption DEF Init, IInv, FoundOwn, MapOwn, AddsOwn, HeldOwn, MinersOwn, LeftIsUnlisted,
   NoEmptyMiner, Listed

LEMMA IInvStep == IInv /\ [Next]_vars => IInv'
<1> SUFFICES ASSUME IInv, [Next]_vars PROVE IInv'
  OBVIOUS
<1> DEFINE Own == MapOwn /\ AddsOwn /\ HeldOwn /\ MinersOwn /\ LeftIsUnlisted /\ NoEmptyMiner
<1>1. TypeOK' /\ FoundOwn'
  BY TypeStep, FoundStep DEF IInv
<1>2. ASSUME NEW x \in Conns, NEW m \in Miners, ListenMarketEvent(x, m) PROVE Own'
  BY <1>2, ListenKeeps
<1>3. ASSUME NEW x \in Conns, ConnStep(x) PROVE Own'
  BY <1>3, AddKeeps, MoveKeeps, RemoveKeeps DEF ConnStep
<1>4. ASSUME \/ \E x \in Conns : ForwardToClient(x) \/ EndConnection(x)
             \/ \E q \in Requests : SenderStep(q)
             \/ BeginList \/ EndList \/ UNCHANGED vars
      PROVE  Own'
  <2>1. UNCHANGED Placement
    BY <1>4 DEF ForwardToClient, EndConnection, SenderStep, LookupMiner, ListChannels, Send,
       SendPanics, BeginList, EndList, vars, Placement
  <2> QED BY <2>1, PlacementKept DEF IInv
<1> QED BY <1>1, <1>2, <1>3, <1>4 DEF Next, IInv

LEMMA Inductive == Spec => []IInv
BY IInvInit, IInvStep, PTL DEF Spec

\* Every variable of the stream keeps its type.
THEOREM TypeCorrect == Spec => []TypeOK
BY Inductive, PTL DEF IInv

\* A lookup yields live connections of the right miner only, although connections
\* are added outside connLk, and whoever ends meanwhile: for any number of
\* connections, miners and calls.
THEOREM LookupIsOwnAndLive == Spec => []OnlyOwnAndLive
<1>1. IInv => OnlyOwnAndLive
  BY NoneAssumption DEF IInv, TypeOK, OnlyOwnAndLive, Listed, MapOwn, HeldOwn, LeftIsUnlisted, CreatedFor
<1> QED BY <1>1, Inductive, PTL

\* Removal, in one lock section, never leaves an empty store in the map.
THEOREM StoresAreNotEmpty == Spec => []NoEmptyMiner
<1>1. IInv => NoEmptyMiner
  BY DEF IInv
<1> QED BY <1>1, Inductive, PTL

----------------------------------------------------------------------------
(* The registry.                                                           *)

ListedBy == [m \in Miners |-> Listed(m)]
Met == {x \in Conns : pc[x] \notin {"idle", "add"}}

\* What the lookup of a miner yields after a step that rewrites one store.
LEMMA ListedNext ==
  ASSUME TypeOK, NEW s \in Conns, NEW c \in SUBSET Conns, MapOwn,
         channels' = [channels EXCEPT ![s] = c], UNCHANGED minerConnections
  PROVE  \A m \in Miners : Listed(m)' = IF minerConnections[m] = s THEN c ELSE Listed(m)
BY NoneAssumption DEF Listed, TypeOK

LEMMA ListenRegisters ==
  ASSUME IInv, NEW x \in Conns, NEW m \in Miners, ListenMarketEvent(x, m)
  PROVE  UNCHANGED <<ListedBy, Met, done>>
<1> USE DEF IInv, TypeOK
<1>1. Met' = Met
  BY DEF ListenMarketEvent, Goto, Met
<1>2. channels[x] = {}
  BY DEF HeldOwn, CreatedFor, ListenMarketEvent
<1>3. \A n \in Miners : Listed(n)' = Listed(n)
  BY <1>2 DEF ListenMarketEvent, WriteMap, Listed
<1> QED BY <1>1, <1>3 DEF ListedBy, ListenMarketEvent

LEMMA AddRegisters ==
  ASSUME IInv, NEW x \in Conns, AddChanel(x)
  PROVE  \/ Directory!Miss(x)
         \/ \E m \in Miners : Directory!Enter(x, m)
<1> USE DEF IInv, TypeOK
<1> DEFINE s == store[x]
<1>1. s \in Conns /\ CreatedFor(s, miner[x]) /\ miner[x] \in Miners
  BY DEF AddsOwn, MinersOwn, AddChanel
<1>2. x \notin Met /\ Met' = Met \cup {x} /\ UNCHANGED done
  BY DEF AddChanel, Goto, Met
<1>3. \A m \in Miners : minerConnections[m] = s => m = miner[x]
  BY <1>1, NoneAssumption DEF MapOwn, CreatedFor
<1>4. \A m \in Miners : Listed(m)' = IF minerConnections[m] = s THEN channels[s] \cup {x} ELSE Listed(m)
  <2>1. channels' = [channels EXCEPT ![s] = channels[s] \cup {x}] /\ UNCHANGED minerConnections
    BY <1>1 DEF AddChanel
  <2>2. channels[s] \cup {x} \in SUBSET Conns
    BY <1>1
  <2> QED BY <1>1, <2>1, <2>2, ListedNext
<1>5. CASE minerConnections[miner[x]] = s
  <2>1. Listed(miner[x]) = channels[s]
    BY <1>1, <1>5, NoneAssumption DEF Listed
  <2>2. ListedBy' = [ListedBy EXCEPT ![miner[x]] = @ \cup {x}]
    BY <1>1, <1>3, <1>4, <1>5, <2>1 DEF ListedBy
  <2> QED BY <1>1, <1>2, <2>2 DEF Directory!Enter, ListedBy, Met
<1>6. CASE minerConnections[miner[x]] # s
  <2>1. ListedBy' = ListedBy
    BY <1>3, <1>4, <1>6 DEF ListedBy
  <2> QED BY <1>2, <2>1 DEF Directory!Miss, ListedBy, Met
<1> QED BY <1>5, <1>6

LEMMA RemoveRegisters ==
  ASSUME IInv, NEW x \in Conns, RemoveChanel(x)
  PROVE  \/ UNCHANGED <<ListedBy, Met, done>>
         \/ \E m \in Miners : Directory!Leave(x, m)
<1> USE DEF IInv, TypeOK
<1> DEFINE s == minerConnections[miner[x]]
<1>1. x \in done /\ miner[x] \in Miners /\ Met' = Met /\ UNCHANGED <<done, miner>>
  BY DEF RemoveChanel, Ended, MinersOwn, Goto, Met
<1>2. CASE s = None
  BY <1>1, <1>2 DEF RemoveChanel, ListedBy, Listed
<1>3. CASE s # None
  <2>1. s \in Conns /\ CreatedFor(s, miner[x])
    BY <1>1, <1>3, NoneAssumption DEF MapOwn
  <2>2. \A m \in Miners : minerConnections[m] = s => m = miner[x]
    BY <1>3, <2>1 DEF MapOwn, CreatedFor
  <2>3. /\ channels' = [channels EXCEPT ![s] = channels[s] \ {x}]
        /\ \/ channels[s] \ {x} = {} /\ minerConnections' = [minerConnections EXCEPT ![miner[x]] = None]
           \/ UNCHANGED minerConnections
    BY <1>3, <2>1 DEF RemoveChanel, Without, Empty, WriteMap
  <2>4. Listed(miner[x])' = Listed(miner[x]) \ {x}
    <3>1. Listed(miner[x]) = channels[s]
      BY <1>3 DEF Listed
    <3>2. channels'[s] = channels[s] \ {x}
      BY <2>1, <2>3
    <3>3. \/ minerConnections'[miner[x]] = None /\ channels[s] \ {x} = {}
          \/ minerConnections'[miner[x]] = s
      BY <1>1, <2>3
    <3> QED BY <1>1, <1>3, <3>1, <3>2, <3>3 DEF Listed
  <2>5. \A m \in Miners \ {miner[x]} : Listed(m)' = Listed(m)
    <3> SUFFICES ASSUME NEW m \in Miners \ {miner[x]} PROVE Listed(m)' = Listed(m)
      OBVIOUS
    <3>1. minerConnections'[m] = minerConnections[m] /\ minerConnections[m] # s
      BY <2>2, <2>3
    <3>2. minerConnections[m] # None => channels'[minerConnections[m]] = channels[minerConnections[m]]
      BY <2>1, <2>3, <3>1
    <3> QED BY <3>1, <3>2 DEF Listed
  <2>6. ListedBy' = [ListedBy EXCEPT ![miner[x]] = @ \ {x}]
    BY <1>1, <2>4, <2>5 DEF ListedBy
  <2> QED BY <1>1, <2>6 DEF Directory!Leave, ListedBy, Met
<1> QED BY <1>2, <1>3

LEMMA RegistryStep == IInv /\ [Next]_vars => [Directory!Next]_(Directory!vars)
<1> SUFFICES ASSUME IInv, [Next]_vars PROVE [Directory!Next]_(Directory!vars)
  OBVIOUS
<1> USE DEF Directory!vars
<1>1. ASSUME NEW x \in Conns, NEW m \in Miners, ListenMarketEvent(x, m)
      PROVE  UNCHANGED Directory!vars
  BY <1>1, ListenRegisters DEF ListedBy, Met
<1>2. ASSUME NEW x \in Conns, AddChanel(x) PROVE Directory!Next
  BY <1>2, AddRegisters DEF Directory!Next
<1>3. ASSUME NEW x \in Conns, RemoveChanel(x) PROVE [Directory!Next]_(Directory!vars)
  BY <1>3, RemoveRegisters DEF Directory!Next, ListedBy, Met
<1>4. ASSUME NEW x \in Conns, InitConnect(x) \/ CloseOut(x) PROVE UNCHANGED Directory!vars
  BY <1>4 DEF IInv, TypeOK, InitConnect, CloseOut, Goto, Listed
<1>5. ASSUME NEW x \in Conns, EndConnection(x) PROVE Directory!Next
  BY <1>5 DEF EndConnection, Directory!Next, Directory!End, Listed, conns
<1>6. ASSUME \/ \E x \in Conns : ForwardToClient(x)
             \/ \E q \in Requests : SenderStep(q)
             \/ BeginList \/ EndList \/ UNCHANGED vars
      PROVE  UNCHANGED Directory!vars
  <2>1. UNCHANGED <<minerConnections, channels, pc, done>>
    BY <1>6 DEF ForwardToClient, SenderStep, LookupMiner, ListChannels, Send,
       SendPanics, BeginList, EndList, vars, conns
  <2> QED BY <2>1 DEF Listed
<1> QED BY <1>1, <1>2, <1>3, <1>4, <1>5, <1>6 DEF Next, ConnStep

\* The market stream implements the registry, for any connections and miners: a
\* connection once found stays until it ends and does not come back.
THEOREM StreamKeepsRegistry == Spec => KeepsRegistry
<1>1. Init => Directory!Init
  BY NoneAssumption DEF Init, Directory!Init, Listed
<1> QED BY <1>1, RegistryStep, Inductive, PTL DEF Spec, KeepsRegistry, Directory!Spec
=============================================================================
