------------------------- MODULE ProofStreamProofs -------------------------
(***************************************************************************)
(* Theorems about ProofStream: what getChannels and the list of miners can *)
(* rely on although a removal takes four lock sections, the order of       *)
(* events across the two queues and the relay between them, and what the   *)
(* end of one connection may cost the others of its miner (LossyRegistry). *)
(***************************************************************************)
EXTENDS ProofStream, SequenceTheorems, TLAPS

\* Store s was created for miner m.
CreatedFor(s, m) == miner[s] = m /\ pc[s] # "idle"

\* The store a miner has in the map, the one a connection is about to be added to
\* or was told to leave, and the one it is held by were created for its miner.
MapOwn ==
    \A m \in Miners : minerConnections[m] # None => CreatedFor(minerConnections[m], m)

StoreOwn ==
    \A x \in Conns :
        /\ pc[x] = "remove" /\ store[x] # None => CreatedFor(store[x], miner[x])
        /\ pc[x] \in {"add", "empty"} => store[x] \in Conns /\ CreatedFor(store[x], miner[x])

HeldOwn ==
    \A s, x \in Conns : x \in channels[s] =>
        CreatedFor(s, miner[x]) /\ pc[x] \notin {"idle", "add"}

MinersOwn == \A x \in Conns : pc[x] # "idle" => miner[x] \in Miners

\* A connection leaves the one store in the map that lists it; afterwards it may
\* still be in a store, but in none that is in the map.
LeavesListed ==
    \A m \in Miners : minerConnections[m] # None =>
        \A x \in channels[minerConnections[m]] :
            /\ pc[x] = "remove" => store[x] = minerConnections[m]
            /\ pc[x] \notin {"empty", "delete", "close", "closed"}

\* Who will fill or delete an empty store: the inductive form of NoEmptyMiner.
CaredFor(m) ==
    \E x \in Conns :
        \/ pc[x] \in {"add", "empty"} /\ store[x] = minerConnections[m]
        \/ pc[x] = "delete" /\ miner[x] = m

EmptyIsCared ==
    \A m \in Miners : minerConnections[m] # None /\ channels[minerConnections[m]] = {} => CaredFor(m)

\* A lookup that goes on has found a store.
FoundOwn == \A q \in Requests : qpc[q] = "found" => qstore[q] \in Conns

Placed ==
    MapOwn /\ StoreOwn /\ HeldOwn /\ MinersOwn /\ LeavesListed /\ EmptyIsCared

IInv == TypeOK /\ FoundOwn /\ Placed

----------------------------------------------------------------------------
(* Types.                                                                  *)

LEMMA TypeInit == Init => TypeOK
<1> SUFFICES ASSUME Init PROVE TypeOK
  OBVIOUS
<1>1. <<>> \in Seq(Events)
  OBVIOUS
<1>2. [x \in Conns |-> <<>>] \in [Conns -> Seq(Events)]
  BY <1>1
<1>3. /\ reqEventChan \in [Conns -> Seq(Events)] /\ hold \in [Conns -> Seq(Events)]
      /\ out \in [Conns -> Seq(Events)]
      /\ pushed \in [Conns -> Seq(Events)] /\ received \in [Conns -> Seq(Events)]
  BY <1>2 DEF Init
<1>4. /\ pc \in [Conns -> {"idle"}] /\ miner \in [Conns -> {None}] /\ store \in [Conns -> {None}]
      /\ minerConnections \in [Miners -> {None}] /\ channels \in [Conns -> {{}}]
      /\ qpc \in [Requests -> {"idle"}] /\ qstore \in [Requests -> {None}]
      /\ targets \in [Requests -> {{}}] /\ done = {} /\ crashed = FALSE
  BY DEF Init
<1> QED BY <1>3, <1>4 DEF TypeOK

LEMMA PutType ==
  ASSUME TypeOK, NEW x \in Conns, NEW e \in Events, Put(x, e)
  PROVE  /\ reqEventChan' \in [Conns -> Seq(Events)] /\ pushed' \in [Conns -> Seq(Events)]
         /\ UNCHANGED <<hold, out, received>>
BY DEF TypeOK, Put

LEMMA TypeStep == TypeOK /\ FoundOwn /\ MinersOwn /\ [Next]_vars => TypeOK'
<1> SUFFICES ASSUME TypeOK, FoundOwn, MinersOwn, [Next]_vars PROVE TypeOK'
  OBVIOUS
<1>0. /\ minerConnections \in [Miners -> Conns \cup {None}] /\ store \in [Conns -> Conns \cup {None}]
      /\ channels \in [Conns -> SUBSET Conns]
  BY DEF TypeOK
<1>1. ASSUME NEW x \in Conns, NEW m \in Miners, ListenProofEvent(x, m) PROVE TypeOK'
  <2>1. /\ minerConnections' \in [Miners -> Conns \cup {None}]
        /\ store' \in [Conns -> Conns \cup {None}]
    BY <1>0, <1>1 DEF ListenProofEvent
  <2> QED BY <1>1, <2>1 DEF TypeOK, Goto, queues, senders, ListenProofEvent
<1>2. ASSUME NEW x \in Conns, AddChanel(x) PROVE TypeOK'
  <2>1. channels' \in [Conns -> SUBSET Conns]
    BY <1>0, <1>2 DEF AddChanel
  <2> QED BY <1>2, <2>1 DEF TypeOK, Goto, queues, senders, AddChanel
<1>14. ASSUME NEW x \in Conns, RemoveChanel(x) PROVE TypeOK'
  <2>1. channels' \in [Conns -> SUBSET Conns]
    BY <1>0, <1>14 DEF RemoveChanel, Without
  <2>2. crashed' \in BOOLEAN
    BY <1>14 DEF TypeOK, RemoveChanel, Without
  <2> QED BY <1>14, <2>1, <2>2 DEF TypeOK, Goto, queues, senders, RemoveChanel, Without
<1>3. ASSUME NEW x \in Conns, InitConnect(x) PROVE TypeOK'
  <2>1. "InitConnect" \in Events
    BY DEF Events
  <2> QED BY <1>3, <2>1, PutType DEF TypeOK, Goto, senders, InitConnect
<1>4. ASSUME NEW x \in Conns, ReceiveRequest(x) PROVE TypeOK'
  <2>1. Head(reqEventChan[x]) \in Events /\ Tail(reqEventChan[x]) \in Seq(Events)
    BY <1>4 DEF TypeOK, ReceiveRequest
  <2> QED BY <1>4, <2>1 DEF TypeOK, Goto, senders, ReceiveRequest
<1>5. ASSUME NEW x \in Conns, RelayRequest(x) PROVE TypeOK'
  <2>1. out[x] \o hold[x] \in Seq(Events) /\ <<>> \in Seq(Events)
    BY DEF TypeOK
  <2> QED BY <1>5, <2>1 DEF TypeOK, Goto, senders, RelayRequest, Relayed
<1>6. ASSUME NEW x \in Conns, LookupStore(x) PROVE TypeOK'
  BY <1>6 DEF TypeOK, MinersOwn, Goto, queues, senders, LookupStore
<1>7. ASSUME NEW x \in Conns, CheckEmpty(x) \/ DeleteStore(x) \/ CloseOut(x) PROVE TypeOK'
  BY <1>7 DEF TypeOK, Goto, queues, senders, CheckEmpty, Empty, DeleteStore, Removed, CloseOut
<1>8. ASSUME NEW x \in Conns, ForwardToClient(x) PROVE TypeOK'
  <2>1. Head(out[x]) \in Events /\ Tail(out[x]) \in Seq(Events)
    BY <1>8 DEF TypeOK, ForwardToClient
  <2> QED BY <1>8, <2>1 DEF TypeOK, conns, senders, ForwardToClient
<1>9. ASSUME NEW x \in Conns, EndConnection(x) PROVE TypeOK'
  BY <1>9 DEF TypeOK, conns, queues, senders, EndConnection
<1>10. ASSUME NEW q \in Requests, NEW m \in Miners, LookupMiner(q, m) PROVE TypeOK'
  BY <1>10 DEF TypeOK, conns, queues, LookupMiner
<1>11. ASSUME NEW q \in Requests, ListChannels(q) PROVE TypeOK'
  BY <1>11 DEF TypeOK, FoundOwn, conns, queues, ListChannels
<1>12. ASSUME NEW q \in Requests, NEW x \in Conns, Send(q, x) PROVE TypeOK'
  <2>1. q \in Events
    BY DEF Events
  <2>2. targets' \in [Requests -> SUBSET Conns]
    BY <1>12 DEF TypeOK, Send
  <2> QED BY <1>12, <2>1, <2>2, PutType DEF TypeOK, conns, Send
<1>13. CASE UNCHANGED vars
  BY <1>13 DEF TypeOK, vars, conns, queues, senders
<1> QED BY <1>1, <1>2, <1>3, <1>4, <1>5, <1>6, <1>7, <1>8, <1>9, <1>10, <1>11, <1>12, <1>13, <1>14
        DEF Next, ConnStep, SenderStep

LEMMA FoundStep == TypeOK /\ FoundOwn /\ [Next]_vars => FoundOwn'
<1> SUFFICES ASSUME TypeOK, FoundOwn, [Next]_vars PROVE FoundOwn'
  OBVIOUS
<1> USE DEF TypeOK, FoundOwn
<1>1. ASSUME NEW q \in Requests, NEW m \in Miners, LookupMiner(q, m) PROVE FoundOwn'
  BY <1>1 DEF LookupMiner
<1>2. ASSUME NEW q \in Requests, ListChannels(q) PROVE FoundOwn'
  BY <1>2 DEF ListChannels
<1>3. ASSUME \/ \E q \in Requests, x \in Conns : Send(q, x)
             \/ \E x \in Conns, m \in Miners : ListenProofEvent(x, m)
             \/ \E x \in Conns : ConnStep(x) \/ ForwardToClient(x) \/ EndConnection(x)
             \/ UNCHANGED vars
      PROVE  UNCHANGED <<qpc, qstore>>
  BY <1>3 DEF Send, ListenProofEvent, ConnStep, AddChanel, InitConnect, ReceiveRequest,
     RelayRequest, LookupStore, RemoveChanel, CheckEmpty, DeleteStore, CloseOut,
     ForwardToClient, EndConnection, senders, vars
<1> QED BY <1>1, <1>2, <1>3 DEF Next, SenderStep

----------------------------------------------------------------------------
(* Whose stores they are.                                                  *)

Placement == <<minerConnections, channels, conns>>

LEMMA PlacementKept ==
  ASSUME UNCHANGED Placement, Placed PROVE Placed'
BY DEF Placement, conns, Placed, MapOwn, StoreOwn, HeldOwn, MinersOwn, LeavesListed, EmptyIsCared,
   CaredFor, CreatedFor

\* A connection registers: in the store of its miner, or in a new, empty one.
LEMMA ListenKeeps ==
  ASSUME IInv, NEW x \in Conns, NEW m \in Miners, ListenProofEvent(x, m)
  PROVE  Placed'
<1> USE DEF IInv, TypeOK, Placed
<1>1. /\ pc[x] = "idle" /\ pc' = [pc EXCEPT ![x] = "add"] /\ miner' = [miner EXCEPT ![x] = m]
      /\ UNCHANGED channels
  BY DEF ListenProofEvent, Goto
<1>2. channels[x] = {} /\ \A s \in Conns : x \notin channels[s]
  BY <1>1 DEF HeldOwn, CreatedFor
<1>3. \A n \in Miners : minerConnections[n] # x
  BY <1>1, NoneAssumption DEF MapOwn, CreatedFor
<1>4. \/ /\ minerConnections[m] # None /\ store' = [store EXCEPT ![x] = minerConnections[m]]
         /\ minerConnections' = minerConnections
      \/ /\ minerConnections[m] = None /\ store' = [store EXCEPT ![x] = x]
         /\ minerConnections' = [minerConnections EXCEPT ![m] = x]
  BY DEF ListenProofEvent
<1>5. \A s \in Conns, n \in Miners : CreatedFor(s, n) => s # x /\ CreatedFor(s, n)'
  BY <1>1 DEF CreatedFor
<1>6. CreatedFor(x, m)'
  BY <1>1 DEF CreatedFor
<1>7. MapOwn'
  BY <1>4, <1>5, <1>6 DEF MapOwn
<1>8. MinersOwn'
  BY <1>1 DEF MinersOwn
<1>9. StoreOwn'
  <2> SUFFICES ASSUME NEW y \in Conns
               PROVE  /\ pc'[y] = "remove" /\ store'[y] # None => CreatedFor(store[y], miner[y])'
                      /\ pc'[y] \in {"add", "empty"} => store'[y] \in Conns /\ CreatedFor(store[y], miner[y])'
    BY DEF StoreOwn
  <2>1. CASE y = x
    BY <1>1, <1>4, <1>5, <1>6, <2>1 DEF MapOwn
  <2>2. CASE y # x
    <3>1. pc[y] = pc'[y] /\ store'[y] = store[y] /\ miner'[y] = miner[y]
      BY <1>1, <1>4, <2>2
    <3> QED BY <1>5, <3>1 DEF StoreOwn, MinersOwn
  <2> QED BY <2>1, <2>2
<1>10. HeldOwn'
  <2> SUFFICES ASSUME NEW s \in Conns, NEW y \in Conns, y \in channels[s]
               PROVE  CreatedFor(s, miner[y])' /\ pc'[y] \notin {"idle", "add"}
    BY <1>1 DEF HeldOwn
  <2>1. y # x /\ pc'[y] = pc[y] /\ miner'[y] = miner[y]
    BY <1>1, <1>2
  <2> QED BY <1>5, <2>1 DEF HeldOwn, MinersOwn
<1>11. LeavesListed'
  BY <1>1, <1>2, <1>4 DEF LeavesListed
<1>12. EmptyIsCared'
  <2> SUFFICES ASSUME NEW n \in Miners, minerConnections'[n] # None, channels[minerConnections'[n]] = {}
               PROVE  CaredFor(n)'
    BY <1>1 DEF EmptyIsCared
  <2>1. CASE minerConnections'[n] = x
    BY <1>1, <1>3, <1>4, <2>1 DEF CaredFor
  <2>2. CASE minerConnections'[n] # x
    <3>1. minerConnections'[n] = minerConnections[n]
      BY <1>4, <2>2
    <3>2. PICK y \in Conns : \/ pc[y] \in {"add", "empty"} /\ store[y] = minerConnections[n]
                             \/ pc[y] = "delete" /\ miner[y] = n
      BY <3>1 DEF EmptyIsCared, CaredFor
    <3>3. y # x
      BY <1>1, <3>2
    <3> QED BY <1>1, <1>4, <3>1, <3>2, <3>3 DEF CaredFor
  <2> QED BY <2>1, <2>2
<1> QED BY <1>7, <1>8, <1>9, <1>10, <1>11, <1>12

\* Who is not about to use a store, holds it no longer.
LEMMA StoreKept ==
  ASSUME StoreOwn, MinersOwn, UNCHANGED <<miner, store>>,
         \A s \in Conns, n \in Miners : CreatedFor(s, n) => CreatedFor(s, n)',
         \A y \in Conns : pc'[y] \in {"remove", "add", "empty"} => pc'[y] = pc[y],
         \A y \in Conns : store[y] \in Conns \cup {None}
  PROVE  StoreOwn'
<1> SUFFICES ASSUME NEW y \in Conns, pc'[y] \in {"remove", "add", "empty"}
             PROVE  /\ pc'[y] = "remove" /\ store[y] # None => CreatedFor(store[y], miner[y])'
                    /\ pc'[y] \in {"add", "empty"} => store[y] \in Conns /\ CreatedFor(store[y], miner[y])'
  BY DEF StoreOwn, CreatedFor
<1>1. pc'[y] = pc[y] /\ miner[y] \in Miners
  BY DEF MinersOwn
<1>2. CASE pc[y] = "remove" /\ store[y] # None
  BY <1>1, <1>2 DEF StoreOwn
<1>3. CASE pc[y] \in {"add", "empty"}
  BY <1>1, <1>3 DEF StoreOwn
<1> QED BY <1>1, <1>2, <1>3

\* A connection is added to the store looked up for it, listed or not.
LEMMA AddKeeps ==
  ASSUME IInv, NEW x \in Conns, AddChanel(x)
  PROVE  Placed'
<1> USE DEF IInv, TypeOK, Placed
<1>1. /\ pc[x] = "add" /\ pc' = [pc EXCEPT ![x] = "init"]
      /\ channels' = [channels EXCEPT ![store[x]] = @ \cup {x}]
      /\ UNCHANGED <<minerConnections, miner, store>>
  BY DEF AddChanel, Goto
<1>2. store[x] \in Conns /\ CreatedFor(store[x], miner[x])
  BY <1>1 DEF StoreOwn
<1>3. \A s \in Conns, n \in Miners : CreatedFor(s, n) => CreatedFor(s, n)'
  BY <1>1 DEF CreatedFor
<1>4. \A s \in Conns : channels'[s] = IF s = store[x] THEN channels[s] \cup {x} ELSE channels[s]
  BY <1>1, <1>2
<1>5. MapOwn' /\ StoreOwn' /\ MinersOwn'
  <2>1. MapOwn'
    BY <1>1, <1>3 DEF MapOwn
  <2>2. StoreOwn'
    BY <1>1, <1>3, StoreKept
  <2>3. MinersOwn'
    BY <1>1 DEF MinersOwn
  <2> QED BY <2>1, <2>2, <2>3
<1>6. HeldOwn'
  <2> SUFFICES ASSUME NEW s \in Conns, NEW y \in Conns, y \in channels'[s]
               PROVE  CreatedFor(s, miner[y])' /\ pc'[y] \notin {"idle", "add"}
    BY <1>1 DEF HeldOwn, CreatedFor
  <2>1. CASE y = x /\ s = store[x]
    BY <1>1, <1>2, <1>3, <2>1 DEF MinersOwn
  <2>2. CASE y \in channels[s]
    <3>1. CreatedFor(s, miner[y]) /\ pc[y] \notin {"idle", "add"} /\ miner[y] \in Miners
      BY <2>2 DEF HeldOwn, MinersOwn
    <3> QED BY <1>1, <1>3, <3>1
  <2> QED BY <1>4, <2>1, <2>2
<1>7. LeavesListed'
  BY <1>1, <1>4 DEF LeavesListed
<1>8. EmptyIsCared'
  <2> SUFFICES ASSUME NEW m \in Miners, minerConnections[m] # None, channels'[minerConnections[m]] = {}
               PROVE  CaredFor(m)'
    BY <1>1 DEF EmptyIsCared
  <2>1. minerConnections[m] # store[x] /\ channels[minerConnections[m]] = {}
    BY <1>4
  <2>2. PICK y \in Conns : \/ pc[y] \in {"add", "empty"} /\ store[y] = minerConnections[m]
                           \/ pc[y] = "delete" /\ miner[y] = m
    BY <2>1 DEF EmptyIsCared, CaredFor
  <2>3. y # x
    BY <1>1, <2>1, <2>2
  <2> QED BY <1>1, <2>2, <2>3 DEF CaredFor
<1> QED BY <1>5, <1>6, <1>7, <1>8

\* The relay's steps leave stores alone, and so does close(out).
LEMMA MoveKeeps ==
  ASSUME IInv, NEW x \in Conns,
         InitConnect(x) \/ ReceiveRequest(x) \/ RelayRequest(x) \/ CloseOut(x)
  PROVE  Placed'
<1> USE DEF IInv, TypeOK, Placed
<1>1. /\ UNCHANGED <<minerConnections, channels, miner, store>>
      /\ \/ pc[x] = "init" /\ pc' = [pc EXCEPT ![x] = "loop"]
         \/ pc[x] = "loop" /\ pc' = [pc EXCEPT ![x] = "relay"]
         \/ pc[x] = "relay" /\ pc' = [pc EXCEPT ![x] = "loop"]
         \/ pc[x] = "close" /\ pc' = [pc EXCEPT ![x] = "closed"]
  BY DEF InitConnect, ReceiveRequest, RelayRequest, Relayed, CloseOut, Goto
<1>2. \A s \in Conns, n \in Miners : CreatedFor(s, n) => CreatedFor(s, n)'
  BY <1>1 DEF CreatedFor
<1>3. MapOwn' /\ StoreOwn' /\ MinersOwn'
  <2>1. MapOwn'
    BY <1>1, <1>2 DEF MapOwn
  <2>2. StoreOwn'
    BY <1>1, <1>2, StoreKept
  <2>3. MinersOwn'
    BY <1>1 DEF MinersOwn
  <2> QED BY <2>1, <2>2, <2>3
<1>4. HeldOwn'
  BY <1>1, <1>2 DEF HeldOwn, MinersOwn
<1>5. LeavesListed'
  BY <1>1 DEF LeavesListed
<1>6. EmptyIsCared'
  <2> SUFFICES ASSUME NEW m \in Miners, minerConnections'[m] # None, channels'[minerConnections'[m]] = {}
               PROVE  CaredFor(m)'
    BY DEF EmptyIsCared
  <2>1. CaredFor(m)
    BY <1>1 DEF EmptyIsCared
  <2>2. PICK y \in Conns : \/ pc[y] \in {"add", "empty"} /\ store[y] = minerConnections[m]
                           \/ pc[y] = "delete" /\ miner[y] = m
    BY <2>1 DEF CaredFor
  <2>3. y # x
    BY <1>1, <2>2
  <2> QED BY <1>1, <2>2, <2>3 DEF CaredFor
<1> QED BY <1>3, <1>4, <1>5, <1>6

\* The store to leave is the one in the map at this time.
LEMMA LookupKeeps ==
  ASSUME IInv, NEW x \in Conns, LookupStore(x)
  PROVE  Placed'
<1> USE DEF IInv, TypeOK, Placed
<1>1. /\ pc[x] = "loop" /\ pc' = [pc EXCEPT ![x] = "remove"]
      /\ store' = [store EXCEPT ![x] = minerConnections[miner[x]]]
      /\ UNCHANGED <<minerConnections, channels, miner>>
  BY DEF LookupStore, Goto
<1>2. miner[x] \in Miners
  BY <1>1 DEF MinersOwn
<1>3. \A s \in Conns, n \in Miners : CreatedFor(s, n) => CreatedFor(s, n)'
  BY <1>1 DEF CreatedFor
<1>4. MapOwn' /\ MinersOwn'
  BY <1>1, <1>3 DEF MapOwn, MinersOwn
<1>5. StoreOwn'
  BY <1>1, <1>2, <1>3 DEF StoreOwn, MapOwn, MinersOwn
<1>6. HeldOwn'
  BY <1>1, <1>3 DEF HeldOwn, MinersOwn
<1>7. LeavesListed'
  <2> SUFFICES ASSUME NEW n \in Miners, minerConnections[n] # None,
                      x \in channels[minerConnections[n]]
               PROVE  minerConnections[n] = minerConnections[miner[x]]
    BY <1>1 DEF LeavesListed
  <2>1. CreatedFor(minerConnections[n], miner[x]) /\ CreatedFor(minerConnections[n], n)
    BY DEF HeldOwn, MapOwn
  <2> QED BY <2>1 DEF CreatedFor
<1>8. EmptyIsCared'
  BY <1>1 DEF EmptyIsCared, CaredFor
<1> QED BY <1>4, <1>5, <1>6, <1>7, <1>8

\* It is left there, even when the map holds another store by now.
LEMMA RemoveKeeps ==
  ASSUME IInv, NEW x \in Conns, RemoveChanel(x)
  PROVE  Placed'
<1> USE DEF IInv, TypeOK, Placed
<1>1. pc[x] = "remove" /\ UNCHANGED <<minerConnections, miner, store>>
  BY DEF RemoveChanel, Without
<1>2. CASE store[x] = None
  BY <1>1, <1>2, PlacementKept DEF RemoveChanel, Without, Placement, conns
<1>3. CASE store[x] # None
  <2>1. pc' = [pc EXCEPT ![x] = "empty"] /\ channels' = [channels EXCEPT ![store[x]] = @ \ {x}]
    BY <1>3 DEF RemoveChanel, Without, Goto
  <2>2. store[x] \in Conns /\ CreatedFor(store[x], miner[x])
    BY <1>1, <1>3 DEF StoreOwn
  <2>3. \A s \in Conns, n \in Miners : CreatedFor(s, n) => CreatedFor(s, n)'
    BY <1>1, <2>1 DEF CreatedFor
  <2>4. \A s \in Conns : channels'[s] = IF s = store[x] THEN channels[s] \ {x} ELSE channels[s]
    BY <2>1, <2>2
  <2>5. MapOwn' /\ StoreOwn' /\ MinersOwn'
    BY <1>1, <2>1, <2>2, <2>3 DEF MapOwn, StoreOwn, MinersOwn
  <2>6. HeldOwn'
    BY <1>1, <2>1, <2>3, <2>4 DEF HeldOwn, MinersOwn
  <2>7. LeavesListed'
    BY <1>1, <2>1, <2>4 DEF LeavesListed
  <2>8. EmptyIsCared'
    <3> SUFFICES ASSUME NEW m \in Miners, minerConnections'[m] # None, channels'[minerConnections'[m]] = {}
                 PROVE  CaredFor(m)'
      BY DEF EmptyIsCared
    <3>1. CASE store[x] = minerConnections[m]
      BY <1>1, <2>1, <3>1 DEF CaredFor
    <3>2. CASE store[x] # minerConnections[m]
      <4>1. channels[minerConnections[m]] = {}
        BY <1>1, <2>4, <3>2
      <4>2. PICK y \in Conns : \/ pc[y] \in {"add", "empty"} /\ store[y] = minerConnections[m]
                               \/ pc[y] = "delete" /\ miner[y] = m
        BY <1>1, <4>1 DEF EmptyIsCared, CaredFor
      <4>3. y # x
        BY <1>1, <4>2
      <4> QED BY <1>1, <2>1, <4>2, <4>3 DEF CaredFor
    <3> QED BY <3>1, <3>2
  <2> QED BY <2>5, <2>6, <2>7, <2>8
<1> QED BY <1>2, <1>3

\* An empty store passes from the removal to the deletion, which is of the same miner.
LEMMA CheckKeeps ==
  ASSUME IInv, NEW x \in Conns, CheckEmpty(x)
  PROVE  Placed'
<1> USE DEF IInv, TypeOK, Placed
<1>1. /\ pc[x] = "empty" /\ UNCHANGED <<minerConnections, channels, miner, store>>
      /\ \/ channels[store[x]] = {} /\ pc' = [pc EXCEPT ![x] = "delete"]
         \/ channels[store[x]] # {} /\ pc' = [pc EXCEPT ![x] = "close"]
  BY DEF CheckEmpty, Empty, Removed, Goto
<1>2. \A s \in Conns, n \in Miners : CreatedFor(s, n) => CreatedFor(s, n)'
  BY <1>1 DEF CreatedFor
<1>3. MapOwn' /\ StoreOwn' /\ MinersOwn'
  <2>1. MapOwn'
    BY <1>1, <1>2 DEF MapOwn
  <2>2. StoreOwn'
    BY <1>1, <1>2, StoreKept
  <2>3. MinersOwn'
    BY <1>1 DEF MinersOwn
  <2> QED BY <2>1, <2>2, <2>3
<1>4. HeldOwn'
  BY <1>1, <1>2 DEF HeldOwn, MinersOwn
<1>5. LeavesListed'
  <2> SUFFICES ASSUME NEW m \in Miners, minerConnections'[m] # None,
                      NEW y \in channels'[minerConnections'[m]]
               PROVE  /\ pc'[y] = "remove" => store'[y] = minerConnections'[m]
                      /\ pc'[y] \notin {"empty", "delete", "close", "closed"}
    BY DEF LeavesListed
  <2>1. minerConnections[m] # None /\ y \in channels[minerConnections[m]] /\ y # x /\ y \in Conns
    BY <1>1 DEF LeavesListed
  <2> QED BY <1>1, <2>1 DEF LeavesListed
<1>6. EmptyIsCared'
  <2> SUFFICES ASSUME NEW m \in Miners, minerConnections'[m] # None, channels'[minerConnections'[m]] = {}
               PROVE  CaredFor(m)'
    BY DEF EmptyIsCared
  <2>0. minerConnections[m] # None /\ channels[minerConnections[m]] = {}
    BY <1>1
  <2>1. PICK y \in Conns : \/ pc[y] \in {"add", "empty"} /\ store[y] = minerConnections[m]
                           \/ pc[y] = "delete" /\ miner[y] = m
    BY <2>0 DEF EmptyIsCared, CaredFor
  <2>2. CASE y # x
    BY <1>1, <2>1, <2>2 DEF CaredFor
  <2>3. CASE y = x
    <3>1. store[x] = minerConnections[m] /\ pc'[x] = "delete"
      BY <1>1, <2>1, <2>3
    <3>2. miner[x] = m
      BY <1>1, <2>0, <3>1 DEF StoreOwn, MapOwn, CreatedFor
    <3> QED BY <1>1, <3>1, <3>2 DEF CaredFor
  <2> QED BY <2>2, <2>3
<1> QED BY <1>3, <1>4, <1>5, <1>6

LEMMA DeleteKeeps ==
  ASSUME IInv, NEW x \in Conns, DeleteStore(x)
  PROVE  Placed'
<1> USE DEF IInv, TypeOK, Placed
<1>1. /\ pc[x] = "delete" /\ pc' = [pc EXCEPT ![x] = "close"]
      /\ minerConnections' = [minerConnections EXCEPT ![miner[x]] = None]
      /\ UNCHANGED <<channels, miner, store>>
  BY DEF DeleteStore, Removed, Goto
<1>2. \A s \in Conns, n \in Miners : CreatedFor(s, n) => CreatedFor(s, n)'
  BY <1>1 DEF CreatedFor
<1>3. \A m \in Miners : minerConnections'[m] # None =>
          minerConnections'[m] = minerConnections[m] /\ m # miner[x]
  BY <1>1
<1>4. MapOwn' /\ StoreOwn' /\ MinersOwn'
  BY <1>1, <1>2, <1>3 DEF MapOwn, StoreOwn, MinersOwn
<1>5. HeldOwn'
  BY <1>1, <1>2 DEF HeldOwn, MinersOwn
<1>6. LeavesListed'
  <2> SUFFICES ASSUME NEW m \in Miners, minerConnections'[m] # None,
                      NEW y \in channels'[minerConnections'[m]]
               PROVE  /\ pc'[y] = "remove" => store'[y] = minerConnections'[m]
                      /\ pc'[y] \notin {"empty", "delete", "close", "closed"}
    BY DEF LeavesListed
  <2>1. minerConnections'[m] = minerConnections[m] /\ y \in channels[minerConnections[m]]
    BY <1>1, <1>3
  <2>2. y # x /\ y \in Conns
    BY <1>1, <2>1 DEF LeavesListed
  <2> QED BY <1>1, <2>1, <2>2 DEF LeavesListed
<1>7. EmptyIsCared'
  <2> SUFFICES ASSUME NEW m \in Miners, minerConnections'[m] # None, channels'[minerConnections'[m]] = {}
               PROVE  CaredFor(m)'
    BY DEF EmptyIsCared
  <2>1. /\ minerConnections'[m] = minerConnections[m] /\ channels[minerConnections[m]] = {}
        /\ m # miner[x]
    BY <1>1, <1>3
  <2>2. PICK y \in Conns : \/ pc[y] \in {"add", "empty"} /\ store[y] = minerConnections[m]
                           \/ pc[y] = "delete" /\ miner[y] = m
    BY <1>3, <2>1 DEF EmptyIsCared, CaredFor
  <2>3. y # x
    BY <1>1, <2>1, <2>2
  <2> QED BY <1>1, <2>1, <2>2, <2>3 DEF CaredFor
<1> QED BY <1>4, <1>5, <1>6, <1>7

----------------------------------------------------------------------------
(* The theorems.                                                           *)

LEMMA IInvInit == Init => IInv
BY TypeInit, NoneAssumption DEF Init, IInv, Placed, FoundOwn, MapOwn, StoreOwn, HeldOwn, MinersOwn,
   LeavesListed, EmptyIsCared

LEMMA IInvStep == IInv /\ [Next]_vars => IInv'
<1> SUFFICES ASSUME IInv, [Next]_vars PROVE IInv'
  OBVIOUS
<1>1. TypeOK' /\ FoundOwn'
  BY TypeStep, FoundStep DEF IInv, Placed
<1>2. ASSUME NEW x \in Conns, NEW m \in Miners, ListenProofEvent(x, m) PROVE Placed'
  BY <1>2, ListenKeeps
<1>3. ASSUME NEW x \in Conns, ConnStep(x) PROVE Placed'
  BY <1>3, AddKeeps, MoveKeeps, LookupKeeps, RemoveKeeps, CheckKeeps, DeleteKeeps DEF ConnStep
<1>4. ASSUME \/ \E x \in Conns : ForwardToClient(x) \/ EndConnection(x)
             \/ \E q \in Requests : SenderStep(q)
             \/ UNCHANGED vars
      PROVE  Placed'
  <2>1. UNCHANGED Placement
    BY <1>4 DEF ForwardToClient, EndConnection, SenderStep, LookupMiner, ListChannels, Send,
       vars, Placement
  <2> QED BY <2>1, PlacementKept DEF IInv
<1> QED BY <1>1, <1>2, <1>3, <1>4 DEF Next, IInv

LEMMA Inductive == Spec => []IInv
BY IInvInit, IInvStep, PTL DEF Spec

\* Every variable of the stream keeps its type.
THEOREM TypeCorrect == Spec => []TypeOK
BY Inductive, PTL DEF IInv

\* A lookup yields connections of the right miner only, none of them past its
\* removal, in whatever order the four lock sections of several removals meet.
THEOREM LookupIsOwnAndLive == Spec => []OnlyOwnAndLive
<1>1. IInv => OnlyOwnAndLive
  BY NoneAssumption DEF IInv, Placed, TypeOK, OnlyOwnAndLive, Listed, MapOwn, HeldOwn,
     LeavesListed, CreatedFor
<1> QED BY <1>1, Inductive, PTL

\* An empty store in the map is about to be filled, or to be deleted.
THEOREM EmptyStoresPass == Spec => []NoEmptyMiner
<1>1. IInv => NoEmptyMiner
  <2> SUFFICES ASSUME IInv, NEW m \in Miners, minerConnections[m] # None, Listed(m) = {}
               PROVE  \E x \in Conns : \/ pc[x] = "add" /\ store[x] = minerConnections[m]
                                       \/ pc[x] \in {"empty", "delete"} /\ miner[x] = m
    BY DEF NoEmptyMiner
  <2>1. PICK x \in Conns : \/ pc[x] \in {"add", "empty"} /\ store[x] = minerConnections[m]
                           \/ pc[x] = "delete" /\ miner[x] = m
    BY DEF IInv, Placed, EmptyIsCared, CaredFor, Listed
  <2>2. pc[x] = "empty" /\ store[x] = minerConnections[m] => miner[x] = m
    BY DEF IInv, Placed, StoreOwn, MapOwn, CreatedFor
  <2> QED BY <2>1, <2>2
<1> QED BY <1>1, Inductive, PTL

----------------------------------------------------------------------------
(* The order of events.                                                    *)

\* The relay holds an event only between its receive and its send.
HeldWhileRelaying == \A x \in Conns : pc[x] # "relay" => hold[x] = <<>>

OrderInv == IInv /\ HeldWhileRelaying /\ InOrder

LEMMA HeadThenTail ==
  ASSUME NEW s \in Seq(Events), s # <<>>
  PROVE  <<Head(s)>> \in Seq(Events) /\ Tail(s) \in Seq(Events) /\ s = <<Head(s)>> \o Tail(s)
<1>1. <<Head(s)>> \in Seq(Events) /\ Tail(s) \in Seq(Events)
  BY HeadTailProperties
<1> QED BY <1>1, HeadTailProperties, ConcatProperties

\* An event is put at the end of the last queue.
LEMMA PutAtEnd ==
  ASSUME NEW s \in Seq(Events), NEW q \in Seq(Events), NEW e \in Events
  PROVE  Append(s \o q, e) = s \o Append(q, e)
<1>1. s \o q \in Seq(Events) /\ <<e>> \in Seq(Events)
  BY ConcatProperties
<1>2. (s \o q) \o <<e>> = s \o (q \o <<e>>)
  BY <1>1, ConcatAssociative
<1> QED BY <1>1, <1>2, AppendIsConcat

\* An event is taken from the front of the last queue into the relay's hands,
LEMMA HoldHead ==
  ASSUME NEW r \in Seq(Events), NEW o \in Seq(Events), NEW q \in Seq(Events), q # <<>>
  PROVE  r \o o \o <<>> \o q = r \o o \o <<Head(q)>> \o Tail(q)
<1>1. r \o o \in Seq(Events)
  BY ConcatProperties
<1>2. r \o o \o <<>> = r \o o
  BY <1>1, ConcatEmptySeq
<1>3. <<Head(q)>> \in Seq(Events) /\ Tail(q) \in Seq(Events) /\ q = <<Head(q)>> \o Tail(q)
  BY HeadThenTail
<1>4. r \o o \o <<Head(q)>> \o Tail(q) = r \o o \o (<<Head(q)>> \o Tail(q))
  BY <1>1, <1>3, ConcatAssociative
<1> QED BY <1>2, <1>3, <1>4

\* The events of a connection, from those its client has to those still queued.
Through(r, o, h, q) == r \o o \o h \o q

\* from the relay to the end of the first,
LEMMA SendHeld ==
  ASSUME NEW r \in Seq(Events), NEW o \in Seq(Events), NEW h \in Seq(Events), NEW q \in Seq(Events)
  PROVE  Through(r, o, h, q) = Through(r, o \o h, <<>>, q)
<1>1. o \o h \in Seq(Events) /\ r \o (o \o h) = r \o o \o h
  <2>1. r \o (o \o h) = r \o o \o h
    BY ConcatAssociative, SMTT(20)
  <2> QED BY <2>1, ConcatProperties
<1>2. r \o (o \o h) \in Seq(Events)
  BY <1>1, ConcatProperties
<1>3. r \o (o \o h) \o <<>> = r \o (o \o h)
  BY <1>2, ConcatEmptySeq
<1> QED BY <1>1, <1>3 DEF Through

\* and from its front to the client.
LEMMA TakeHead ==
  ASSUME NEW r \in Seq(Events), NEW o \in Seq(Events), o # <<>>
  PROVE  r \o o = Append(r, Head(o)) \o Tail(o)
<1>1. Append(r, Head(o)) = r \o <<Head(o)>>
  BY HeadTailProperties, AppendIsConcat
<1> QED BY <1>1, HeadThenTail, ConcatAssociative

LEMMA PutKeepsOrder ==
  ASSUME TypeOK, InOrder, NEW x \in Conns, NEW e \in Events, Put(x, e)
  PROVE  InOrder'
<1> SUFFICES ASSUME NEW y \in Conns
             PROVE  pushed'[y] = received'[y] \o out'[y] \o hold'[y] \o reqEventChan'[y]
  BY DEF InOrder
<1>1. /\ received[y] \in Seq(Events) /\ out[y] \in Seq(Events) /\ hold[y] \in Seq(Events)
      /\ reqEventChan[y] \in Seq(Events) /\ reqEventChan \in [Conns -> Seq(Events)]
      /\ pushed \in [Conns -> Seq(Events)]
  BY DEF TypeOK
<1>2. pushed[y] = received[y] \o out[y] \o hold[y] \o reqEventChan[y]
  BY DEF InOrder
<1>3. CASE y = x
  <2>1. pushed'[x] = Append(pushed[x], e) /\ reqEventChan'[x] = Append(reqEventChan[x], e)
    BY <1>1 DEF Put
  <2>2. Append(received[x] \o out[x] \o hold[x] \o reqEventChan[x], e)
           = received[x] \o out[x] \o hold[x] \o Append(reqEventChan[x], e)
    <3>1. PICK s \in Seq(Events), q \in Seq(Events) :
             s = received[x] \o out[x] \o hold[x] /\ q = reqEventChan[x]
      BY <1>1, <1>3, ConcatProperties
    <3>2. Append(s \o q, e) = s \o Append(q, e)
      BY PutAtEnd
    <3> QED BY <3>1, <3>2
  <2> QED BY <1>2, <1>3, <2>1, <2>2 DEF Put
<1>4. CASE y # x
  <2>1. pushed'[y] = pushed[y] /\ reqEventChan'[y] = reqEventChan[y]
    BY <1>1, <1>4 DEF Put
  <2> QED BY <1>2, <2>1 DEF Put
<1> QED BY <1>3, <1>4

LEMMA ReceiveKeepsOrder ==
  ASSUME TypeOK, HeldWhileRelaying, InOrder, NEW x \in Conns, ReceiveRequest(x)
  PROVE  InOrder' /\ HeldWhileRelaying'
<1>1. /\ received[x] \in Seq(Events) /\ out[x] \in Seq(Events) /\ reqEventChan[x] \in Seq(Events)
      /\ reqEventChan \in [Conns -> Seq(Events)] /\ hold \in [Conns -> Seq(Events)]
      /\ DOMAIN pc = Conns
  BY DEF TypeOK
<1>2. /\ pc[x] = "loop" /\ reqEventChan[x] # <<>> /\ pc' = [pc EXCEPT ![x] = "relay"]
      /\ hold' = [hold EXCEPT ![x] = <<Head(reqEventChan[x])>>]
      /\ reqEventChan' = [reqEventChan EXCEPT ![x] = Tail(@)]
      /\ UNCHANGED <<pushed, received, out>>
  BY DEF ReceiveRequest, Goto
<1>3. HeldWhileRelaying'
  BY <1>1, <1>2 DEF HeldWhileRelaying
<1>4. ASSUME NEW y \in Conns
      PROVE  pushed'[y] = received'[y] \o out'[y] \o hold'[y] \o reqEventChan'[y]
  <2>1. pushed[y] = received[y] \o out[y] \o hold[y] \o reqEventChan[y]
    BY DEF InOrder
  <2>2. CASE y = x
    <3>1. hold[x] = <<>> /\ hold'[x] = <<Head(reqEventChan[x])>> /\ reqEventChan'[x] = Tail(reqEventChan[x])
      BY <1>1, <1>2 DEF HeldWhileRelaying
    <3>2. received[x] \o out[x] \o <<>> \o reqEventChan[x]
             = received[x] \o out[x] \o <<Head(reqEventChan[x])>> \o Tail(reqEventChan[x])
      <4>1. PICK r \in Seq(Events), o \in Seq(Events), q \in Seq(Events) :
               r = received[x] /\ o = out[x] /\ q = reqEventChan[x]
        BY <1>1
      <4>2. q # <<>>
        BY <1>2, <4>1
      <4>3. r \o o \o <<>> \o q = r \o o \o <<Head(q)>> \o Tail(q)
        BY <4>2, HoldHead
      <4> QED BY <4>1, <4>3
    <3> QED BY <1>2, <2>1, <2>2, <3>1, <3>2
  <2>3. CASE y # x
    BY <1>1, <1>2, <2>1, <2>3
  <2> QED BY <2>2, <2>3
<1> QED BY <1>3, <1>4 DEF InOrder

LEMMA RelayKeepsOrder ==
  ASSUME TypeOK, HeldWhileRelaying, InOrder, NEW x \in Conns, RelayRequest(x)
  PROVE  InOrder' /\ HeldWhileRelaying'
<1>1. /\ received[x] \in Seq(Events) /\ out[x] \in Seq(Events) /\ hold[x] \in Seq(Events)
      /\ reqEventChan[x] \in Seq(Events) /\ DOMAIN out = Conns /\ DOMAIN hold = Conns
      /\ DOMAIN pc = Conns
  BY DEF TypeOK
<1>2. /\ pc' = [pc EXCEPT ![x] = "loop"]
      /\ out' = [out EXCEPT ![x] = out[x] \o hold[x]] /\ hold' = [hold EXCEPT ![x] = <<>>]
      /\ UNCHANGED <<pushed, received, reqEventChan>>
  BY DEF RelayRequest, Relayed, Goto
<1>3. out'[x] = out[x] \o hold[x] /\ hold'[x] = <<>> /\ pc'[x] = "loop"
  BY <1>1, <1>2
<1>4. \A y \in Conns : y # x => out'[y] = out[y] /\ hold'[y] = hold[y] /\ pc'[y] = pc[y]
  BY <1>1, <1>2
<1>5. HeldWhileRelaying'
  BY <1>3, <1>4 DEF HeldWhileRelaying
<1>6. ASSUME NEW y \in Conns
      PROVE  pushed'[y] = received'[y] \o out'[y] \o hold'[y] \o reqEventChan'[y]
  <2>1. pushed[y] = received[y] \o out[y] \o hold[y] \o reqEventChan[y]
    BY DEF InOrder
  <2>2. CASE y = x
    <3>1. Through(received[x], out[x], hold[x], reqEventChan[x])
             = Through(received[x], out[x] \o hold[x], <<>>, reqEventChan[x])
      BY <1>1, SendHeld
    <3> QED BY <1>2, <1>3, <2>1, <2>2, <3>1 DEF Through
  <2>3. CASE y # x
    BY <1>2, <1>4, <2>1, <2>3
  <2> QED BY <2>2, <2>3
<1> QED BY <1>5, <1>6 DEF InOrder

LEMMA ForwardKeepsOrder ==
  ASSUME TypeOK, InOrder, NEW x \in Conns, ForwardToClient(x)
  PROVE  InOrder'
<1>1. /\ received[x] \in Seq(Events) /\ out[x] \in Seq(Events)
      /\ DOMAIN out = Conns /\ DOMAIN received = Conns
  BY DEF TypeOK
<1>2. /\ out[x] # <<>> /\ received' = [received EXCEPT ![x] = Append(received[x], Head(out[x]))]
      /\ out' = [out EXCEPT ![x] = Tail(out[x])]
      /\ UNCHANGED <<pushed, hold, reqEventChan>>
  BY DEF ForwardToClient
<1>3. received'[x] = Append(received[x], Head(out[x])) /\ out'[x] = Tail(out[x])
  BY <1>1, <1>2
<1>4. \A y \in Conns : y # x => received'[y] = received[y] /\ out'[y] = out[y]
  BY <1>1, <1>2
<1>5. ASSUME NEW y \in Conns
      PROVE  pushed'[y] = received'[y] \o out'[y] \o hold'[y] \o reqEventChan'[y]
  <2>1. pushed[y] = received[y] \o out[y] \o hold[y] \o reqEventChan[y]
    BY DEF InOrder
  <2>2. CASE y = x
    <3>1. received[x] \o out[x] = received'[x] \o out'[x]
      BY <1>1, <1>2, <1>3, TakeHead
    <3> QED BY <1>2, <2>1, <2>2, <3>1
  <2>3. CASE y # x
    BY <1>2, <1>4, <2>1, <2>3
  <2> QED BY <2>2, <2>3
<1> QED BY <1>5 DEF InOrder

LEMMA OrderStep == OrderInv /\ [Next]_vars => OrderInv'
<1> SUFFICES ASSUME OrderInv, [Next]_vars PROVE OrderInv'
  OBVIOUS
<1>1. IInv' /\ TypeOK
  BY IInvStep DEF OrderInv, IInv
<1>2. DOMAIN pc = Conns
  BY <1>1 DEF TypeOK
<1>3. ASSUME NEW x \in Conns, InitConnect(x) PROVE InOrder' /\ HeldWhileRelaying'
  <2>1. InOrder'
    BY <1>1, <1>3, PutKeepsOrder DEF OrderInv, InitConnect, Events
  <2> QED BY <1>2, <1>3, <2>1 DEF OrderInv, InitConnect, Put, Goto, HeldWhileRelaying
<1>4. ASSUME NEW q \in Requests, NEW x \in Conns, Send(q, x) PROVE InOrder' /\ HeldWhileRelaying'
  <2>1. InOrder'
    BY <1>1, <1>4, PutKeepsOrder DEF OrderInv, Send, Events
  <2> QED BY <1>4, <2>1 DEF OrderInv, Send, Put, conns, HeldWhileRelaying
<1>5. ASSUME NEW x \in Conns, ReceiveRequest(x) \/ RelayRequest(x) PROVE InOrder' /\ HeldWhileRelaying'
  BY <1>1, <1>5, ReceiveKeepsOrder, RelayKeepsOrder DEF OrderInv
<1>6. ASSUME NEW x \in Conns, ForwardToClient(x) PROVE InOrder' /\ HeldWhileRelaying'
  <2>1. InOrder'
    BY <1>1, <1>6, ForwardKeepsOrder DEF OrderInv
  <2> QED BY <1>6, <2>1 DEF OrderInv, ForwardToClient, conns, HeldWhileRelaying
<1>7. ASSUME \/ \E x \in Conns, m \in Miners : ListenProofEvent(x, m)
             \/ \E x \in Conns : \/ AddChanel(x) \/ LookupStore(x) \/ RemoveChanel(x) \/ CheckEmpty(x)
                                 \/ DeleteStore(x) \/ CloseOut(x) \/ EndConnection(x)
             \/ \E q \in Requests : ListChannels(q) \/ \E m \in Miners : LookupMiner(q, m)
             \/ UNCHANGED vars
      PROVE  InOrder' /\ HeldWhileRelaying'
  <2>1. UNCHANGED queues
    BY <1>7 DEF ListenProofEvent, AddChanel, LookupStore, RemoveChanel, Without, CheckEmpty, Empty,
       DeleteStore, Removed, CloseOut,
       EndConnection, ListChannels, LookupMiner, vars
  <2>2. \A y \in Conns : pc'[y] # "relay" => pc[y] # "relay"
    BY <1>2, <1>7 DEF ListenProofEvent, AddChanel, LookupStore, RemoveChanel, Without, CheckEmpty,
       Empty, DeleteStore, Removed,
       CloseOut, EndConnection, ListChannels, LookupMiner, Goto, conns, vars
  <2> QED BY <2>1, <2>2 DEF OrderInv, queues, InOrder, HeldWhileRelaying
<1> QED BY <1>1, <1>3, <1>4, <1>5, <1>6, <1>7 DEF Next, ConnStep, SenderStep, OrderInv

\* Whatever is put on a connection's queue reaches its client in that order, with
\* nothing lost or repeated on the way through the relay.
THEOREM EventsInOrder == Spec => []InOrder
<1>1. Init => InOrder /\ HeldWhileRelaying
  BY ConcatEmptySeq DEF Init, InOrder, HeldWhileRelaying
<1>2. Init => OrderInv
  BY <1>1, IInvInit DEF OrderInv
<1>3. OrderInv => InOrder
  BY DEF OrderInv
<1> QED BY <1>2, <1>3, OrderStep, PTL DEF Spec

----------------------------------------------------------------------------
(* What an end may cost the others.                                        *)

\* Only a connection that has ended is on its way out.
DoneLeaves ==
    \A x \in Conns : pc[x] \in {"remove", "empty", "delete", "close", "closed"} => x \in done

LEMMA DoneStep == TypeOK /\ DoneLeaves /\ [Next]_vars => DoneLeaves'
<1> SUFFICES ASSUME TypeOK, DoneLeaves, [Next]_vars PROVE DoneLeaves'
  OBVIOUS
<1> USE DEF TypeOK, DoneLeaves
<1>1. ASSUME NEW x \in Conns, ConnStep(x) PROVE DoneLeaves'
  <2>1. done' = done
    BY <1>1 DEF ConnStep, AddChanel, InitConnect, ReceiveRequest, RelayRequest, LookupStore,
       RemoveChanel, CheckEmpty, DeleteStore, CloseOut
  <2>2. \A y \in Conns \ {x} : pc'[y] = pc[y]
    BY <1>1 DEF ConnStep, AddChanel, InitConnect, ReceiveRequest, RelayRequest, LookupStore,
       RemoveChanel, CheckEmpty, DeleteStore, CloseOut, Goto
  <2>3. CASE AddChanel(x) \/ InitConnect(x) \/ ReceiveRequest(x) \/ RelayRequest(x)
    BY <2>1, <2>2, <2>3 DEF AddChanel, InitConnect, ReceiveRequest, RelayRequest, Goto
  <2>4. CASE LookupStore(x)
    BY <2>1, <2>2, <2>4 DEF LookupStore, Goto
  <2>5. CASE RemoveChanel(x) \/ CheckEmpty(x) \/ DeleteStore(x) \/ CloseOut(x)
    <3>1. x \in done
      BY <2>5 DEF RemoveChanel, CheckEmpty, DeleteStore, CloseOut
    <3> QED BY <2>1, <2>2, <3>1
  <2> QED BY <1>1, <2>3, <2>4, <2>5 DEF ConnStep
<1>2. ASSUME NEW x \in Conns, NEW m \in Miners, ListenProofEvent(x, m) PROVE DoneLeaves'
  BY <1>2 DEF ListenProofEvent, Goto
<1>3. ASSUME \/ \E x \in Conns : ForwardToClient(x) \/ EndConnection(x)
             \/ \E q \in Requests : SenderStep(q)
             \/ UNCHANGED vars
      PROVE  DoneLeaves'
  <2>1. pc' = pc /\ done \subseteq done'
    BY <1>3 DEF ForwardToClient, EndConnection, SenderStep, LookupMiner, ListChannels, Send,
       vars, conns
  <2> QED BY <2>1
<1> QED BY <1>1, <1>2, <1>3 DEF Next

----------------------------------------------------------------------------
(* The registry, step by step.                                             *)

ListedBy == [m \in Miners |-> Listed(m)]
Home == [x \in Conns |-> IF pc[x] \in {"idle", "add"} THEN None ELSE miner[x]]
Cleared == {x \in Conns : pc[x] \in {"close", "closed"}}

\* A store that is created for a miner is, if it is in the map, in that place.
LEMMA StorePlace ==
  ASSUME IInv, NEW s \in Conns, NEW m \in Miners, CreatedFor(s, m)
  PROVE  \A n \in Miners : minerConnections[n] = s => n = m
BY NoneAssumption DEF IInv, Placed, MapOwn, CreatedFor

\* What the lookup of a miner yields after a step that rewrites one store.
LEMMA ListedNext ==
  ASSUME TypeOK, NEW s \in Conns, NEW c \in SUBSET Conns,
         channels' = [channels EXCEPT ![s] = c], UNCHANGED minerConnections
  PROVE  \A m \in Miners : Listed(m)' = IF minerConnections[m] = s THEN c ELSE Listed(m)
BY NoneAssumption DEF Listed, TypeOK

LEMMA ListenRegisters ==
  ASSUME IInv, NEW x \in Conns, NEW m \in Miners, ListenProofEvent(x, m)
  PROVE  UNCHANGED <<ListedBy, Home, done, Cleared>>
<1> USE DEF IInv, TypeOK
<1>1. /\ pc[x] = "idle" /\ pc' = [pc EXCEPT ![x] = "add"] /\ miner' = [miner EXCEPT ![x] = m]
      /\ UNCHANGED <<channels, done>>
  BY DEF ListenProofEvent, Goto
<1>2. Home' = Home /\ Cleared' = Cleared
  BY <1>1 DEF Home, Cleared
<1>3. channels[x] = {}
  BY <1>1 DEF Placed, HeldOwn, CreatedFor
<1>4. \A n \in Miners : Listed(n)' = Listed(n)
  BY <1>3 DEF ListenProofEvent, Listed
<1> QED BY <1>1, <1>2, <1>4 DEF ListedBy

LEMMA AddRegisters ==
  ASSUME IInv, NEW x \in Conns, AddChanel(x), NEW m \in Miners, m = miner[x]
  PROVE  Directory!Enter(x, m)
<1> USE DEF IInv, TypeOK
<1> DEFINE s == store[x]
<1>1. /\ s \in Conns /\ CreatedFor(s, m)
      /\ pc[x] = "add" /\ pc' = [pc EXCEPT ![x] = "init"]
      /\ channels' = [channels EXCEPT ![s] = channels[s] \cup {x}]
      /\ UNCHANGED <<minerConnections, miner, done>>
  BY DEF Placed, StoreOwn, MinersOwn, AddChanel, Goto
<1>2. Home[x] = None /\ Home' = [Home EXCEPT ![x] = m] /\ Cleared' = Cleared
  BY <1>1 DEF Home, Cleared
<1>3. \A n \in Miners : minerConnections[n] = s => n = m
  BY <1>1, StorePlace
<1>4. \A n \in Miners : Listed(n)' = IF minerConnections[n] = s THEN channels[s] \cup {x} ELSE Listed(n)
  <2>1. channels[s] \cup {x} \in SUBSET Conns
    BY <1>1
  <2> QED BY <1>1, <2>1, ListedNext
<1>5. \/ ListedBy' = [ListedBy EXCEPT ![m] = @ \cup {x}]
      \/ ListedBy' = ListedBy
  <2>1. CASE minerConnections[m] = s
    <3>1. Listed(m) = channels[s]
      BY <1>1, <2>1, NoneAssumption DEF Listed
    <3> QED BY <1>1, <1>3, <1>4, <2>1, <3>1 DEF ListedBy
  <2>2. CASE minerConnections[m] # s
    BY <1>3, <1>4, <2>2 DEF ListedBy
  <2> QED BY <2>1, <2>2
<1> QED BY <1>1, <1>2, <1>5 DEF Directory!Enter, ListedBy, Home, Cleared

LEMMA RemoveRegisters ==
  ASSUME IInv, DoneLeaves, NEW x \in Conns, RemoveChanel(x)
  PROVE  UNCHANGED <<ListedBy, Home, done, Cleared>> \/ Directory!Leave(x)
<1> USE DEF IInv, TypeOK
<1> DEFINE s == store[x]
<1>1. /\ pc[x] = "remove" /\ x \in done /\ miner[x] \in Miners
      /\ UNCHANGED <<minerConnections, miner, done>>
  BY DEF DoneLeaves, Placed, MinersOwn, RemoveChanel
<1>2. CASE s = None
  BY <1>1, <1>2 DEF RemoveChanel, ListedBy, Listed, Home, Cleared
<1>3. CASE s # None
  <2>1. /\ s \in Conns /\ CreatedFor(s, miner[x])
        /\ pc' = [pc EXCEPT ![x] = "empty"] /\ channels' = [channels EXCEPT ![s] = channels[s] \ {x}]
    BY <1>1, <1>3 DEF Placed, StoreOwn, RemoveChanel, Without, Goto
  <2>2. Home' = Home /\ Home[x] = miner[x] /\ Home[x] # None /\ Cleared' = Cleared /\ x \notin Cleared
    BY <1>1, <2>1, NoneAssumption DEF Home, Cleared
  <2>3. \A n \in Miners : minerConnections[n] = s => n = miner[x]
    BY <1>1, <2>1, StorePlace
  <2>4. \A n \in Miners : Listed(n)' = IF minerConnections[n] = s THEN channels[s] \ {x} ELSE Listed(n)
    <3>1. channels[s] \ {x} \in SUBSET Conns
      BY <2>1
    <3> QED BY <1>1, <2>1, <3>1, ListedNext
  <2>5. CASE minerConnections[miner[x]] = s
    <3>1. Listed(miner[x]) = channels[s]
      BY <2>1, <2>5, NoneAssumption DEF Listed
    <3>2. ListedBy' = [ListedBy EXCEPT ![miner[x]] = @ \ {x}]
      BY <1>1, <2>3, <2>4, <2>5, <3>1 DEF ListedBy
    <3> QED BY <1>1, <2>2, <3>2 DEF Directory!Leave, ListedBy, Home, Cleared
  <2>6. CASE minerConnections[miner[x]] # s
    <3>1. ListedBy' = ListedBy
      BY <2>3, <2>4, <2>6 DEF ListedBy
    <3> QED BY <1>1, <2>2, <3>1
  <2> QED BY <2>5, <2>6
<1> QED BY <1>2, <1>3

\* A connection that has left its store is not in the one the map has now.
LEMMA GoneIsUnlisted ==
  ASSUME IInv, NEW x \in Conns, pc[x] \in {"empty", "delete"}
  PROVE  miner[x] \in Miners /\ x \notin Listed(miner[x])
BY DEF IInv, Placed, MinersOwn, LeavesListed, Listed

LEMMA CheckRegisters ==
  ASSUME IInv, DoneLeaves, NEW x \in Conns, CheckEmpty(x)
  PROVE  UNCHANGED <<ListedBy, Home, done, Cleared>> \/ Directory!Clear(x)
<1> USE DEF IInv, TypeOK
<1>1. /\ pc[x] = "empty" /\ x \in done /\ UNCHANGED <<minerConnections, channels, miner, done>>
      /\ pc' = [pc EXCEPT ![x] = "delete"] \/ pc' = [pc EXCEPT ![x] = "close"]
  BY DEF DoneLeaves, CheckEmpty, Removed, Goto
<1>2. ListedBy' = ListedBy /\ Home' = Home
  BY <1>1 DEF ListedBy, Listed, Home
<1>3. CASE pc' = [pc EXCEPT ![x] = "delete"]
  BY <1>1, <1>2, <1>3 DEF Cleared
<1>4. CASE pc' = [pc EXCEPT ![x] = "close"]
  <2>1. miner[x] \in Miners /\ x \notin Listed(miner[x])
    BY <1>1, GoneIsUnlisted
  <2>2. Home[x] = miner[x] /\ Home[x] # None /\ x \notin ListedBy[Home[x]]
    BY <1>1, <2>1, NoneAssumption DEF Home, ListedBy
  <2>3. x \notin Cleared /\ Cleared' = Cleared \cup {x}
    BY <1>1, <1>4 DEF Cleared
  <2> QED BY <1>1, <1>2, <2>2, <2>3 DEF Directory!Clear, ListedBy, Home, Cleared
<1> QED BY <1>1, <1>3, <1>4

LEMMA DeleteRegisters ==
  ASSUME IInv, DoneLeaves, NEW x \in Conns, DeleteStore(x)
  PROVE  Directory!Clear(x)
<1> USE DEF IInv, TypeOK
<1>1. /\ pc[x] = "delete" /\ x \in done /\ UNCHANGED <<channels, miner, done>>
      /\ pc' = [pc EXCEPT ![x] = "close"]
      /\ minerConnections' = [minerConnections EXCEPT ![miner[x]] = None]
  BY DEF DoneLeaves, DeleteStore, Removed, Goto
<1>2. miner[x] \in Miners /\ x \notin Listed(miner[x])
  BY <1>1, GoneIsUnlisted
<1>3. \A n \in Miners : Listed(n)' = IF n = miner[x] THEN {} ELSE Listed(n)
  BY <1>1, <1>2 DEF Listed
<1>4. ListedBy' = [ListedBy EXCEPT ![miner[x]] = {}]
  BY <1>2, <1>3 DEF ListedBy
<1>5. Home' = Home /\ Home[x] = miner[x] /\ Home[x] # None /\ x \notin ListedBy[Home[x]]
  BY <1>1, <1>2, NoneAssumption DEF Home, ListedBy
<1>6. x \notin Cleared /\ Cleared' = Cleared \cup {x}
  BY <1>1 DEF Cleared
<1> QED BY <1>1, <1>4, <1>5, <1>6 DEF Directory!Clear, ListedBy, Home, Cleared

LEMMA RegistryStep == IInv /\ DoneLeaves /\ [Next]_vars => [Directory!Next]_(Directory!vars)
<1> SUFFICES ASSUME IInv, DoneLeaves, [Next]_vars PROVE [Directory!Next]_(Directory!vars)
  OBVIOUS
<1> USE DEF Directory!vars
<1>1. ASSUME NEW x \in Conns, NEW m \in Miners, ListenProofEvent(x, m)
      PROVE  UNCHANGED Directory!vars
  BY <1>1, ListenRegisters DEF ListedBy, Home, Cleared
<1>2. ASSUME NEW x \in Conns, AddChanel(x) PROVE Directory!Next
  <2>1. PICK m \in Miners : m = miner[x]
    BY <1>2 DEF IInv, Placed, MinersOwn, AddChanel
  <2>2. Directory!Enter(x, m)
    BY <1>2, <2>1, AddRegisters
  <2> QED BY <2>2 DEF Directory!Next
<1>3. ASSUME NEW x \in Conns, RemoveChanel(x) PROVE [Directory!Next]_(Directory!vars)
  BY <1>3, RemoveRegisters DEF Directory!Next, ListedBy, Home, Cleared
<1>4. ASSUME NEW x \in Conns, CheckEmpty(x) PROVE [Directory!Next]_(Directory!vars)
  BY <1>4, CheckRegisters DEF Directory!Next, ListedBy, Home, Cleared
<1>5. ASSUME NEW x \in Conns, DeleteStore(x) PROVE Directory!Next
  BY <1>5, DeleteRegisters DEF Directory!Next
<1>6. ASSUME NEW x \in Conns, \/ InitConnect(x) \/ ReceiveRequest(x) \/ RelayRequest(x)
                              \/ LookupStore(x) \/ CloseOut(x)
      PROVE  UNCHANGED Directory!vars
  <2>1. UNCHANGED <<minerConnections, channels, miner, done>>
    BY <1>6 DEF InitConnect, ReceiveRequest, RelayRequest, LookupStore, CloseOut
  <2>2. \/ pc[x] \in {"init", "loop", "relay"} /\ pc' = [pc EXCEPT ![x] = "loop"]
        \/ pc[x] = "loop" /\ pc' = [pc EXCEPT ![x] = "relay"]
        \/ pc[x] = "loop" /\ pc' = [pc EXCEPT ![x] = "remove"]
        \/ pc[x] = "close" /\ pc' = [pc EXCEPT ![x] = "closed"]
    BY <1>6 DEF InitConnect, ReceiveRequest, RelayRequest, LookupStore, CloseOut, Goto
  <2>3. ListedBy' = ListedBy
    BY <2>1 DEF ListedBy, Listed
  <2>4. Home' = Home /\ Cleared' = Cleared
    BY <2>1, <2>2 DEF IInv, TypeOK, Home, Cleared
  <2> QED BY <2>1, <2>3, <2>4 DEF ListedBy, Home, Cleared
<1>7. ASSUME NEW x \in Conns, EndConnection(x) PROVE Directory!Next
  BY <1>7 DEF EndConnection, Directory!Next, Directory!End, Listed, conns
<1>8. ASSUME \/ \E x \in Conns : ForwardToClient(x)
             \/ \E q \in Requests : SenderStep(q)
             \/ UNCHANGED vars
      PROVE  UNCHANGED Directory!vars
  <2>1. UNCHANGED <<minerConnections, channels, pc, miner, done>>
    BY <1>8 DEF ForwardToClient, SenderStep, LookupMiner, ListChannels, Send, vars, conns
  <2> QED BY <2>1 DEF Listed
<1> QED BY <1>1, <1>2, <1>3, <1>4, <1>5, <1>6, <1>7, <1>8 DEF Next, ConnStep

\* The proof stream implements the lossy registry, for any connections and miners:
\* an end takes out others of the same miner only, once, and for good.
THEOREM StreamKeepsRegistry == Spec => KeepsRegistry
<1>1. Init => Directory!Init /\ DoneLeaves
  BY NoneAssumption DEF Init, Directory!Init, Listed, DoneLeaves
<1>2. IInv /\ DoneLeaves /\ [Next]_vars => DoneLeaves'
  BY DoneStep DEF IInv
<1> QED BY <1>1, <1>2, RegistryStep, Inductive, PTL DEF Spec, KeepsRegistry, Directory!Spec

----------------------------------------------------------------------------
(* Why a connection that lasts may be missing.                             *)

HasEnded(m) == \E y \in done : miner[y] = m

\* As long as no connection of its miner has ended, a connection is about to be
\* added to the miner's store, or is in it.
LastsUnlessEnded ==
    \A x \in Conns : pc[x] # "idle" /\ ~HasEnded(miner[x]) =>
        IF pc[x] = "add" THEN store[x] = minerConnections[miner[x]] ELSE x \in Listed(miner[x])

IdleIsNew == \A x \in Conns : pc[x] = "idle" => miner[x] = None

LossInv == IInv /\ DoneLeaves /\ IdleIsNew /\ LastsUnlessEnded

LEMMA IdleStep == TypeOK /\ IdleIsNew /\ [Next]_vars => IdleIsNew'
<1> SUFFICES ASSUME TypeOK, IdleIsNew, [Next]_vars PROVE IdleIsNew'
  OBVIOUS
<1> USE DEF TypeOK, IdleIsNew
<1>1. ASSUME NEW x \in Conns, ConnStep(x) PROVE IdleIsNew'
  <2>1. /\ miner' = miner /\ pc[x] # "idle"
        /\ \A y \in Conns : pc'[y] = "idle" => pc[y] = "idle"
    BY <1>1 DEF ConnStep, AddChanel, InitConnect, ReceiveRequest, RelayRequest, LookupStore,
       RemoveChanel, CheckEmpty, DeleteStore, CloseOut, Removed, Goto
  <2> QED BY <2>1
<1>2. ASSUME NEW x \in Conns, NEW m \in Miners, ListenProofEvent(x, m) PROVE IdleIsNew'
  BY <1>2 DEF ListenProofEvent, Goto
<1>3. ASSUME \/ \E x \in Conns : ForwardToClient(x) \/ EndConnection(x)
             \/ \E q \in Requests : SenderStep(q)
             \/ UNCHANGED vars
      PROVE  IdleIsNew'
  <2>1. UNCHANGED <<pc, miner>>
    BY <1>3 DEF ForwardToClient, EndConnection, SenderStep, LookupMiner, ListChannels, Send,
       vars, conns
  <2> QED BY <2>1
<1> QED BY <1>1, <1>2, <1>3 DEF Next

\* A connection keeps its miner, and the miner those that have ended.
LEMMA EndedForGood ==
  ASSUME IInv, IdleIsNew, [Next]_vars, NEW y \in Conns, pc[y] # "idle", ~HasEnded(miner[y])'
  PROVE  /\ ~HasEnded(miner[y]) /\ miner[y] \in Miners /\ miner'[y] = miner[y] /\ y \notin done
<1> USE DEF IInv, TypeOK
<1>1. done \subseteq done'
  BY DEF Next, ConnStep, SenderStep, ListenProofEvent, AddChanel, InitConnect, ReceiveRequest,
     RelayRequest, LookupStore, RemoveChanel, CheckEmpty, DeleteStore, CloseOut,
     ForwardToClient, EndConnection, LookupMiner, ListChannels, Send, vars
<1>2. \A z \in Conns : pc[z] # "idle" => miner'[z] = miner[z]
  BY DEF Next, ConnStep, SenderStep, ListenProofEvent, AddChanel, InitConnect, ReceiveRequest,
     RelayRequest, LookupStore, RemoveChanel, CheckEmpty, DeleteStore, CloseOut,
     ForwardToClient, EndConnection, LookupMiner, ListChannels, Send, vars, conns
<1>3. miner[y] \in Miners /\ miner[y] # None
  BY NoneAssumption DEF Placed, MinersOwn
<1>4. \A z \in done : miner[z] # miner[y]
  BY <1>1, <1>2, <1>3 DEF HasEnded, IdleIsNew
<1> QED BY <1>2, <1>3, <1>4 DEF HasEnded

LEMMA ListenLasts ==
  ASSUME LossInv, NEW x \in Conns, NEW m \in Miners, ListenProofEvent(x, m), [Next]_vars
  PROVE  LastsUnlessEnded'
<1> USE DEF LossInv, IInv, TypeOK
<1>1. /\ pc[x] = "idle" /\ pc' = [pc EXCEPT ![x] = "add"] /\ miner' = [miner EXCEPT ![x] = m]
      /\ \/ /\ minerConnections[m] # None /\ UNCHANGED minerConnections
            /\ store' = [store EXCEPT ![x] = minerConnections[m]]
         \/ /\ minerConnections[m] = None
            /\ minerConnections' = [minerConnections EXCEPT ![m] = x]
            /\ store' = [store EXCEPT ![x] = x]
  BY DEF ListenProofEvent, Goto
<1>2. ASSUME NEW y \in Conns, pc'[y] # "idle", ~HasEnded(miner[y])'
      PROVE  IF pc'[y] = "add" THEN store'[y] = minerConnections'[miner'[y]]
                               ELSE y \in Listed(miner[y])'
  <2>1. CASE y = x
    BY <1>1, <2>1
  <2>2. CASE y # x
    <3>1. pc'[y] = pc[y] /\ store'[y] = store[y] /\ pc[y] # "idle"
      BY <1>1, <1>2, <2>2
    <3>2. /\ miner[y] \in Miners /\ miner'[y] = miner[y]
          /\ IF pc[y] = "add" THEN store[y] = minerConnections[miner[y]] ELSE y \in Listed(miner[y])
      BY <1>2, <3>1, EndedForGood DEF LastsUnlessEnded
    <3>3. CASE pc[y] = "add"
      <4>1. store[y] \in Conns
        BY <3>3 DEF Placed, StoreOwn
      <4>2. minerConnections'[miner[y]] = minerConnections[miner[y]]
        BY <1>1, <3>2, <3>3, <4>1, NoneAssumption
      <4> QED BY <3>1, <3>2, <3>3, <4>2
    <3>4. CASE pc[y] # "add"
      <4>1. PICK n \in Miners : n = miner[y]
        BY <3>2
      <4>2. ListedBy'[n] = ListedBy[n]
        BY ListenRegisters
      <4>3. Listed(n)' = Listed(n)
        BY <4>2 DEF ListedBy
      <4> QED BY <3>1, <3>2, <3>4, <4>1, <4>3 DEF Listed
    <3> QED BY <3>3, <3>4
  <2> QED BY <2>1, <2>2
<1> QED BY <1>2 DEF LastsUnlessEnded

LEMMA AddLasts ==
  ASSUME LossInv, NEW x \in Conns, AddChanel(x), [Next]_vars
  PROVE  LastsUnlessEnded'
<1> USE DEF LossInv, IInv, TypeOK
<1>1. /\ pc[x] = "add" /\ pc' = [pc EXCEPT ![x] = "init"]
      /\ store[x] \in Conns /\ channels' = [channels EXCEPT ![store[x]] = @ \cup {x}]
      /\ UNCHANGED <<minerConnections, miner, store>>
  BY DEF Placed, StoreOwn, AddChanel, Goto
<1>2. \A s \in Conns : channels[s] \subseteq channels'[s]
  BY <1>1
<1>3. ASSUME NEW y \in Conns, pc'[y] # "idle", ~HasEnded(miner[y])'
      PROVE  IF pc'[y] = "add" THEN store'[y] = minerConnections'[miner'[y]]
                               ELSE y \in Listed(miner[y])'
  <2>1. pc[y] # "idle"
    BY <1>1, <1>3
  <2>2. /\ miner[y] \in Miners
        /\ IF pc[y] = "add" THEN store[y] = minerConnections[miner[y]] ELSE y \in Listed(miner[y])
    BY <1>3, <2>1, EndedForGood DEF LastsUnlessEnded
  <2>3. CASE y = x
    BY <1>1, <2>2, <2>3, NoneAssumption DEF Listed
  <2>4. CASE y # x
    BY <1>1, <1>2, <2>2, <2>4 DEF Listed
  <2> QED BY <2>3, <2>4
<1> QED BY <1>3 DEF LastsUnlessEnded

\* A connection on its way out has ended, so others of its miner may get lost; the
\* stores of other miners stay as they are.
LEMMA OutLasts ==
  ASSUME LossInv, NEW x \in Conns, RemoveChanel(x) \/ CheckEmpty(x) \/ DeleteStore(x), [Next]_vars
  PROVE  LastsUnlessEnded'
<1> USE DEF LossInv, IInv, TypeOK
<1>1. /\ pc[x] \in {"remove", "empty", "delete"} /\ x \in done /\ miner[x] \in Miners
      /\ UNCHANGED <<miner, store, done>>
      /\ \A y \in Conns : \/ pc'[y] = pc[y]
                          \/ y = x /\ pc'[y] \in {"empty", "delete", "close"}
  BY DEF DoneLeaves, Placed, MinersOwn, RemoveChanel, CheckEmpty, DeleteStore, Removed, Goto
<1>2. \A n \in Miners \ {miner[x]} : minerConnections'[n] = minerConnections[n]
  BY <1>1 DEF RemoveChanel, CheckEmpty, DeleteStore
<1>3. \A n \in Miners \ {miner[x]} : minerConnections[n] # None =>
          channels'[minerConnections[n]] = channels[minerConnections[n]]
  <2>1. CASE RemoveChanel(x) /\ store[x] # None
    <3>1. store[x] \in Conns /\ CreatedFor(store[x], miner[x])
      BY <2>1 DEF Placed, StoreOwn, RemoveChanel
    <3>2. \A n \in Miners \ {miner[x]} : minerConnections[n] # store[x]
      BY <1>1, <3>1, StorePlace
    <3> QED BY <2>1, <3>1, <3>2 DEF RemoveChanel
  <2>2. CASE ~(RemoveChanel(x) /\ store[x] # None)
    BY <2>2 DEF RemoveChanel, CheckEmpty, DeleteStore
  <2> QED BY <2>1, <2>2
<1>4. ASSUME NEW y \in Conns, pc'[y] # "idle", ~HasEnded(miner[y])'
      PROVE  IF pc'[y] = "add" THEN store'[y] = minerConnections'[miner'[y]]
                               ELSE y \in Listed(miner[y])'
  <2>1. pc[y] # "idle"
    BY <1>1, <1>4
  <2>2. /\ miner[y] \in Miners
        /\ IF pc[y] = "add" THEN store[y] = minerConnections[miner[y]] ELSE y \in Listed(miner[y])
    BY <1>4, <2>1, EndedForGood DEF LastsUnlessEnded
  <2>3. miner[y] # miner[x] /\ y # x
    BY <1>1, <1>4 DEF HasEnded
  <2> QED BY <1>1, <1>2, <1>3, <2>2, <2>3 DEF Listed
<1> QED BY <1>4 DEF LastsUnlessEnded

LEMMA OthersLast ==
  ASSUME LossInv, [Next]_vars, UNCHANGED <<minerConnections, channels>>,
         \A y \in Conns : /\ pc[y] = "idle" <=> pc'[y] = "idle"
                          /\ pc[y] = "add" <=> pc'[y] = "add"
                          /\ pc[y] = "add" => store'[y] = store[y]
  PROVE  LastsUnlessEnded'
<1>1. ASSUME NEW y \in Conns, pc'[y] # "idle", ~HasEnded(miner[y])'
      PROVE  IF pc'[y] = "add" THEN store'[y] = minerConnections'[miner'[y]]
                               ELSE y \in Listed(miner[y])'
  <2>1. /\ miner'[y] = miner[y]
        /\ IF pc[y] = "add" THEN store[y] = minerConnections[miner[y]] ELSE y \in Listed(miner[y])
    BY <1>1, EndedForGood DEF LossInv, LastsUnlessEnded
  <2> QED BY <2>1 DEF Listed
<1> QED BY <1>1 DEF LastsUnlessEnded

LEMMA LossStep == LossInv /\ [Next]_vars => LossInv'
<1> SUFFICES ASSUME LossInv, [Next]_vars PROVE LossInv'
  OBVIOUS
<1>1. IInv' /\ DoneLeaves' /\ IdleIsNew'
  BY IInvStep, DoneStep, IdleStep DEF LossInv, IInv
<1>2. DOMAIN pc = Conns /\ DOMAIN store = Conns
  BY DEF LossInv, IInv, TypeOK
<1>3. ASSUME NEW x \in Conns, NEW m \in Miners, ListenProofEvent(x, m) PROVE LastsUnlessEnded'
  BY <1>3, ListenLasts
<1>4. ASSUME NEW x \in Conns, AddChanel(x) PROVE LastsUnlessEnded'
  BY <1>4, AddLasts
<1>5. ASSUME NEW x \in Conns, RemoveChanel(x) \/ CheckEmpty(x) \/ DeleteStore(x) PROVE LastsUnlessEnded'
  BY <1>5, OutLasts
<1>6. ASSUME NEW x \in Conns, \/ InitConnect(x) \/ ReceiveRequest(x) \/ RelayRequest(x)
                              \/ LookupStore(x) \/ CloseOut(x)
      PROVE  LastsUnlessEnded'
  <2>1. /\ UNCHANGED <<minerConnections, channels>>
        /\ pc[x] \notin {"idle", "add"} /\ pc'[x] \notin {"idle", "add"}
        /\ \A y \in Conns \ {x} : pc'[y] = pc[y] /\ store'[y] = store[y]
    BY <1>2, <1>6 DEF InitConnect, ReceiveRequest, RelayRequest, LookupStore, CloseOut, Goto
  <2> QED BY <2>1, OthersLast
<1>7. ASSUME \/ \E x \in Conns : ForwardToClient(x) \/ EndConnection(x)
             \/ \E q \in Requests : SenderStep(q)
             \/ UNCHANGED vars
      PROVE  LastsUnlessEnded'
  <2>1. UNCHANGED <<minerConnections, channels, pc, store>>
    BY <1>7 DEF ForwardToClient, EndConnection, SenderStep, LookupMiner, ListChannels, Send,
       vars, conns
  <2> QED BY <2>1, OthersLast
<1>8. LastsUnlessEnded'
  BY <1>3, <1>4, <1>5, <1>6, <1>7 DEF Next, ConnStep
<1> QED BY <1>1, <1>8 DEF LossInv

\* getChannels misses a connection that is announced and lasts only after another
\* connection of its miner has ended: what proof_event_test.go relies on is true of
\* a miner whose connections all last.
THEOREM LossIsExplained == Spec => []LossHasReason
<1>1. Init => LossInv
  BY IInvInit DEF Init, LossInv, DoneLeaves, IdleIsNew, LastsUnlessEnded
<1>2. LossInv => LossHasReason
  BY DEF LossInv, LastsUnlessEnded, HasEnded, LossHasReason
<1> QED BY <1>1, <1>2, LossStep, PTL DEF Spec
=============================================================================
