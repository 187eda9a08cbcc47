------------------------- MODULE WalletStreamProofs -------------------------
(***************************************************************************)
(* Theorems about WalletStream: which addresses and accounts get into      *)
(* walletInfos and to the auth service, and whom WalletSign asks.          *)
(***************************************************************************)
EXTENDS WalletStream, TLAPS

\* What an actor is about, once it has begun; verification is over in later phases.
Phases ==
    /\ \A p \in Actors :
        /\ pc[p] = "idle" => want[p] = {} /\ todo[p] = {}
        /\ pc[p] \in {"register", "addresses", "account"} => todo[p] = {}
        /\ pc[p] # "idle" => account[p] \in Wallets /\ on[p] \in Conns
    /\ \A x \in Conns : pc[x] # "idle" => on[x] = x

\* A client has no keys before it connects: afterwards they do not change.
HoldsLate == \A x \in Conns : pc[x] = "idle" => holds[x] = {}

\* The client behind on[p] has signed with the addresses p has ticked off.
Verified == \A p \in Actors : \A d \in want[p] \ todo[p] : on[p] \in Conns /\ d \in holds[on[p]]

\* Until its connection is added, a wallet's accounts are what its policy granted.
OwnAccounts ==
    \A x \in Conns : pc[x] \in {"list", "verify"} =>
        account[x] \in accounts[x] /\ accounts[x] \subseteq granted[account[x]]

SupportGranted == \A w \in Wallets : supportAccounts[w] \subseteq granted[w]

\* What is to be registered with the auth service: accounts the wallet has granted ...
AccountsGranted ==
    \A p \in Actors :
        /\ pc[p] = "idle" => accounts[p] = {}
        /\ pc[p] # "idle" => accounts[p] \subseteq granted[account[p]]

\* ... and addresses of one of its own connections.
OfWallet ==
    \A p \in Actors : want[p] # {} => pc[on[p]] # "idle" /\ account[on[p]] = account[p]

\* The connections WalletSign has found have begun, and were found for a signer.
TargetsBegun ==
    \A q \in Signs : targets[q] # {} => signer[q] # None /\ \A x \in targets[q] : pc[x] # "idle"

\* AddNewAddress in its course: the connection it found is still there, or has ended.
AddingShape ==
    \A n \in Calls :
        /\ pc[n] = "idle" => adding[n] = "none"
        /\ adding[n] = "asked" =>
            \/ on[n] \in done
            \/ pc[n] = "verify" /\ on[n] \in connections[account[n]]
            \/ pc[n] = "failed"

Verification == Phases /\ HoldsLate /\ Verified /\ AccountsGranted /\ OfWallet /\ OnlyVerified
Entries == EntriesAreLive /\ OwnAccounts /\ SupportGranted
Signing == SignIsEntitled /\ TargetsBegun

IInv == TypeOK /\ Verification /\ Entries /\ Signing /\ AddingShape

----------------------------------------------------------------------------
(* Types.                                                                  *)

LEMMA TypeInit == Init => TypeOK
BY DEF Init, TypeOK

\* No connection is a call.
LEMMA ActorsApart ==
    /\ \A x \in Conns : x \in Actors
    /\ \A n \in Calls : n \in Actors
    /\ \A x \in Conns, n \in Calls : x # n
BY NamesAssumption DEF Actors

LEMMA FailType ==
  ASSUME TypeOK, NEW p \in Actors, Fail(p)
  PROVE  /\ pc' \in [Actors -> {"idle", "list", "verify", "register", "init", "wait", "close", "closed",
                                "addresses", "account", "ok", "failed"}]
         /\ want' \in [Actors -> SUBSET Addrs] /\ todo' \in [Actors -> SUBSET Addrs]
         /\ accounts' \in [Actors -> SUBSET Accounts]
BY DEF TypeOK, Fail, Goto

LEMMA TypeStep == TypeOK /\ Phases /\ [Next]_vars => TypeOK'
<1> SUFFICES ASSUME TypeOK, Phases, [Next]_vars PROVE TypeOK'
  OBVIOUS
<1> USE ActorsApart DEF Goto, mgr, actors, signing, env
<1>1. ASSUME NEW x \in Conns, NEW w \in Wallets, NEW keys \in SUBSET Addrs,
             NEW policy \in SUBSET (Accounts \ {w}), ListenWalletEvent(x, w, policy, keys)
      PROVE  TypeOK'
  <2>1. policy \cup {w} \in SUBSET Accounts
    BY WalletsAssumption
  <2>2. granted' \in [Wallets -> SUBSET Accounts]
    BY <1>1, <2>1 DEF ListenWalletEvent, TypeOK
  <2> QED BY <1>1, <2>1, <2>2 DEF ListenWalletEvent, TypeOK
<1>2. ASSUME NEW n \in Calls, NEW w \in Wallets, NEW x \in Conns, NEW new \in SUBSET Addrs,
             GetConn(n, w, x, new)
      PROVE  TypeOK'
  BY <1>2 DEF GetConn, Begin, TypeOK
<1>3. ASSUME NEW n \in Calls, NEW w \in Wallets, NEW x \in Conns, NEW a \in Accounts,
             AddSupportAccount(n, w, x, a)
      PROVE  TypeOK'
  <2>1. supportAccounts' \in [Wallets -> SUBSET Accounts] /\ granted' \in [Wallets -> SUBSET Accounts]
    BY <1>3 DEF AddSupportAccount, TypeOK
  <2> QED BY <1>3, <2>1 DEF AddSupportAccount, Begin, TypeOK
<1>4. ASSUME NEW w \in Wallets, NEW x \in Conns, NEW old \in SUBSET Addrs, RemoveAddress(w, x, old)
      PROVE  TypeOK'
  BY <1>4 DEF RemoveAddress, TypeOK
<1>5. ASSUME NEW q \in Signs, NEW d \in Addrs, NEW a \in Accounts, GetChannels(q, d, a)
      PROVE  TypeOK'
  <2>1. Found(a, d) \subseteq Conns
    BY DEF Found, TypeOK
  <2>2. targets' \in [Signs -> SUBSET Conns] /\ asked' \in [Signs -> SUBSET Accounts]
    BY <1>5, <2>1 DEF GetChannels, TypeOK
  <2> QED BY <1>5, <2>2 DEF GetChannels, TypeOK
<1>6. ASSUME NEW x \in Conns, NEW l \in SUBSET Addrs, WalletList(x, l) PROVE TypeOK'
  BY <1>6 DEF WalletList, TypeOK
<1>7. ASSUME NEW x \in Conns, ListFails(x) PROVE TypeOK'
  BY <1>7, FailType DEF ListFails, TypeOK
<1>8. ASSUME NEW p \in Actors, VerifyAddress(p) PROVE TypeOK'
  BY <1>8 DEF VerifyAddress, TypeOK
<1>9. ASSUME NEW p \in Actors, VerifyFails(p) PROVE TypeOK'
  BY <1>9, FailType DEF VerifyFails, TypeOK
<1>10. ASSUME NEW p \in Actors, Register(p) PROVE TypeOK'
  <2>1. want[p] \subseteq Addrs /\ accounts[p] \subseteq Accounts
    BY DEF TypeOK
  <2>2. signers' \subseteq Accounts \X Addrs
    BY <1>10, <2>1 DEF Register, TypeOK
  <2>3. pc' \in [Actors -> {"idle", "list", "verify", "register", "init", "wait", "close", "closed",
                            "addresses", "account", "ok", "failed"}]
    BY <1>10 DEF Register, TypeOK
  <2> QED BY <1>10, <2>2, <2>3 DEF Register, TypeOK
<1>11. ASSUME NEW x \in Conns, AddNewConn(x) PROVE TypeOK'
  <2>1. account[x] \in Wallets
    BY <1>11 DEF AddNewConn, Phases
  <2>2. /\ connections' \in [Wallets -> SUBSET Conns]
        /\ supportAccounts' \in [Wallets -> SUBSET Accounts] /\ addrs' \in [Conns -> SUBSET Addrs]
    BY <1>11, <2>1 DEF AddNewConn, Supported, TypeOK
  <2> QED BY <1>11, <2>1, <2>2 DEF AddNewConn, TypeOK
<1>12. ASSUME NEW x \in Conns, RemoveConn(x) PROVE TypeOK'
  <2>1. /\ connections' \in [Wallets -> SUBSET Conns]
        /\ supportAccounts' \in [Wallets -> SUBSET Accounts] /\ walletInfos' \subseteq Wallets
    BY <1>12 DEF RemoveConn, TypeOK
  <2> QED BY <1>12, <2>1 DEF RemoveConn, TypeOK
<1>13. ASSUME NEW x \in Conns, InitConnect(x) \/ CloseOut(x) PROVE TypeOK'
  BY <1>13 DEF InitConnect, CloseOut, TypeOK
<1>14. ASSUME NEW n \in Calls, AddNewAddress(n) PROVE TypeOK'
  <2>1. addrs' \in [Conns -> SUBSET Addrs]
    BY <1>14 DEF AddNewAddress, TypeOK
  <2>2. adding' \in [Calls -> {"none", "asked", "added"}]
    BY <1>14 DEF AddNewAddress, TypeOK
  <2> QED BY <1>14, <2>1, <2>2, FailType DEF AddNewAddress, TypeOK
<1>15. ASSUME NEW n \in Calls, RegisterAddresses(n) PROVE TypeOK'
  <2>1. account[n] \in Wallets
    BY <1>15 DEF RegisterAddresses, Phases
  <2> QED BY <1>15, <2>1, FailType DEF RegisterAddresses, WalletDetail, TypeOK
<1>16. ASSUME NEW n \in Calls, RegisterAccount(n) PROVE TypeOK'
  <2>1. on[n] \in Conns
    BY <1>16 DEF RegisterAccount, Phases
  <2>2. CASE Fail(n)
    BY <1>16, <2>2, FailType DEF RegisterAccount, TypeOK
  <2>3. CASE ~Fail(n)
    <3>1. (IF on[n] \in connections[account[n]] THEN addrs[on[n]] ELSE {}) \in SUBSET Addrs
      BY <2>1 DEF TypeOK
    <3> QED BY <1>16, <2>3, <3>1 DEF RegisterAccount, WalletDetail, TypeOK
  <2> QED BY <2>2, <2>3
<1>17. ASSUME NEW x \in Conns, Fill(x) \/ Drain(x) \/ EndConnection(x) PROVE TypeOK'
  BY <1>17 DEF Fill, Drain, EndConnection, TypeOK
<1>18. CASE UNCHANGED vars
  BY <1>18 DEF vars, TypeOK
<1> QED BY <1>1, <1>2, <1>3, <1>4, <1>5, <1>6, <1>7, <1>8, <1>9, <1>10, <1>11, <1>12, <1>13, <1>14,
           <1>15, <1>16, <1>17, <1>18 DEF Next, NewCall, ConnStep, CallStep

----------------------------------------------------------------------------
(* Verification.                                                           *)

LEMMA FailShape ==
  ASSUME TypeOK, NEW p \in Actors, Fail(p)
  PROVE  /\ pc'[p] \in {"closed", "failed"} /\ want'[p] = {} /\ todo'[p] = {}
         /\ \A q \in Actors : q # p =>
                /\ pc'[q] = pc[q] /\ want'[q] = want[q] /\ todo'[q] = todo[q]
                /\ accounts'[q] = accounts[q]
BY DEF Fail, Goto, TypeOK

\* Nobody becomes idle again, and nobody who has begun changes what he is about.
LEMMA Begun ==
  ASSUME TypeOK, Next, NEW p \in Actors, pc[p] # "idle"
  PROVE  pc'[p] # "idle" /\ account'[p] = account[p] /\ on'[p] = on[p]
<1> USE ActorsApart DEF Goto, TypeOK, actors
<1>1. CASE NewCall
  BY <1>1 DEF NewCall, ListenWalletEvent, GetConn, AddSupportAccount, Begin, RemoveAddress, GetChannels
<1>2. ASSUME NEW x \in Conns, ConnStep(x)
      PROVE  pc'[p] # "idle" /\ UNCHANGED <<account, on>>
  BY <1>2 DEF ConnStep, WalletList, ListFails, VerifyAddress, VerifyFails, AddNewConn, Register,
     InitConnect, RemoveConn, CloseOut, Fail
<1>3. ASSUME NEW x \in Conns, Fill(x) \/ Drain(x) \/ EndConnection(x)
      PROVE  pc'[p] # "idle" /\ UNCHANGED <<account, on>>
  BY <1>3 DEF Fill, Drain, EndConnection
<1>4. ASSUME NEW n \in Calls, CallStep(n)
      PROVE  pc'[p] # "idle" /\ UNCHANGED <<account, on>>
  BY <1>4 DEF CallStep, VerifyAddress, VerifyFails, AddNewAddress, RegisterAddresses, RegisterAccount,
     Register, Fail
<1> QED BY <1>1, <1>2, <1>3, <1>4 DEF Next

\* Clients keep their keys.
LEMMA KeysStay ==
  ASSUME TypeOK, HoldsLate, Next
  PROVE  HoldsLate' /\ \A x \in Conns : holds[x] \subseteq holds'[x]
<1> USE ActorsApart DEF HoldsLate
<1>1. ASSUME NEW x \in Conns, NEW w \in Wallets, NEW keys \in SUBSET Addrs,
             NEW policy \in SUBSET (Accounts \ {w}), ListenWalletEvent(x, w, policy, keys)
      PROVE  HoldsLate' /\ \A y \in Conns : holds[y] \subseteq holds'[y]
  BY <1>1 DEF ListenWalletEvent, Goto, TypeOK
<1>2. CASE UNCHANGED holds
  BY <1>2, Begun
<1>3. \/ \E x \in Conns, w \in Wallets, keys \in SUBSET Addrs :
            \E policy \in SUBSET (Accounts \ {w}) : ListenWalletEvent(x, w, policy, keys)
      \/ UNCHANGED holds
  BY DEF Next, NewCall, GetConn, AddSupportAccount, RemoveAddress, GetChannels, ConnStep, CallStep,
     WalletList, ListFails, VerifyAddress, VerifyFails, AddNewConn, Register, InitConnect, RemoveConn,
     CloseOut, AddNewAddress, RegisterAddresses, RegisterAccount, Fill, Drain, EndConnection, env
<1> QED BY <1>1, <1>2, <1>3

\* Whoever takes a step of his own stays within what he is about.
LEMMA PhasesStep ==
  ASSUME TypeOK, Phases, Next
  PROVE  Phases'
<1> USE ActorsApart DEF TypeOK, Goto
<1>1. ASSUME NEW x \in Conns, NEW w \in Wallets, NEW keys \in SUBSET Addrs,
             NEW policy \in SUBSET (Accounts \ {w}), ListenWalletEvent(x, w, policy, keys)
      PROVE  Phases'
  BY <1>1 DEF ListenWalletEvent, Phases
<1>2. ASSUME NEW n \in Calls, NEW w \in Wallets, NEW x \in Conns, NEW new \in SUBSET Addrs,
             GetConn(n, w, x, new)
      PROVE  Phases'
  BY <1>2 DEF GetConn, Begin, Phases
<1>3. ASSUME NEW n \in Calls, NEW w \in Wallets, NEW x \in Conns, NEW a \in Accounts,
             AddSupportAccount(n, w, x, a)
      PROVE  Phases'
  <2>1. n \in Actors /\ n \notin Conns
    OBVIOUS
  <2> QED BY <1>3, <2>1 DEF AddSupportAccount, Begin, Phases
<1>4. ASSUME NEW p \in Actors, VerifyAddress(p) \/ Register(p) PROVE Phases'
  BY <1>4 DEF VerifyAddress, Register, Phases
<1>5. ASSUME NEW p \in Actors, Fail(p), UNCHANGED <<account, on>>, pc[p] # "idle" PROVE Phases'
  BY <1>5, FailShape DEF Phases
<1>6. ASSUME NEW x \in Conns, NEW l \in SUBSET Addrs, WalletList(x, l) PROVE Phases'
  BY <1>6 DEF WalletList, Phases
<1>7. ASSUME NEW x \in Conns, AddNewConn(x) \/ InitConnect(x) \/ RemoveConn(x) \/ CloseOut(x)
      PROVE  Phases'
  BY <1>7 DEF AddNewConn, InitConnect, RemoveConn, CloseOut, Phases
<1>8. ASSUME NEW n \in Calls, AddNewAddress(n), ~Fail(n) PROVE Phases'
  BY <1>8 DEF AddNewAddress, Phases
<1>9. ASSUME NEW n \in Calls, RegisterAddresses(n) \/ RegisterAccount(n), ~Fail(n) PROVE Phases'
  BY <1>9 DEF RegisterAddresses, RegisterAccount, Phases
<1>10. CASE UNCHANGED actors
  BY <1>10 DEF actors, Phases
<1>11. \A p \in Actors : ListFails(p) \/ VerifyFails(p) =>
           Fail(p) /\ UNCHANGED <<account, on>> /\ pc[p] # "idle"
  BY DEF ListFails, VerifyFails
<1>12. \A n \in Calls : AddNewAddress(n) \/ RegisterAddresses(n) \/ RegisterAccount(n) =>
           UNCHANGED <<account, on>> /\ pc[n] # "idle"
  BY DEF AddNewAddress, RegisterAddresses, RegisterAccount
<1>13. ASSUME \/ \E x \in Conns : Fill(x) \/ Drain(x) \/ EndConnection(x)
              \/ \E w \in Wallets, x \in Conns, old \in SUBSET Addrs : RemoveAddress(w, x, old)
              \/ \E q \in Signs, d \in Addrs, a \in Accounts : GetChannels(q, d, a)
       PROVE  UNCHANGED actors
  BY <1>13 DEF Fill, Drain, EndConnection, RemoveAddress, GetChannels
<1> QED BY <1>1, <1>2, <1>3, <1>4, <1>5, <1>6, <1>7, <1>8, <1>9, <1>10, <1>11, <1>12, <1>13
        DEF Next, NewCall, ConnStep, CallStep

\* An address is ticked off, or taken over, only when the client has its key.
LEMMA VerifiedStep ==
  ASSUME TypeOK, Phases, HoldsLate, Verified, OnlyVerified, Next
  PROVE  Verified'
<1> USE ActorsApart DEF TypeOK, Goto
<1> DEFINE Kept(p) == \A d \in want'[p] \ todo'[p] : d \in want[p] \ todo[p] /\ on'[p] = on[p]
<1>1. \A x \in Conns : holds[x] \subseteq holds'[x]
  BY KeysStay
<1>2. ASSUME NEW p \in Actors, Kept(p), NEW d \in want'[p] \ todo'[p]
      PROVE  on'[p] \in Conns /\ d \in holds'[on'[p]]
  BY <1>1, <1>2 DEF Verified
<1>3. ASSUME NEW x \in Conns, NEW w \in Wallets, NEW keys \in SUBSET Addrs,
             NEW policy \in SUBSET (Accounts \ {w}), ListenWalletEvent(x, w, policy, keys)
      PROVE  \A p \in Actors : Kept(p)
  BY <1>3 DEF ListenWalletEvent, Phases
<1>4. ASSUME NEW n \in Calls, NEW w \in Wallets, NEW x \in Conns, NEW new \in SUBSET Addrs,
             GetConn(n, w, x, new)
      PROVE  \A p \in Actors : Kept(p)
  BY <1>4 DEF GetConn, Begin, Phases
<1>5. ASSUME NEW n \in Calls, NEW w \in Wallets, NEW x \in Conns, NEW a \in Accounts,
             AddSupportAccount(n, w, x, a)
      PROVE  \A p \in Actors : Kept(p)
  BY <1>5 DEF AddSupportAccount, Begin, Phases
<1>6. ASSUME NEW p \in Actors, Fail(p), UNCHANGED on PROVE \A q \in Actors : Kept(q)
  BY <1>6, FailShape
<1>7. ASSUME NEW x \in Conns, NEW l \in SUBSET Addrs, WalletList(x, l) PROVE \A p \in Actors : Kept(p)
  BY <1>7 DEF WalletList
<1>8. ASSUME NEW p \in Actors, Register(p) PROVE \A q \in Actors : Kept(q)
  BY <1>8 DEF Register
<1>9. ASSUME UNCHANGED <<on, want, todo>> PROVE \A p \in Actors : Kept(p)
  BY <1>9
<1>10. CASE \A p \in Actors : Kept(p)
  BY <1>2, <1>10 DEF Verified
<1>11. ASSUME NEW p \in Actors, VerifyAddress(p) PROVE Verified'
  <2>1. PICK e \in todo[p] \cap holds[on[p]] : todo' = [todo EXCEPT ![p] = @ \ {e}]
    BY <1>11 DEF VerifyAddress, Verifiable
  <2>2. on[p] \in Conns
    BY <1>11 DEF VerifyAddress, Phases
  <2>3. ASSUME NEW q \in Actors, NEW d \in want'[q] \ todo'[q]
        PROVE  on'[q] \in Conns /\ d \in holds'[on'[q]]
    <3>1. on'[q] = on[q] /\ d \in want[q]
      BY <1>11, <2>3 DEF VerifyAddress
    <3>2. CASE d \notin todo[q]
      BY <1>1, <3>1, <3>2 DEF Verified
    <3>3. CASE d \in todo[q]
      <4>1. q = p /\ d = e
        BY <2>1, <2>3, <3>3
      <4> QED BY <1>1, <2>1, <2>2, <3>1, <4>1
    <3> QED BY <3>2, <3>3
  <2> QED BY <2>3 DEF Verified
<1>12. ASSUME NEW n \in Calls, RegisterAccount(n), ~Fail(n) PROVE Verified'
  <2>1. on[n] \in Conns /\ UNCHANGED <<on, todo>>
    BY <1>12 DEF RegisterAccount, Phases
  <2>2. want'[n] \subseteq addrs[on[n]] /\ \A q \in Actors : q # n => want'[q] = want[q]
    BY <1>12 DEF RegisterAccount, WalletDetail
  <2>3. \A d \in want'[n] : d \in holds[on[n]]
    BY <2>1, <2>2 DEF OnlyVerified
  <2> QED BY <1>1, <2>1, <2>2, <2>3 DEF Verified
<1>13. \/ \E p \in Actors : VerifyAddress(p)
       \/ \E n \in Calls : RegisterAccount(n) /\ ~Fail(n)
       \/ \A p \in Actors : Kept(p)
  <2>1. ASSUME \/ \E x \in Conns : \/ ListFails(x) \/ VerifyFails(x) \/ AddNewConn(x) \/ InitConnect(x)
                                   \/ RemoveConn(x) \/ CloseOut(x) \/ Fill(x) \/ Drain(x)
                                   \/ EndConnection(x)
               \/ \E n \in Calls : \/ VerifyFails(n) \/ AddNewAddress(n) \/ RegisterAddresses(n)
                                   \/ RegisterAccount(n) /\ Fail(n)
               \/ \E w \in Wallets, x \in Conns, old \in SUBSET Addrs : RemoveAddress(w, x, old)
               \/ \E q \in Signs, d \in Addrs, a \in Accounts : GetChannels(q, d, a)
        PROVE  (\E p \in Actors : Fail(p) /\ UNCHANGED on) \/ UNCHANGED <<on, want, todo>>
    BY <2>1 DEF ListFails, VerifyFails, AddNewConn, InitConnect, RemoveConn, CloseOut, Fill, Drain,
       EndConnection, AddNewAddress, RegisterAddresses, RegisterAccount, RemoveAddress, GetChannels, actors
  <2> HIDE DEF Kept
  <2> QED BY <1>3, <1>4, <1>5, <1>6, <1>7, <1>8, <1>9, <2>1 DEF Next, NewCall, ConnStep, CallStep
<1> QED BY <1>10, <1>11, <1>12, <1>13

----------------------------------------------------------------------------
(* The entries of walletInfos.                                             *)

\* granted only grows.
LEMMA GrantsStay ==
  ASSUME TypeOK, Next PROVE \A w \in Wallets : granted[w] \subseteq granted'[w]
<1>1. \/ \E w \in Wallets : \E more : granted' = [granted EXCEPT ![w] = @ \cup more]
      \/ UNCHANGED granted
  <2>1. ASSUME NEW x \in Conns, NEW w \in Wallets, NEW keys, NEW policy, ListenWalletEvent(x, w, policy, keys)
        PROVE  granted' = [granted EXCEPT ![w] = @ \cup (policy \cup {w})]
    BY <2>1 DEF ListenWalletEvent, TypeOK
  <2>2. ASSUME NEW n \in Calls, NEW w \in Wallets, NEW x \in Conns, NEW a, AddSupportAccount(n, w, x, a)
        PROVE  granted' = [granted EXCEPT ![w] = @ \cup {a}]
    BY <2>2 DEF AddSupportAccount
  <2>3. \/ \E x \in Conns, w \in Wallets, keys \in SUBSET Addrs :
              \E policy \in SUBSET (Accounts \ {w}) : ListenWalletEvent(x, w, policy, keys)
        \/ \E n \in Calls, w \in Wallets, x \in Conns, a \in Accounts : AddSupportAccount(n, w, x, a)
        \/ UNCHANGED granted
    BY DEF Next, NewCall, GetConn, RemoveAddress, GetChannels, ConnStep, CallStep,
       WalletList, ListFails, VerifyAddress, VerifyFails, AddNewConn, Register, InitConnect, RemoveConn,
       CloseOut, AddNewAddress, RegisterAddresses, RegisterAccount, Fill, Drain, EndConnection
  <2> QED BY <2>1, <2>2, <2>3
<1> QED BY <1>1 DEF TypeOK

\* What a connection may be asked for until it is added.
LEMMA OwnAccountsStep ==
  ASSUME TypeOK, Phases, OwnAccounts, Next PROVE OwnAccounts'
<1> USE ActorsApart DEF TypeOK, Goto, actors
<1>1. \A w \in Wallets : granted[w] \subseteq granted'[w]
  BY GrantsStay
<1>2. ASSUME NEW x \in Conns, pc'[x] \in {"list", "verify"}, pc[x] \in {"list", "verify"},
             account'[x] = account[x], accounts'[x] = accounts[x]
      PROVE  account'[x] \in accounts'[x] /\ accounts'[x] \subseteq granted'[account'[x]]
  BY <1>1, <1>2 DEF OwnAccounts, Phases
<1>3. ASSUME NEW x \in Conns, NEW w \in Wallets, NEW keys \in SUBSET Addrs,
             NEW policy \in SUBSET (Accounts \ {w}), ListenWalletEvent(x, w, policy, keys)
      PROVE  OwnAccounts'
  <2>1. account'[x] = w /\ accounts'[x] = policy \cup {w} /\ policy \cup {w} \subseteq granted'[w]
    BY <1>3 DEF ListenWalletEvent
  <2>2. \A y \in Conns : y # x =>
            pc'[y] = pc[y] /\ account'[y] = account[y] /\ accounts'[y] = accounts[y]
    BY <1>3 DEF ListenWalletEvent
  <2> QED BY <1>2, <2>1, <2>2 DEF OwnAccounts
<1>4. ASSUME \A x \in Conns : pc'[x] \in {"list", "verify"} =>
                 /\ pc[x] \in {"list", "verify"}
                 /\ account'[x] = account[x] /\ accounts'[x] = accounts[x]
      PROVE  OwnAccounts'
  BY <1>2, <1>4 DEF OwnAccounts
<1>5. ASSUME NEW n \in Calls, \/ CallStep(n)
                              \/ \E w \in Wallets, x \in Conns, new \in SUBSET Addrs : GetConn(n, w, x, new)
                              \/ \E w \in Wallets, x \in Conns, a \in Accounts : AddSupportAccount(n, w, x, a),
             NEW x \in Conns
      PROVE  pc'[x] = pc[x] /\ account'[x] = account[x] /\ accounts'[x] = accounts[x]
  <2>1. x # n
    BY ActorsApart
  <2>2. CASE CallStep(n)
    BY <2>1, <2>2 DEF CallStep, VerifyAddress, VerifyFails, AddNewAddress, RegisterAddresses,
       RegisterAccount, Register, Fail
  <2> QED BY <1>5, <2>1, <2>2 DEF GetConn, AddSupportAccount, Begin
<1>6. ASSUME NEW x \in Conns, NEW y \in Conns, ConnStep(y), pc'[x] \in {"list", "verify"}
      PROVE  /\ pc[x] \in {"list", "verify"}
             /\ account'[x] = account[x] /\ accounts'[x] = accounts[x]
  <2>1. CASE x = y
    BY <1>6, <2>1 DEF ConnStep, WalletList, ListFails, VerifyAddress, VerifyFails, AddNewConn, Register,
       InitConnect, RemoveConn, CloseOut, Fail
  <2>2. CASE x # y
    BY <1>6, <2>2 DEF ConnStep, WalletList, ListFails, VerifyAddress, VerifyFails, AddNewConn, Register,
       InitConnect, RemoveConn, CloseOut, Fail
  <2> QED BY <2>1, <2>2
<1>7. ASSUME \/ \E x \in Conns : Fill(x) \/ Drain(x) \/ EndConnection(x)
             \/ \E w \in Wallets, x \in Conns, old \in SUBSET Addrs : RemoveAddress(w, x, old)
             \/ \E q \in Signs, d \in Addrs, a \in Accounts : GetChannels(q, d, a)
      PROVE  UNCHANGED actors
  BY <1>7 DEF Fill, Drain, EndConnection, RemoveAddress, GetChannels
<1> QED BY <1>3, <1>4, <1>5, <1>6, <1>7 DEF Next, NewCall

\* An entry gets the accounts granted to it, whoever brings them.
LEMMA SupportGrantedStep ==
  ASSUME TypeOK, Phases, OwnAccounts, SupportGranted, Next PROVE SupportGranted'
<1> USE DEF TypeOK
<1>1. \A w \in Wallets : granted[w] \subseteq granted'[w]
  BY GrantsStay
<1>2. ASSUME NEW x \in Conns, AddNewConn(x) PROVE SupportGranted'
  <2>1. accounts[x] \subseteq granted[account[x]]
    BY <1>2 DEF AddNewConn, OwnAccounts
  <2> QED BY <1>1, <1>2, <2>1 DEF AddNewConn, Supported, SupportGranted
<1>3. ASSUME NEW n \in Calls, NEW w \in Wallets, NEW x \in Conns, NEW a \in Accounts,
             AddSupportAccount(n, w, x, a)
      PROVE  SupportGranted'
  BY <1>3 DEF AddSupportAccount, SupportGranted
<1>4. ASSUME NEW x \in Conns, RemoveConn(x) PROVE SupportGranted'
  BY <1>1, <1>4 DEF RemoveConn, SupportGranted
<1>5. CASE UNCHANGED supportAccounts
  BY <1>1, <1>5 DEF SupportGranted
<1>6. \/ \E x \in Conns : AddNewConn(x) \/ RemoveConn(x)
      \/ \E n \in Calls, w \in Wallets, x \in Conns, a \in Accounts : AddSupportAccount(n, w, x, a)
      \/ UNCHANGED supportAccounts
  BY DEF Next, NewCall, ListenWalletEvent, GetConn, RemoveAddress, GetChannels, ConnStep, CallStep,
     WalletList, ListFails, VerifyAddress, VerifyFails, Register, InitConnect,
     CloseOut, AddNewAddress, RegisterAddresses, RegisterAccount, Fill, Drain, EndConnection, mgr
<1> QED BY <1>2, <1>3, <1>4, <1>5, <1>6

\* The accounts an actor is to register are granted.
LEMMA AccountsGrantedStep ==
  ASSUME TypeOK, Phases, SupportGranted, AccountsGranted, Next PROVE AccountsGranted'
<1> USE ActorsApart DEF TypeOK, Goto
<1> DEFINE Kept(p) == pc[p] # "idle" /\ accounts'[p] \subseteq accounts[p]
           Same(p) == pc'[p] = pc[p] /\ accounts'[p] = accounts[p]
           Good(p) == /\ pc'[p] = "idle" => accounts'[p] = {}
                      /\ pc'[p] # "idle" => accounts'[p] \subseteq granted'[account'[p]]
<1>1. \A w \in Wallets : granted[w] \subseteq granted'[w]
  BY GrantsStay
<1>2. ASSUME NEW p \in Actors, Kept(p) \/ Same(p) PROVE Good(p)
  <2>1. CASE pc[p] = "idle"
    BY <1>2, <2>1 DEF AccountsGranted
  <2>2. CASE pc[p] # "idle"
    <3>1. account[p] \in Wallets /\ accounts[p] \subseteq granted[account[p]]
      BY <2>2 DEF AccountsGranted, Phases
    <3>2. pc'[p] # "idle" /\ account'[p] = account[p]
      BY <2>2, Begun
    <3> QED BY <1>1, <1>2, <2>2, <3>1, <3>2
  <2> QED BY <2>1, <2>2
<1>3. ASSUME NEW x \in Conns, NEW w \in Wallets, NEW keys \in SUBSET Addrs,
             NEW policy \in SUBSET (Accounts \ {w}), ListenWalletEvent(x, w, policy, keys)
      PROVE  \A p \in Actors : Good(p)
  <2>1. Good(x)
    BY <1>3 DEF ListenWalletEvent
  <2>2. \A p \in Actors : p # x => Same(p)
    BY <1>3 DEF ListenWalletEvent
  <2> QED BY <1>2, <2>1, <2>2
<1>4. ASSUME NEW n \in Calls, NEW w \in Wallets, NEW x \in Conns, NEW new \in SUBSET Addrs,
             GetConn(n, w, x, new)
      PROVE  \A p \in Actors : Good(p)
  <2>1. accounts'[n] = {}
    BY <1>4 DEF GetConn, Begin, AccountsGranted
  <2>2. Good(n) /\ \A p \in Actors : p # n => Same(p)
    BY <1>4, <2>1 DEF GetConn
  <2> QED BY <1>2, <2>2
<1>5. ASSUME NEW n \in Calls, NEW w \in Wallets, NEW x \in Conns, NEW a \in Accounts,
             AddSupportAccount(n, w, x, a)
      PROVE  \A p \in Actors : Good(p)
  <2>1. Good(n) /\ \A p \in Actors : p # n => Same(p)
    BY <1>5 DEF AddSupportAccount, Begin
  <2> QED BY <1>2, <2>1
<1>6. ASSUME NEW p \in Actors, Fail(p), pc[p] # "idle" PROVE \A q \in Actors : Good(q)
  <2>1. accounts'[p] = {} /\ \A q \in Actors : q # p => Same(q)
    BY <1>6 DEF Fail
  <2> QED BY <1>2, <1>6, <2>1
<1>7. ASSUME NEW n \in Calls, RegisterAddresses(n), ~Fail(n) PROVE \A p \in Actors : Good(p)
  <2>1. account[n] \in Wallets
    BY <1>7 DEF RegisterAddresses, Phases
  <2>2. Good(n)
    BY <1>1, <1>7, <2>1 DEF RegisterAddresses, WalletDetail, SupportGranted
  <2>3. \A p \in Actors : p # n => Same(p)
    BY <1>7 DEF RegisterAddresses
  <2> QED BY <1>2, <2>2, <2>3
<1>8. ASSUME NEW p \in Actors,
             \/ VerifyAddress(p) \/ Register(p) \/ AddNewConn(p) \/ InitConnect(p) \/ RemoveConn(p)
             \/ CloseOut(p) \/ \E l \in SUBSET Addrs : WalletList(p, l)
             \/ (AddNewAddress(p) \/ RegisterAccount(p)) /\ ~Fail(p)
      PROVE  \A q \in Actors : Good(q)
  <2>1. \A q \in Actors : Kept(q) \/ Same(q)
    BY <1>8 DEF VerifyAddress, Register, AddNewConn, InitConnect, RemoveConn, CloseOut, WalletList,
       AddNewAddress, RegisterAccount
  <2> QED BY <1>2, <2>1
<1>9. ASSUME UNCHANGED actors PROVE \A p \in Actors : Good(p)
  <2>1. \A p \in Actors : Same(p)
    BY <1>9 DEF actors
  <2> QED BY <1>2, <2>1
<1>10. ASSUME \/ \E x \in Conns : Fill(x) \/ Drain(x) \/ EndConnection(x)
              \/ \E w \in Wallets, x \in Conns, old \in SUBSET Addrs : RemoveAddress(w, x, old)
              \/ \E q \in Signs, d \in Addrs, a \in Accounts : GetChannels(q, d, a)
       PROVE  UNCHANGED actors
  BY <1>10 DEF Fill, Drain, EndConnection, RemoveAddress, GetChannels
<1>11. \A p \in Actors : ListFails(p) \/ VerifyFails(p) => Fail(p) /\ pc[p] # "idle"
  BY DEF ListFails, VerifyFails
<1>12. \A n \in Calls : AddNewAddress(n) \/ RegisterAddresses(n) \/ RegisterAccount(n) => pc[n] # "idle"
  BY DEF AddNewAddress, RegisterAddresses, RegisterAccount
<1>13. \A p \in Actors : Good(p)
  <2> HIDE DEF Good
  <2> QED BY <1>3, <1>4, <1>5, <1>6, <1>7, <1>8, <1>9, <1>10, <1>11, <1>12
          DEF Next, NewCall, ConnStep, CallStep
<1> QED BY <1>13 DEF AccountsGranted

\* The addresses an actor is to register are of a connection of its own wallet.
LEMMA OfWalletStep ==
  ASSUME TypeOK, Phases, EntriesAreLive, OfWallet, Next PROVE OfWallet'
<1> USE ActorsApart DEF TypeOK, Goto
<1> DEFINE Kept(p) == want'[p] # {} => want[p] # {}
           Good(p) == want'[p] # {} => pc'[on'[p]] # "idle" /\ account'[on'[p]] = account'[p]
<1>1. ASSUME NEW p \in Actors, pc[p] # "idle", on[p] \in Conns, pc[on[p]] # "idle",
             account[on[p]] = account[p]
      PROVE  Good(p)
  BY <1>1, Begun
<1>2. ASSUME NEW p \in Actors, Kept(p) PROVE Good(p)
  <2>1. CASE want'[p] = {}
    BY <2>1
  <2>2. CASE want[p] # {}
    <3>1. pc[p] # "idle" /\ on[p] \in Conns /\ pc[on[p]] # "idle" /\ account[on[p]] = account[p]
      BY <2>2 DEF Phases, OfWallet
    <3> QED BY <1>1, <3>1
  <2> QED BY <1>2, <2>1, <2>2
<1>3. ASSUME NEW n \in Calls, NEW w \in Wallets, NEW x \in Conns, NEW new \in SUBSET Addrs,
             GetConn(n, w, x, new)
      PROVE  \A p \in Actors : Good(p)
  <2>1. account[x] = w /\ pc[x] # "idle" /\ x # n
    <3>1. x \in connections[w]
      BY <1>3 DEF GetConn, Connected
    <3> QED BY <3>1 DEF EntriesAreLive
  <2>2. account'[n] = w /\ on'[n] = x /\ account'[x] = account[x] /\ pc'[x] = pc[x]
    BY <1>3, <2>1 DEF GetConn, Begin
  <2>3. \A p \in Actors : p # n => Kept(p)
    BY <1>3 DEF GetConn
  <2> QED BY <1>2, <2>1, <2>2, <2>3
<1>4. ASSUME NEW x \in Conns, NEW l \in SUBSET Addrs, WalletList(x, l) PROVE \A p \in Actors : Good(p)
  <2>1. on[x] = x /\ pc[x] # "idle"
    BY <1>4 DEF WalletList, Phases
  <2>2. \A p \in Actors : p # x => Kept(p)
    BY <1>4 DEF WalletList
  <2> QED BY <1>1, <1>2, <2>1, <2>2
<1>5. ASSUME NEW n \in Calls, RegisterAccount(n), ~Fail(n) PROVE \A p \in Actors : Good(p)
  <2>1. pc[n] # "idle" /\ account[n] \in Wallets /\ on[n] \in Conns
    BY <1>5 DEF RegisterAccount, Phases
  <2>2. want'[n] # {} => on[n] \in connections[account[n]]
    BY <1>5 DEF RegisterAccount
  <2>3. want'[n] # {} => account[on[n]] = account[n] /\ pc[on[n]] # "idle"
    BY <2>1, <2>2 DEF EntriesAreLive
  <2>4. \A p \in Actors : p # n => Kept(p)
    BY <1>5 DEF RegisterAccount
  <2>5. Good(n)
    BY <1>1, <2>1, <2>3
  <2> QED BY <1>2, <2>4, <2>5
<1>6. ASSUME NEW p \in Actors, Fail(p) PROVE \A q \in Actors : Kept(q)
  BY <1>6, FailShape
<1>7. ASSUME NEW p \in Actors, Register(p) PROVE \A q \in Actors : Kept(q)
  BY <1>7 DEF Register
<1>8. ASSUME \/ \E x \in Conns : \/ ListFails(x) \/ VerifyFails(x) \/ AddNewConn(x) \/ InitConnect(x)
                                 \/ RemoveConn(x) \/ CloseOut(x) \/ Fill(x) \/ Drain(x)
                                 \/ EndConnection(x)
             \/ \E p \in Actors : VerifyAddress(p)
             \/ \E x \in Conns, w \in Wallets, keys \in SUBSET Addrs :
                  \E policy \in SUBSET (Accounts \ {w}) : ListenWalletEvent(x, w, policy, keys)
             \/ \E n \in Calls, w \in Wallets, x \in Conns, a \in Accounts : AddSupportAccount(n, w, x, a)
             \/ \E n \in Calls : \/ VerifyFails(n) \/ AddNewAddress(n) \/ RegisterAddresses(n)
                                 \/ RegisterAccount(n) /\ Fail(n)
             \/ \E w \in Wallets, x \in Conns, old \in SUBSET Addrs : RemoveAddress(w, x, old)
             \/ \E q \in Signs, d \in Addrs, a \in Accounts : GetChannels(q, d, a)
      PROVE  (\E p \in Actors : Fail(p)) \/ UNCHANGED want
  BY <1>8 DEF ListFails, VerifyFails, AddNewConn, InitConnect, RemoveConn, CloseOut, Fill, Drain,
     EndConnection, VerifyAddress, ListenWalletEvent, AddSupportAccount, AddNewAddress,
     RegisterAddresses, RegisterAccount, RemoveAddress, GetChannels, actors
<1>9. \A p \in Actors : Good(p)
  <2>1. ASSUME UNCHANGED want PROVE \A p \in Actors : Kept(p)
    BY <2>1
  <2> HIDE DEF Good, Kept
  <2> QED BY <1>2, <1>3, <1>4, <1>5, <1>6, <1>7, <1>8, <2>1 DEF Next, NewCall, ConnStep, CallStep
<1> QED BY <1>9 DEF OfWallet

\* Addresses are registered only from the verified ones.
LEMMA OnlyVerifiedStep ==
  ASSUME TypeOK, Phases, HoldsLate, Verified, AccountsGranted, OfWallet, OnlyVerified, Next
  PROVE  OnlyVerified'
<1> USE ActorsApart DEF TypeOK
<1>1. \A x \in Conns : holds[x] \subseteq holds'[x]
  BY KeysStay
<1>2. \A p \in Actors : pc[p] # "idle" /\ todo[p] = {} => on[p] \in Conns /\ want[p] \subseteq holds[on[p]]
  BY DEF Verified, Phases
<1>3. \A x \in Conns : addrs'[x] \subseteq holds[x]
  <2>1. ASSUME NEW x \in Conns, AddNewConn(x) PROVE \A y \in Conns : addrs'[y] \subseteq holds[y]
    <3>1. on[x] = x /\ want[x] \subseteq holds[x]
      BY <1>2, <2>1 DEF AddNewConn, Phases
    <3> QED BY <2>1, <3>1 DEF AddNewConn, OnlyVerified
  <2>2. ASSUME NEW n \in Calls, AddNewAddress(n) PROVE \A y \in Conns : addrs'[y] \subseteq holds[y]
    <3>1. on[n] \in Conns /\ want[n] \subseteq holds[on[n]]
      BY <1>2, <2>2 DEF AddNewAddress
    <3> QED BY <2>2, <3>1 DEF AddNewAddress, OnlyVerified
  <2>3. ASSUME NEW w \in Wallets, NEW x \in Conns, NEW old \in SUBSET Addrs, RemoveAddress(w, x, old)
        PROVE  \A y \in Conns : addrs'[y] \subseteq holds[y]
    BY <2>3 DEF RemoveAddress, OnlyVerified
  <2>4. CASE UNCHANGED addrs
    BY <2>4 DEF OnlyVerified
  <2>5. \/ \E x \in Conns : AddNewConn(x)
        \/ \E n \in Calls : AddNewAddress(n)
        \/ \E w \in Wallets, x \in Conns, old \in SUBSET Addrs : RemoveAddress(w, x, old)
        \/ UNCHANGED addrs
    BY DEF Next, NewCall, ListenWalletEvent, GetConn, AddSupportAccount, GetChannels, ConnStep, CallStep,
       WalletList, ListFails, VerifyAddress, VerifyFails, Register, InitConnect, RemoveConn, CloseOut,
       RegisterAddresses, RegisterAccount, Fill, Drain, EndConnection, mgr
  <2> QED BY <2>1, <2>2, <2>3, <2>4, <2>5
<1>4. ASSUME NEW x \in Conns, holds[x] # {}, account[x] \in Wallets
      PROVE  account'[x] = account[x] /\ granted[account[x]] \subseteq granted'[account[x]]
  <2>1. pc[x] # "idle"
    BY <1>4 DEF HoldsLate
  <2> QED BY <1>4, <2>1, Begun, GrantsStay
<1>5. ASSUME NEW s \in signers'
      PROVE  \E x \in Conns : s[2] \in holds[x] /\ account[x] \in Wallets /\ s[1] \in granted[account[x]]
  <2>1. ASSUME NEW p \in Actors, Register(p), s \notin signers
        PROVE  \E x \in Conns : s[2] \in holds[x] /\ account[x] \in Wallets /\ s[1] \in granted[account[x]]
    <3>1. s[2] \in want[p] /\ s[1] \in accounts[p]
      BY <2>1 DEF Register
    <3>2. todo[p] = {} /\ pc[p] # "idle" /\ account[p] \in Wallets
      BY <2>1 DEF Register, Phases
    <3>3. on[p] \in Conns /\ s[2] \in holds[on[p]]
      BY <1>2, <3>1, <3>2
    <3>4. account[on[p]] = account[p] /\ s[1] \in granted[account[p]]
      BY <3>1, <3>2 DEF OfWallet, AccountsGranted
    <3> QED BY <3>2, <3>3, <3>4
  <2>2. (\E p \in Actors : Register(p)) \/ UNCHANGED signers
    BY DEF Next, NewCall, ListenWalletEvent, GetConn, AddSupportAccount, GetChannels, RemoveAddress,
       ConnStep, CallStep, WalletList, ListFails, VerifyAddress, VerifyFails, AddNewConn, InitConnect,
       RemoveConn, CloseOut, AddNewAddress, RegisterAddresses, RegisterAccount, Fill, Drain, EndConnection
  <2> QED BY <2>1, <2>2 DEF OnlyVerified
<1>6. ASSUME NEW s \in signers'
      PROVE  \E x \in Conns :
               s[2] \in holds'[x] /\ account'[x] \in Wallets /\ s[1] \in granted'[account'[x]]
  <2>1. PICK x \in Conns : s[2] \in holds[x] /\ account[x] \in Wallets /\ s[1] \in granted[account[x]]
    BY <1>5
  <2>2. account'[x] = account[x] /\ granted[account[x]] \subseteq granted'[account[x]]
    BY <1>4, <2>1
  <2> QED BY <1>1, <2>1, <2>2
<1>7. \A x \in Conns : addrs'[x] \subseteq holds'[x]
  BY <1>1, <1>3
<1> QED BY <1>6, <1>7 DEF OnlyVerified

\* An entry comes and goes with its connections.
LEMMA EntriesStep ==
  ASSUME TypeOK, Phases, OwnAccounts, EntriesAreLive, Next PROVE EntriesAreLive'
<1> USE ActorsApart DEF TypeOK, Goto
<1>1. ASSUME NEW x \in Conns, AddNewConn(x) PROVE EntriesAreLive'
  <2>1. account[x] \in Wallets /\ account[x] \in accounts[x]
    BY <1>1 DEF AddNewConn, OwnAccounts, Phases
  <2> QED BY <1>1, <2>1 DEF AddNewConn, Supported, EntriesAreLive
<1>2. ASSUME NEW x \in Conns, RemoveConn(x) PROVE EntriesAreLive'
  <2>1. account[x] \in Wallets
    BY <1>2 DEF RemoveConn, Phases
  <2> QED BY <1>2, <2>1 DEF RemoveConn, Empty, EntriesAreLive
<1>3. ASSUME NEW x \in Conns, Register(x) \/ InitConnect(x), pc[x] \in {"register", "init"}
      PROVE  EntriesAreLive'
  <2>1. /\ UNCHANGED <<walletInfos, connections, supportAccounts, account>>
        /\ pc'[x] \in {"init", "wait"} /\ \A y \in Conns : y # x => pc'[y] = pc[y]
    BY <1>3 DEF Register, InitConnect, mgr
  <2> QED BY <2>1 DEF EntriesAreLive
<1>4. ASSUME UNCHANGED <<walletInfos, connections>>,
             \A w \in Wallets : supportAccounts[w] \subseteq supportAccounts'[w],
             \A x \in Conns : pc[x] \in {"register", "init", "wait"} =>
                 pc'[x] = pc[x] /\ account'[x] = account[x]
      PROVE  EntriesAreLive'
  BY <1>4 DEF EntriesAreLive
<1>5. ASSUME NEW n \in Calls, \/ CallStep(n)
                              \/ \E w \in Wallets, x \in Conns, new \in SUBSET Addrs : GetConn(n, w, x, new)
                              \/ \E w \in Wallets, x \in Conns, a \in Accounts : AddSupportAccount(n, w, x, a)
      PROVE  EntriesAreLive'
  <2>1. \A x \in Conns : x # n
    BY ActorsApart
  <2>2. CASE CallStep(n)
    BY <1>4, <2>1, <2>2 DEF CallStep, VerifyAddress, VerifyFails, AddNewAddress, RegisterAddresses,
       RegisterAccount, Register, Fail, mgr
  <2>3. ASSUME NEW w \in Wallets, NEW x \in Conns, NEW new \in SUBSET Addrs, GetConn(n, w, x, new)
        PROVE  EntriesAreLive'
    BY <1>4, <2>1, <2>3 DEF GetConn, Begin, mgr
  <2>4. ASSUME NEW w \in Wallets, NEW x \in Conns, NEW a \in Accounts, AddSupportAccount(n, w, x, a)
        PROVE  EntriesAreLive'
    BY <1>4, <2>1, <2>4 DEF AddSupportAccount, Begin
  <2> QED BY <1>5, <2>2, <2>3, <2>4
<1>6. ASSUME NEW x \in Conns, ListFails(x) \/ VerifyAddress(x) \/ VerifyFails(x) \/ CloseOut(x)
      PROVE  EntriesAreLive'
  BY <1>4, <1>6 DEF ListFails, VerifyAddress, VerifyFails, CloseOut, Fail, mgr
<1>7. ASSUME NEW x \in Conns, NEW l \in SUBSET Addrs, WalletList(x, l) PROVE EntriesAreLive'
  BY <1>4, <1>7 DEF WalletList, mgr
<1>8. ASSUME NEW x \in Conns, NEW w \in Wallets, NEW keys \in SUBSET Addrs,
             NEW policy \in SUBSET (Accounts \ {w}), ListenWalletEvent(x, w, policy, keys)
      PROVE  EntriesAreLive'
  BY <1>4, <1>8 DEF ListenWalletEvent, mgr
<1>9. ASSUME \/ \E x \in Conns : Fill(x) \/ Drain(x) \/ EndConnection(x)
             \/ \E w \in Wallets, x \in Conns, old \in SUBSET Addrs : RemoveAddress(w, x, old)
             \/ \E q \in Signs, d \in Addrs, a \in Accounts : GetChannels(q, d, a)
      PROVE  EntriesAreLive'
  <2>1. UNCHANGED <<walletInfos, connections, supportAccounts, pc, account>>
    BY <1>9 DEF Fill, Drain, EndConnection, RemoveAddress, GetChannels, mgr, actors
  <2> QED BY <1>4, <2>1
<1>10. \A x \in Conns : (Register(x) => pc[x] = "register") /\ (InitConnect(x) => pc[x] = "init")
  BY DEF Register, InitConnect
<1> QED BY <1>1, <1>2, <1>3, <1>5, <1>6, <1>7, <1>8, <1>9, <1>10 DEF Next, NewCall, ConnStep

----------------------------------------------------------------------------
(* WalletSign and AddNewAddress.                                           *)

LEMMA SigningStep ==
  ASSUME IInv, Next PROVE Signing'
<1> USE DEF IInv, Signing, TypeOK
<1>1. /\ \A w \in Wallets : granted[w] \subseteq granted'[w]
      /\ \A x \in Conns : holds[x] \subseteq holds'[x]
  BY GrantsStay, KeysStay DEF Verification
<1>2. ASSUME NEW x \in Conns, pc[x] # "idle"
      PROVE  pc'[x] # "idle" /\ account'[x] = account[x] /\ account[x] \in Wallets
  BY <1>2, Begun, ActorsApart DEF Verification, Phases
<1>3. ASSUME NEW q \in Signs, NEW x \in targets[q], signer'[q] = signer[q], asked[q] \subseteq asked'[q]
      PROVE  /\ signer'[q] # None /\ pc'[x] # "idle" /\ signer'[q] \in holds'[x]
             /\ \E a \in asked'[q] : a \in granted'[account'[x]]
  BY <1>1, <1>2, <1>3 DEF SignIsEntitled, TargetsBegun
<1>4. CASE UNCHANGED signing
  BY <1>3, <1>4 DEF signing, SignIsEntitled, TargetsBegun
<1>5. ASSUME NEW p \in Signs, NEW d \in Addrs, NEW b \in Accounts, GetChannels(p, d, b) PROVE Signing'
  <2>1. \A q \in Signs : q # p => signer'[q] = signer[q] /\ asked'[q] = asked[q] /\ targets'[q] = targets[q]
    BY <1>5 DEF GetChannels
  <2>2. /\ signer'[p] = d /\ b \in asked'[p] /\ asked[p] \subseteq asked'[p]
        /\ targets'[p] = targets[p] \cup Found(b, d)
        /\ signer[p] \in {None, d} /\ UNCHANGED <<pc, account, holds, granted>>
    BY <1>5 DEF GetChannels, actors, env
  <2>3. d # None
    BY NoneAssumption
  <2>4. ASSUME NEW x \in Found(b, d)
        PROVE  pc[x] # "idle" /\ d \in holds[x] /\ b \in granted[account[x]]
    <3>1. PICK w \in walletInfos : b \in supportAccounts[w] /\ x \in connections[w] /\ d \in addrs[x]
      BY <2>4 DEF Found
    <3>2. account[x] = w /\ pc[x] \in {"register", "init", "wait"}
      BY <3>1 DEF Entries, EntriesAreLive
    <3>3. d \in holds[x]
      BY <3>1 DEF Verification, OnlyVerified
    <3> QED BY <3>1, <3>2, <3>3 DEF Entries, SupportGranted
  <2>5. ASSUME NEW x \in targets[p] PROVE signer[p] = d
    BY <2>2, <2>5 DEF TargetsBegun
  <2>6. SignIsEntitled'
    <3> SUFFICES ASSUME NEW q \in Signs, NEW x \in targets'[q]
                 PROVE  signer'[q] \in holds'[x] /\ \E a \in asked'[q] : a \in granted'[account'[x]]
      BY DEF SignIsEntitled
    <3>1. CASE x \in targets[q]
      BY <1>3, <2>1, <2>2, <2>5, <3>1
    <3>2. CASE x \notin targets[q]
      <4>1. q = p /\ x \in Found(b, d)
        BY <2>1, <2>2, <3>2
      <4> QED BY <2>2, <2>4, <4>1
    <3> QED BY <3>1, <3>2
  <2>7. TargetsBegun'
    <3> SUFFICES ASSUME NEW q \in Signs, NEW x \in targets'[q]
                 PROVE  signer'[q] # None /\ pc'[x] # "idle"
      BY DEF TargetsBegun
    <3>1. CASE x \in targets[q]
      BY <1>3, <2>1, <2>2, <2>5, <3>1
    <3>2. CASE x \notin targets[q]
      <4>1. q = p /\ x \in Found(b, d)
        BY <2>1, <2>2, <3>2
      <4> QED BY <2>2, <2>3, <2>4, <4>1
    <3> QED BY <3>1, <3>2
  <2> QED BY <2>6, <2>7
<1>6. (\E q \in Signs, d \in Addrs, a \in Accounts : GetChannels(q, d, a)) \/ UNCHANGED signing
  BY DEF Next, NewCall, ListenWalletEvent, GetConn, AddSupportAccount, RemoveAddress, ConnStep, CallStep,
     WalletList, ListFails, VerifyAddress, VerifyFails, AddNewConn, Register, InitConnect, RemoveConn,
     CloseOut, AddNewAddress, RegisterAddresses, RegisterAccount, Fill, Drain, EndConnection
<1> QED BY <1>4, <1>5, <1>6

\* A connection leaves its wallet's entry only when it has ended.
LEMMA LeftIsDone ==
  ASSUME TypeOK, Next, NEW w \in Wallets, NEW x \in connections[w]
  PROVE  x \in connections'[w] \/ x \in done'
<1>1. done \subseteq done'
  BY DEF Next, NewCall, ListenWalletEvent, GetConn, AddSupportAccount, RemoveAddress, GetChannels,
     ConnStep, CallStep, WalletList, ListFails, VerifyAddress, VerifyFails, AddNewConn, Register,
     InitConnect, RemoveConn, CloseOut, AddNewAddress, RegisterAddresses, RegisterAccount, Fill, Drain,
     EndConnection, env
<1>2. ASSUME NEW y \in Conns, AddNewConn(y) PROVE x \in connections'[w]
  BY <1>2 DEF AddNewConn, TypeOK
<1>3. ASSUME NEW y \in Conns, RemoveConn(y) PROVE x \in connections'[w] \/ x \in done'
  BY <1>1, <1>3 DEF RemoveConn, Ended, TypeOK
<1>4. (\E y \in Conns : AddNewConn(y) \/ RemoveConn(y)) \/ UNCHANGED connections
  BY DEF Next, NewCall, ListenWalletEvent, GetConn, AddSupportAccount, RemoveAddress, GetChannels,
     ConnStep, CallStep, WalletList, ListFails, VerifyAddress, VerifyFails, Register, InitConnect,
     CloseOut, AddNewAddress, RegisterAddresses, RegisterAccount, Fill, Drain, EndConnection, mgr
<1> QED BY <1>2, <1>3, <1>4

LEMMA AddingStep ==
  ASSUME IInv, Next PROVE AddingShape'
<1> USE DEF IInv, TypeOK, Goto
<1>1. \A w \in Wallets : \A x \in connections[w] : x \in connections'[w] \/ x \in done'
  BY LeftIsDone
<1>2. done \subseteq done'
  BY DEF Next, NewCall, ListenWalletEvent, GetConn, AddSupportAccount, RemoveAddress, GetChannels,
     ConnStep, CallStep, WalletList, ListFails, VerifyAddress, VerifyFails, AddNewConn, Register,
     InitConnect, RemoveConn, CloseOut, AddNewAddress, RegisterAddresses, RegisterAccount, Fill, Drain,
     EndConnection, env
<1>3. ASSUME NEW n \in Calls, adding'[n] = adding[n], pc'[n] = pc[n] \/ pc'[n] = "failed" \/ pc[n] # "verify",
             pc[n] = "failed" => pc'[n] = "failed", pc'[n] = "idle" => pc[n] = "idle",
             pc[n] # "idle" => on'[n] = on[n] /\ account'[n] = account[n]
      PROVE  /\ pc'[n] = "idle" => adding'[n] = "none"
             /\ adding'[n] = "asked" => \/ on'[n] \in done'
                                        \/ pc'[n] = "verify" /\ on'[n] \in connections'[account'[n]]
                                        \/ pc'[n] = "failed"
  <2>1. n \in Actors
    BY ActorsApart
  <2>2. pc[n] # "idle" => account[n] \in Wallets
    BY <2>1 DEF Verification, Phases
  <2> QED BY <1>1, <1>2, <1>3, <2>2 DEF AddingShape
<1>4. ASSUME NEW n \in Calls, NEW w \in Wallets, NEW x \in Conns, NEW new \in SUBSET Addrs,
             GetConn(n, w, x, new)
      PROVE  AddingShape'
  BY <1>3, <1>4, ActorsApart DEF GetConn, Connected, Begin, mgr, AddingShape
<1>5. ASSUME NEW n \in Calls, NEW w \in Wallets, NEW x \in Conns, NEW a \in Accounts,
             AddSupportAccount(n, w, x, a)
      PROVE  AddingShape'
  BY <1>3, <1>5, ActorsApart DEF AddSupportAccount, Begin, AddingShape
<1>6. ASSUME NEW n \in Calls, AddNewAddress(n) PROVE AddingShape'
  <2>1. \A m \in Calls : m # n => /\ adding'[m] = adding[m] /\ pc'[m] = pc[m] /\ on'[m] = on[m]
                                  /\ account'[m] = account[m]
    BY <1>6, ActorsApart DEF AddNewAddress, Fail
  <2>2. n \in Actors /\ account[n] \in Wallets /\ pc[n] = "verify" /\ on'[n] = on[n]
    BY <1>6, ActorsApart DEF AddNewAddress, Verification, Phases
  <2>3. \/ adding'[n] = "added" /\ pc'[n] = "addresses"
        \/ adding'[n] = adding[n] /\ pc'[n] = "addresses" /\ account[n] \notin walletInfos
        \/ adding'[n] = adding[n] /\ pc'[n] = "failed"
    BY <1>6, <2>2, ActorsApart DEF AddNewAddress, Fail
  <2>4. account[n] \notin walletInfos => connections[account[n]] = {}
    BY <2>2 DEF Entries, EntriesAreLive
  <2>5. adding'[n] = "asked" => on'[n] \in done' \/ pc'[n] = "failed"
    BY <1>2, <2>2, <2>3, <2>4 DEF AddingShape
  <2> QED BY <1>3, <2>1, <2>3, <2>5 DEF AddingShape
<1>7. ASSUME NEW n \in Calls, \/ VerifyAddress(n) \/ VerifyFails(n) \/ RegisterAddresses(n)
                              \/ RegisterAccount(n) \/ Register(n)
      PROVE  AddingShape'
  <2>1. \A m \in Calls : /\ adding'[m] = adding[m] /\ on'[m] = on[m] /\ account'[m] = account[m]
                         /\ m # n => pc'[m] = pc[m]
    BY <1>7, ActorsApart DEF VerifyAddress, VerifyFails, RegisterAddresses, RegisterAccount, Register, Fail
  <2>2. pc[n] \notin {"idle", "failed"} /\ pc'[n] # "idle"
    BY <1>7, ActorsApart DEF VerifyAddress, VerifyFails, RegisterAddresses, RegisterAccount, Register, Fail
  <2>3. pc'[n] = pc[n] \/ pc'[n] = "failed" \/ pc[n] # "verify"
    BY <1>7, ActorsApart DEF VerifyAddress, VerifyFails, RegisterAddresses, RegisterAccount, Register, Fail
  <2> QED BY <1>3, <2>1, <2>2, <2>3 DEF AddingShape
<1>8. ASSUME \A n \in Calls : /\ adding'[n] = adding[n] /\ pc'[n] = pc[n] /\ on'[n] = on[n]
                              /\ account'[n] = account[n]
      PROVE  AddingShape'
  BY <1>3, <1>8 DEF AddingShape
<1>9. ASSUME \/ \E x \in Conns : ConnStep(x) \/ Fill(x) \/ Drain(x) \/ EndConnection(x)
             \/ \E x \in Conns, w \in Wallets, keys \in SUBSET Addrs :
                    \E policy \in SUBSET (Accounts \ {w}) : ListenWalletEvent(x, w, policy, keys)
             \/ \E w \in Wallets, x \in Conns, old \in SUBSET Addrs : RemoveAddress(w, x, old)
             \/ \E q \in Signs, d \in Addrs, a \in Accounts : GetChannels(q, d, a),
             NEW n \in Calls
      PROVE  adding'[n] = adding[n] /\ pc'[n] = pc[n] /\ on'[n] = on[n] /\ account'[n] = account[n]
  <2>1. \A x \in Conns : x # n
    BY ActorsApart
  <2>2. ASSUME NEW x \in Conns, ConnStep(x)
        PROVE  adding'[n] = adding[n] /\ pc'[n] = pc[n] /\ on'[n] = on[n] /\ account'[n] = account[n]
    <3>1. CASE Fail(x) /\ UNCHANGED <<on, account, adding>>
      BY <2>1, <3>1 DEF Fail
    <3>2. CASE UNCHANGED <<on, account, adding>> /\ \E l : pc' = [pc EXCEPT ![x] = l]
      BY <2>1, <3>2
    <3>3. CASE UNCHANGED <<on, account, adding, pc>>
      BY <3>3
    <3> QED BY <2>2, <3>1, <3>2, <3>3 DEF ConnStep, WalletList, ListFails, VerifyAddress, VerifyFails,
               AddNewConn, Register, InitConnect, RemoveConn, CloseOut
  <2>3. ASSUME NEW x \in Conns, NEW w \in Wallets, NEW keys \in SUBSET Addrs,
               NEW policy \in SUBSET (Accounts \ {w}), ListenWalletEvent(x, w, policy, keys)
        PROVE  adding'[n] = adding[n] /\ pc'[n] = pc[n] /\ on'[n] = on[n] /\ account'[n] = account[n]
    BY <2>1, <2>3 DEF ListenWalletEvent
  <2>4. CASE UNCHANGED <<actors, adding>>
    BY <2>4 DEF actors
  <2> QED BY <1>9, <2>2, <2>3, <2>4 DEF Fill, Drain, EndConnection, RemoveAddress, GetChannels
<1> QED BY <1>4, <1>5, <1>6, <1>7, <1>8, <1>9 DEF Next, NewCall, CallStep

----------------------------------------------------------------------------
(* The theorems.                                                           *)

LEMMA IInvInit == Init => IInv
BY TypeInit, NoneAssumption, ActorsApart
   DEF Init, IInv, Verification, Entries, Signing, Phases, HoldsLate, Verified, AccountsGranted,
       OfWallet, OnlyVerified,
       EntriesAreLive, OwnAccounts, SupportGranted, SignIsEntitled, TargetsBegun, AddingShape

LEMMA IInvStep == IInv /\ [Next]_vars => IInv'
<1> SUFFICES ASSUME IInv, [Next]_vars PROVE IInv'
  OBVIOUS
<1>1. TypeOK'
  BY TypeStep DEF IInv, Verification
<1>2. CASE Next
  <2>1. Verification'
    BY <1>2, PhasesStep, KeysStay, VerifiedStep, AccountsGrantedStep, OfWalletStep, OnlyVerifiedStep
       DEF IInv, Verification, Entries
  <2>2. Entries'
    BY <1>2, EntriesStep, OwnAccountsStep, SupportGrantedStep DEF IInv, Verification, Entries
  <2> QED BY <1>1, <1>2, <2>1, <2>2, SigningStep, AddingStep DEF IInv
<1>3. CASE UNCHANGED vars
  BY <1>1, <1>3 DEF IInv, vars, mgr, actors, signing, env, Verification, Entries, Signing, Phases,
     HoldsLate, Verified, AccountsGranted, OfWallet, OnlyVerified, EntriesAreLive, OwnAccounts, SupportGranted, SignIsEntitled,
     TargetsBegun, AddingShape
<1> QED BY <1>2, <1>3

LEMMA Inductive == Spec => []IInv
BY IInvInit, IInvStep, PTL DEF Spec

\* Every variable of the wallet stream keeps its type.
THEOREM TypeCorrect == Spec => []TypeOK
BY Inductive, PTL DEF IInv

\* No address gets into an entry that its client has not signed with, and none to
\* the auth service for an account that the wallet of such a client has not granted.
THEOREM AddressesAreVerified == Spec => []OnlyVerified
BY Inductive, PTL DEF IInv, Verification

\* An entry of walletInfos exists as long as it has connections, all of them its own.
THEOREM EntriesLive == Spec => []EntriesAreLive
BY Inductive, PTL DEF IInv, Entries

\* WalletSign asks only clients that have the key, and of wallets that granted one
\* of the accounts it looked up.
THEOREM SignersAreEntitled == Spec => []SignIsEntitled
BY Inductive, PTL DEF IInv, Signing

\* AddNewAddress reports success without having added anything only after its
\* connection has ended.
THEOREM SuccessIsAdded == Spec => []SuccessMeansAdded
<1>1. IInv => SuccessMeansAdded
  BY DEF IInv, AddingShape, SuccessMeansAdded
<1> QED BY <1>1, Inductive, PTL

\* A wallet that keeps a connection keeps the accounts it supports.
THEOREM AccountsSurvive == Spec => SupportSurvives
<1>1. IInv /\ [Next]_vars =>
        [\A w \in Wallets : connections[w] # {} /\ connections'[w] # {} =>
            supportAccounts[w] \subseteq supportAccounts'[w]]_vars
  <2> SUFFICES ASSUME TypeOK, Next, NEW w \in Wallets, connections[w] # {}, connections'[w] # {}
               PROVE  supportAccounts[w] \subseteq supportAccounts'[w]
    BY DEF IInv
  <2>1. ASSUME NEW x \in Conns, RemoveConn(x) PROVE supportAccounts[w] \subseteq supportAccounts'[w]
    BY <2>1 DEF RemoveConn, Empty, TypeOK
  <2>2. ASSUME NEW x \in Conns, AddNewConn(x) PROVE supportAccounts[w] \subseteq supportAccounts'[w]
    BY <2>2 DEF AddNewConn, Supported, TypeOK
  <2>3. ASSUME NEW n \in Calls, NEW v \in Wallets, NEW x \in Conns, NEW a \in Accounts,
               AddSupportAccount(n, v, x, a)
        PROVE  supportAccounts[w] \subseteq supportAccounts'[w]
    BY <2>3 DEF AddSupportAccount, TypeOK
  <2>4. \/ \E x \in Conns : AddNewConn(x) \/ RemoveConn(x)
        \/ \E n \in Calls, v \in Wallets, x \in Conns, a \in Accounts : AddSupportAccount(n, v, x, a)
        \/ UNCHANGED supportAccounts
    BY DEF Next, NewCall, ListenWalletEvent, GetConn, RemoveAddress, GetChannels, ConnStep, CallStep,
       WalletList, ListFails, VerifyAddress, VerifyFails, Register, InitConnect,
       CloseOut, AddNewAddress, RegisterAddresses, RegisterAccount, Fill, Drain, EndConnection, mgr
  <2> QED BY <2>1, <2>2, <2>3, <2>4
<1> QED BY <1>1, Inductive, PTL DEF Spec, SupportSurvives
=============================================================================
