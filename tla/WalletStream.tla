---------------------------- MODULE WalletStream ----------------------------
(***************************************************************************)
(* The connections of wallets: walletevent/wallet_event.go and its         *)
(* walletConnMgr (wallet_conn_mgr.go).  A wallet account has an entry in   *)
(* walletInfos while it has connections: the accounts it signs for, and    *)
(* for each connection the addresses it signs with.  An address enters     *)
(* after the client on that connection has signed with it.                 *)
(*                                                                         *)
(* Every operation of walletConnMgr is one section of infoLk.  A           *)
(* SendRequest to one connection is one step that yields an answer or an   *)
(* error (what BaseEvent proves of it), and never ends at a full OutBound. *)
(* That a signature verifies stands for: the client has the key.           *)
(***************************************************************************)
EXTENDS FiniteSets

CONSTANTS
    Conns,        \* connections (one call of ListenWalletEvent each)
    Jammable,     \* those whose OutBound may be full
    Calls,        \* calls of AddNewAddress and SupportNewAccount
    Signs,        \* calls of WalletSign
    Wallets,      \* accounts wallets connect with
    Accounts,     \* accounts known to the auth service
    Addrs,        \* signer addresses
    None          \* no wallet, no connection, no signer

ASSUME WalletsAssumption == Wallets \subseteq Accounts
ASSUME NoneAssumption == None \notin Conns \cup Wallets \cup Addrs
ASSUME NamesAssumption == Conns \cap Calls = {} /\ Jammable \subseteq Conns

Actors == Conns \cup Calls

VARIABLES
    walletInfos,      \* the wallets with an entry
    supportAccounts,  \* supportAccounts[w]: of w's entry
    connections,      \* connections[w]: of w's entry
    addrs,            \* addrs[x]: of x's walletChannelInfo
    pc,               \* pc[p]: where p's goroutine is
    account,          \* account[p]: the walletAccount of p's token
    on,               \* on[p]: the connection p asks, and is about
    want,             \* want[p]: the addresses p is about
    todo,             \* todo[p]: those not yet verified
    accounts,         \* accounts[p]: for registration: those not yet dealt with
    signer,           \* signer[q]: the address WalletSign q is for
    asked,            \* asked[q]: the accounts q has looked up
    targets,          \* targets[q]: the channels found for it
    done,             \* connections whose context is done
    full,             \* connections whose OutBound is full
    holds,            \* holds[x]: the keys the client behind x has
    signers,          \* the auth service: <<account, address>> registered
    granted,          \* history: granted[w]: the accounts w's clients have granted
    adding            \* history: adding[n]: "asked" of an AddNewAddress, "added" once it has added

mgr == <<walletInfos, supportAccounts, connections, addrs>>
actors == <<pc, account, on, want, todo, accounts>>
signing == <<signer, asked, targets>>
env == <<done, full, holds>>
vars == <<mgr, actors, signing, env, signers, granted, adding>>

Init ==
    /\ walletInfos = {}
    /\ supportAccounts = [w \in Wallets |-> {}] /\ connections = [w \in Wallets |-> {}]
    /\ addrs = [x \in Conns |-> {}]
    /\ pc = [p \in Actors |-> "idle"] /\ account = [p \in Actors |-> None]
    /\ on = [p \in Actors |-> None] /\ want = [p \in Actors |-> {}]
    /\ todo = [p \in Actors |-> {}] /\ accounts = [p \in Actors |-> {}]
    /\ signer = [q \in Signs |-> None] /\ asked = [q \in Signs |-> {}]
    /\ targets = [q \in Signs |-> {}]
    /\ done = {} /\ full = {} /\ holds = [x \in Conns |-> {}]
    /\ signers = {} /\ granted = [w \in Wallets |-> {}] /\ adding = [n \in Calls |-> "none"]

Goto(p, l) == pc' = [pc EXCEPT ![p] = l]

\* p is given up: the goroutine of a connection closes out, a call fails.
Fail(p) ==
    /\ Goto(p, IF p \in Conns THEN "closed" ELSE "failed")
    /\ want' = [want EXCEPT ![p] = {}] /\ todo' = [todo EXCEPT ![p] = {}]
    /\ accounts' = [accounts EXCEPT ![p] = {}]

----------------------------------------------------------------------------
(* Verification: requests to the client over the connection p is about.    *)

\* The send blocks, whatever the contexts do, while OutBound is full; an error of
\* SendRequest is also possible before it, when the connection has ended.
CanAsk(p) == on[p] \notin full
CanFail(p) == CanAsk(p) \/ on[p] \in done

\* Mutant of Verifiable: the signature is not verified.
Unverified(p) == todo[p]

\* The client signs with the keys it has.
Verifiable(p) == todo[p] \cap holds[on[p]]

\* verifyAddress for the next address ...
VerifyAddress(p) ==
    /\ pc[p] = "verify" /\ CanAsk(p)
    /\ \E d \in Verifiable(p) : todo' = [todo EXCEPT ![p] = @ \ {d}]
    /\ UNCHANGED <<mgr, pc, account, on, want, accounts, signing, env, signers, granted, adding>>

\* ... or there is an error, a timeout, or a signature that does not verify.
VerifyFails(p) ==
    /\ pc[p] = "verify" /\ todo[p] # {} /\ CanFail(p)
    /\ Fail(p)
    /\ UNCHANGED <<mgr, account, on, signing, env, signers, granted, adding>>

\* registerSignerAddress for one account after the other; an error is logged, and
\* the next account is tried.
Register(p) ==
    /\ pc[p] = "register" /\ Goto(p, IF p \in Conns THEN "init" ELSE "ok")
    /\ \E heard \in SUBSET accounts[p] : signers' = signers \cup (heard \X want[p])
    /\ want' = [want EXCEPT ![p] = {}] /\ accounts' = [accounts EXCEPT ![p] = {}]
    /\ UNCHANGED <<mgr, account, on, todo, signing, env, granted, adding>>

----------------------------------------------------------------------------
(* ListenWalletEvent and its goroutine.                                    *)

\* The call, once VerifyUsers has found all the accounts.
ListenWalletEvent(x, w, policy, keys) ==
    /\ pc[x] = "idle" /\ Goto(x, "list")
    /\ account' = [account EXCEPT ![x] = w] /\ on' = [on EXCEPT ![x] = x]
    /\ accounts' = [accounts EXCEPT ![x] = policy \cup {w}]
    /\ holds' = [holds EXCEPT ![x] = keys]
    /\ granted' = [granted EXCEPT ![w] = @ \cup policy \cup {w}]
    /\ UNCHANGED <<mgr, want, todo, signing, done, full, signers, adding>>

\* getValidatedAddress: the client lists addresses, whether it has the keys or not.
WalletList(x, l) ==
    /\ pc[x] = "list" /\ CanAsk(x) /\ Goto(x, "verify")
    /\ want' = [want EXCEPT ![x] = l] /\ todo' = [todo EXCEPT ![x] = l]
    /\ UNCHANGED <<mgr, account, on, accounts, signing, env, signers, granted, adding>>

ListFails(x) ==
    /\ pc[x] = "list" /\ CanFail(x) /\ Fail(x)
    /\ UNCHANGED <<mgr, account, on, signing, env, signers, granted, adding>>

\* Mutant of Supported: the entry is replaced by a new one.
SupportedAnew(x) == accounts[x]

Supported(x) == supportAccounts[account[x]] \cup accounts[x]

\* addNewConn: the wallet's entry gets the connection and the accounts, or is new.
AddNewConn(x) ==
    LET w == account[x] IN
    /\ pc[x] = "verify" /\ todo[x] = {} /\ Goto(x, "register")
    /\ walletInfos' = walletInfos \cup {w}
    /\ connections' = [connections EXCEPT ![w] = @ \cup {x}]
    /\ supportAccounts' = [supportAccounts EXCEPT ![w] = Supported(x)]
    /\ addrs' = [addrs EXCEPT ![x] = want[x]]
    /\ UNCHANGED <<account, on, want, todo, accounts, signing, env, signers, granted, adding>>

InitConnect(x) ==
    /\ pc[x] = "init" /\ CanAsk(x) /\ Goto(x, "wait")
    /\ UNCHANGED <<mgr, account, on, want, todo, accounts, signing, env, signers, granted, adding>>

\* Mutant of Ended: only the last connection is taken out.
EndedLast(x) == x \in done /\ connections[account[x]] = {x}

Ended(x) == x \in done

\* Mutant of Empty: the entry stays.
NeverEmpty(cs) == FALSE

Empty(cs) == cs = {}

\* removeConn once the context is done; the entry goes with its last connection.
RemoveConn(x) ==
    LET w == account[x] IN
    /\ pc[x] = "wait" /\ Ended(x) /\ Goto(x, "close")
    /\ connections' = [connections EXCEPT ![w] = @ \ {x}]
    /\ \/ /\ Empty(connections'[w])
          /\ walletInfos' = walletInfos \ {w}
          /\ supportAccounts' = [supportAccounts EXCEPT ![w] = {}]
       \/ /\ ~Empty(connections'[w])
          /\ UNCHANGED <<walletInfos, supportAccounts>>
    /\ UNCHANGED <<addrs, account, on, want, todo, accounts, signing, env, signers, granted, adding>>

CloseOut(x) ==
    /\ pc[x] = "close" /\ Goto(x, "closed")
    /\ UNCHANGED <<mgr, account, on, want, todo, accounts, signing, env, signers, granted, adding>>

----------------------------------------------------------------------------
(* AddNewAddress, SupportNewAccount, RemoveAddress.                        *)

Begin(n, w, x) ==
    /\ pc[n] = "idle"
    /\ account' = [account EXCEPT ![n] = w] /\ on' = [on EXCEPT ![n] = x]

\* Mutant of Connected: any connection will do.
ConnectedAnyhow(w, x) == TRUE

Connected(w, x) == x \in connections[w]

\* AddNewAddress begins with getConn.  (A call it refuses changes nothing.)
GetConn(n, w, x, new) ==
    /\ Begin(n, w, x) /\ Connected(w, x) /\ Goto(n, "verify")
    /\ want' = [want EXCEPT ![n] = new] /\ todo' = [todo EXCEPT ![n] = new]
    /\ adding' = [adding EXCEPT ![n] = "asked"]
    /\ UNCHANGED <<mgr, accounts, signing, env, signers, granted>>

\* addNewAddress, when all are verified: a connection that has gone is an error, a
\* wallet that has gone is not.
AddNewAddress(n) ==
    LET w == account[n] IN
    /\ n \in Calls /\ pc[n] = "verify" /\ todo[n] = {}
    /\ \/ /\ on[n] \in connections[w] /\ Goto(n, "addresses")
          /\ addrs' = [addrs EXCEPT ![on[n]] = @ \cup want[n]]
          /\ adding' = [adding EXCEPT ![n] = "added"]
          /\ UNCHANGED <<want, todo, accounts>>
       \/ /\ w \notin walletInfos /\ Goto(n, "addresses")
          /\ UNCHANGED <<addrs, adding, want, todo, accounts>>
       \/ /\ w \in walletInfos /\ on[n] \notin connections[w] /\ Fail(n)
          /\ UNCHANGED <<addrs, adding>>
    /\ UNCHANGED <<walletInfos, supportAccounts, connections, account, on, signing, env, signers,
                   granted>>

\* listWalletInfoByWallet, of a wallet that has an entry.
WalletDetail(w) ==
    [accounts |-> supportAccounts[w], addrs |-> [x \in connections[w] |-> addrs[x]]]

\* Then the addresses are registered for all the accounts the wallet has by now.
RegisterAddresses(n) ==
    LET w == account[n] IN
    /\ pc[n] = "addresses"
    /\ \/ /\ w \in walletInfos /\ Goto(n, "register")
          /\ accounts' = [accounts EXCEPT ![n] = WalletDetail(w).accounts]
          /\ UNCHANGED <<want, todo>>
       \/ w \notin walletInfos /\ Fail(n)
    /\ UNCHANGED <<mgr, account, on, signing, env, signers, granted, adding>>

\* SupportNewAccount: addSupportAccount does nothing for a wallet that has no entry.
AddSupportAccount(n, w, x, a) ==
    /\ Begin(n, w, x) /\ Goto(n, "account")
    /\ supportAccounts' = [supportAccounts EXCEPT ![w] = IF w \in walletInfos THEN @ \cup {a} ELSE @]
    /\ accounts' = [accounts EXCEPT ![n] = {a}]
    /\ granted' = [granted EXCEPT ![w] = @ \cup {a}]
    /\ UNCHANGED <<walletInfos, connections, addrs, want, todo, signing, env, signers, adding>>

\* Then the addresses of the connection named in the call are registered for it.
RegisterAccount(n) ==
    LET w == account[n] IN
    /\ pc[n] = "account"
    /\ \/ /\ w \in walletInfos /\ Goto(n, "register")
          /\ want' = [want EXCEPT ![n] = IF on[n] \in connections[w] THEN WalletDetail(w).addrs[on[n]]
                                         ELSE {}]
          /\ UNCHANGED <<todo, accounts>>
       \/ w \notin walletInfos /\ Fail(n)
    /\ UNCHANGED <<mgr, account, on, signing, env, signers, granted, adding>>

\* removeAddress (of addresses that are there: otherwise nothing changes).
RemoveAddress(w, x, old) ==
    /\ x \in connections[w] /\ old \cap addrs[x] # {}
    /\ addrs' = [addrs EXCEPT ![x] = @ \ old]
    /\ UNCHANGED <<walletInfos, supportAccounts, connections, actors, signing, env, signers,
                   granted, adding>>

----------------------------------------------------------------------------
(* WalletSign: the accounts are looked up one after the other.             *)

\* Mutant of Found: any wallet's connection with the address.
FoundAnywhere(a, d) == {x \in UNION {connections[w] : w \in walletInfos} : d \in addrs[x]}

Found(a, d) ==
    {x \in UNION {connections[w] : w \in {v \in walletInfos : a \in supportAccounts[v]}} :
        d \in addrs[x]}

GetChannels(q, d, a) ==
    /\ signer[q] \in {None, d} /\ a \notin asked[q]
    /\ signer' = [signer EXCEPT ![q] = d]
    /\ asked' = [asked EXCEPT ![q] = @ \cup {a}]
    /\ targets' = [targets EXCEPT ![q] = @ \cup Found(a, d)]
    /\ UNCHANGED <<mgr, actors, env, signers, granted, adding>>

----------------------------------------------------------------------------
(* Clients and senders: queues fill and drain, connections end.            *)

Fill(x) ==
    /\ x \in Jammable /\ x \notin full /\ pc[x] \notin {"idle", "closed"} /\ full' = full \cup {x}
    /\ UNCHANGED <<mgr, actors, signing, done, holds, signers, granted, adding>>

Drain(x) ==
    /\ x \in full /\ full' = full \ {x}
    /\ UNCHANGED <<mgr, actors, signing, done, holds, signers, granted, adding>>

EndConnection(x) ==
    /\ x \notin done /\ pc[x] \notin {"idle", "closed"} /\ done' = done \cup {x}
    /\ UNCHANGED <<mgr, actors, signing, full, holds, signers, granted, adding>>

----------------------------------------------------------------------------
ConnStep(x) ==
    \/ \E l \in SUBSET Addrs : WalletList(x, l)
    \/ ListFails(x) \/ VerifyAddress(x) \/ VerifyFails(x) \/ AddNewConn(x) \/ Register(x)
    \/ InitConnect(x) \/ RemoveConn(x) \/ CloseOut(x)

CallStep(n) ==
    \/ VerifyAddress(n) \/ VerifyFails(n) \/ AddNewAddress(n) \/ RegisterAddresses(n)
    \/ RegisterAccount(n) \/ Register(n)

NewCall ==
    \/ \E x \in Conns, w \in Wallets, keys \in SUBSET Addrs :
        \E policy \in SUBSET (Accounts \ {w}) : ListenWalletEvent(x, w, policy, keys)
    \/ \E n \in Calls, w \in Wallets, x \in Conns, new \in SUBSET Addrs : GetConn(n, w, x, new)
    \/ \E n \in Calls, w \in Wallets, x \in Conns, a \in Accounts : AddSupportAccount(n, w, x, a)
    \/ \E w \in Wallets, x \in Conns, old \in SUBSET Addrs : RemoveAddress(w, x, old)
    \/ \E q \in Signs, d \in Addrs, a \in Accounts : GetChannels(q, d, a)

Next ==
    \/ NewCall
    \/ \E x \in Conns : ConnStep(x) \/ Fill(x) \/ Drain(x) \/ EndConnection(x)
    \/ \E n \in Calls : CallStep(n)

Spec == Init /\ [][Next]_vars

\* A goroutine waits for room in a full OutBound.
Jammed(p) ==
    /\ on[p] \in full
    /\ \/ pc[p] = "list"
       \/ pc[p] = "verify" /\ todo[p] # {}
       \/ pc[p] = "init"

(* The scheduler runs a goroutine while it can go on; senders blocked on a  *)
(* channel are served in turn, so one that finds room again and again gets  *)
(* it; and (EveryCallReturns of BaseEvent) a request ends unless jammed.    *)
FairSpec ==
    /\ Spec
    /\ \A x \in Conns : SF_vars(~Jammed(x) /\ ConnStep(x))
    /\ \A n \in Calls : SF_vars(~Jammed(n) /\ CallStep(n))

----------------------------------------------------------------------------
(* Properties.                                                             *)

TypeOK ==
    /\ walletInfos \subseteq Wallets
    /\ supportAccounts \in [Wallets -> SUBSET Accounts] /\ connections \in [Wallets -> SUBSET Conns]
    /\ addrs \in [Conns -> SUBSET Addrs] /\ holds \in [Conns -> SUBSET Addrs]
    /\ pc \in [Actors -> {"idle", "list", "verify", "register", "init", "wait", "close", "closed",
                          "addresses", "account", "ok", "failed"}]
    /\ account \in [Actors -> Wallets \cup {None}] /\ on \in [Actors -> Conns \cup {None}]
    /\ want \in [Actors -> SUBSET Addrs] /\ todo \in [Actors -> SUBSET Addrs]
    /\ accounts \in [Actors -> SUBSET Accounts]
    /\ signer \in [Signs -> Addrs \cup {None}] /\ asked \in [Signs -> SUBSET Accounts]
    /\ targets \in [Signs -> SUBSET Conns] /\ done \subseteq Conns /\ full \subseteq Conns
    /\ signers \subseteq Accounts \X Addrs
    /\ granted \in [Wallets -> SUBSET Accounts] /\ adding \in [Calls -> {"none", "asked", "added"}]

\* An address is registered with a connection only if the client behind it has
\* signed with it; and with the auth service, for an account, only if a client has
\* whose wallet granted that account.  A client that lists or adds addresses of
\* others gets none of them in, and a registration that was made for part of the
\* accounts or addresses only, or late, never says more than the clients have.
OnlyVerified ==
    /\ \A x \in Conns : addrs[x] \subseteq holds[x]
    /\ \A s \in signers : \E x \in Conns :
        s[2] \in holds[x] /\ account[x] \in Wallets /\ s[1] \in granted[account[x]]

\* A wallet has an entry as long as it has connections, all of them its own and
\* not yet taken out, and it always supports itself.
EntriesAreLive ==
    \A w \in Wallets :
        /\ w \in walletInfos <=> connections[w] # {}
        /\ connections[w] # {} => w \in supportAccounts[w]
        /\ \A x \in connections[w] : account[x] = w /\ pc[x] \in {"register", "init", "wait"}

\* A request to sign goes to clients that have the key, and for accounts their
\* wallet has granted, whatever came and went between the lookups.
SignIsEntitled ==
    \A q \in Signs : \A x \in targets[q] :
        signer[q] \in holds[x] /\ \E a \in asked[q] : a \in granted[account[x]]

\* AddNewAddress reports success without having added the addresses only when the
\* connection had gone, its wallet's entry with it, and the entry was back in time.
SuccessMeansAdded ==
    \A n \in Calls : pc[n] = "ok" /\ adding[n] = "asked" => on[n] \in done

\* No connection that comes or goes takes away an account from a wallet that stays.
SupportSurvives ==
    [][\A w \in Wallets : connections[w] # {} /\ connections'[w] # {} =>
        supportAccounts[w] \subseteq supportAccounts'[w]]_vars

\* A connection that has ended is taken out and its out is closed, unless its
\* goroutine is jammed.
EndIsNoticed ==
    \A x \in Conns : (x \in done /\ pc[x] # "idle") ~> (pc[x] = "closed" \/ []Jammed(x))
=============================================================================
