-------------------------------- MODULE Proxy --------------------------------
(***************************************************************************)
(* A websocket session of the reverse proxy: proxy/server.go.  The handler *)
(* dials the upstream service, upgrades the client's connection, and then  *)
(* two goroutines run forwardMessages: the handler itself reads from the   *)
(* client, a second goroutine reads from upstream.  Whichever fails tells  *)
(* the other by a token in signal, a channel of capacity 1; when the       *)
(* handler's ends both connections are closed.                             *)
(*                                                                         *)
(* Each forwarder is named by the end it reads from.  Messages of an end   *)
(* are numbered in the order it sends them.                                *)
(***************************************************************************)
EXTENDS Naturals, Sequences

CONSTANT MaxMsgs  \* bound: messages each end sends

ASSUME MsgsAssumption == MaxMsgs \in Nat

Ends == {"client", "upstream"}
Handler == "client"
Other(f) == IF f = "client" THEN "upstream" ELSE "client"

VARIABLES
    hpc,       \* the handler: "dial", "upgrade", "forward", "closed"
    pc,        \* pc[f]: where forwardMessages is
    signal,    \* tokens in signal
    open,      \* the connections the proxy has open
    gone,      \* the ends that have closed their connection, or are cut off
    stalled,   \* the ends that do not read: a write to one of them blocks
    sent,      \* sent[f]: how many messages end f has sent
    in,        \* in[f]: those the proxy has not read yet
    hold,      \* hold[f]: the one its forwarder has read and not written
    out        \* out[f]: those that have been delivered to the other end

session == <<hpc, pc, signal, open>>
net == <<gone, stalled, sent, in, hold, out>>
vars == <<session, net>>

Init ==
    /\ hpc = "dial" /\ pc = [f \in Ends |-> "off"] /\ signal = 0 /\ open = {}
    /\ gone = {} /\ stalled = {}
    /\ sent = [f \in Ends |-> 0] /\ in = [f \in Ends |-> <<>>]
    /\ hold = [f \in Ends |-> <<>>] /\ out = [f \in Ends |-> <<>>]

----------------------------------------------------------------------------
(* The handler.  Its deferred calls close what it has opened.              *)

Dial ==
    /\ hpc = "dial"
    /\ \/ hpc' = "upgrade" /\ open' = {"upstream"}
       \/ hpc' = "closed" /\ UNCHANGED open
    /\ UNCHANGED <<pc, signal, net>>

Upgrade ==
    /\ hpc = "upgrade"
    /\ \/ hpc' = "forward" /\ open' = Ends /\ pc' = [f \in Ends |-> "select"]
       \/ hpc' = "closed" /\ open' = {} /\ UNCHANGED pc
    /\ UNCHANGED <<signal, net>>

\* What the deferred calls leave open (in the mutant, what the handler dialled).
LeftUpstream == {"upstream"}
LeftOpen == {}

\* The handler's forwardMessages has returned.
CloseBoth ==
    /\ hpc = "forward" /\ pc[Handler] = "exit"
    /\ hpc' = "closed" /\ open' = LeftOpen
    /\ UNCHANGED <<pc, signal, net>>

----------------------------------------------------------------------------
(* forwardMessages(signal, f, Other(f)).                                   *)

Goto(f, p) == pc' = [pc EXCEPT ![f] = p]

\* The select has a default (not in the mutant).
NoDefault == FALSE
Default == signal = 0

\* A token ends it; without one it goes on.
Select(f) ==
    /\ pc[f] = "select"
    /\ \/ signal = 1 /\ signal' = 0 /\ Goto(f, "exit")
       \/ Default /\ UNCHANGED signal /\ Goto(f, "read")
    /\ UNCHANGED <<hpc, open, net>>

ReadMessage(f) ==
    /\ pc[f] = "read" /\ f \in open /\ in[f] # <<>> /\ Goto(f, "write")
    /\ hold' = [hold EXCEPT ![f] = <<Head(in[f])>>]
    /\ in' = [in EXCEPT ![f] = Tail(@)]
    /\ UNCHANGED <<hpc, signal, open, gone, stalled, sent, out>>

\* What the end sent before it went can still be read, or is lost with it.
ReadFails(f) ==
    /\ pc[f] = "read" /\ (f \in gone \/ f \notin open) /\ Goto(f, "signal")
    /\ UNCHANGED <<hpc, signal, open, net>>

\* What a write brings to the other end (in the mutant: no message of a session that
\* is about to end).
DeliveredUntold(f) == IF Other(f) \in gone \/ signal = 1 THEN <<>> ELSE hold[f]
Delivered(f) == IF Other(f) \in gone THEN <<>> ELSE hold[f]

\* A write to an end that has just gone may still succeed, to no effect.
WriteMessage(f) ==
    /\ pc[f] = "write" /\ Other(f) \in open \ stalled /\ Goto(f, "select")
    /\ hold' = [hold EXCEPT ![f] = <<>>]
    /\ out' = [out EXCEPT ![f] = @ \o Delivered(f)]
    /\ UNCHANGED <<hpc, signal, open, gone, stalled, sent, in>>

WriteFails(f) ==
    /\ pc[f] = "write" /\ (Other(f) \in gone \/ Other(f) \notin open) /\ Goto(f, "signal")
    /\ UNCHANGED <<hpc, signal, open, net>>

\* Where an error takes the loop (the mutant's break leaves a select only).
BrokenSelect == "select"
Broken == "exit"

\* signal <- struct{}{}: it blocks while a token is there.
SendSignal(f) ==
    /\ pc[f] = "signal" /\ signal = 0 /\ signal' = 1 /\ Goto(f, Broken)
    /\ UNCHANGED <<hpc, open, net>>

----------------------------------------------------------------------------
(* The two ends.                                                           *)

SendMessage(f) ==
    /\ f \in open \ gone /\ sent[f] < MaxMsgs
    /\ sent' = [sent EXCEPT ![f] = @ + 1]
    /\ in' = [in EXCEPT ![f] = Append(@, sent'[f])]
    /\ UNCHANGED <<session, gone, stalled, hold, out>>

Leave(f) ==
    /\ f \notin gone /\ hpc # "closed" /\ gone' = gone \cup {f}
    /\ UNCHANGED <<session, stalled, sent, in, hold, out>>

Stall(f) ==
    /\ f \notin stalled /\ hpc # "closed" /\ stalled' = stalled \cup {f}
    /\ UNCHANGED <<session, gone, sent, in, hold, out>>

Resume(f) ==
    /\ f \in stalled /\ stalled' = stalled \ {f}
    /\ UNCHANGED <<session, gone, sent, in, hold, out>>

----------------------------------------------------------------------------
Forward(f) ==
    \/ Select(f) \/ ReadMessage(f) \/ ReadFails(f) \/ WriteMessage(f) \/ WriteFails(f)
    \/ SendSignal(f)

Next ==
    \/ Dial \/ Upgrade \/ CloseBoth
    \/ \E f \in Ends : Forward(f) \/ SendMessage(f) \/ Leave(f) \/ Stall(f) \/ Resume(f)

Spec == Init /\ [][Next]_vars

(* The scheduler runs what can run; a write blocked by an end that does not *)
(* read goes on when it reads again.  Nothing is assumed of the two ends.   *)
FairSpec == Spec /\ WF_vars(CloseBoth) /\ \A f \in Ends : SF_vars(Forward(f))

----------------------------------------------------------------------------
(* Properties.                                                             *)

Messages == 1..MaxMsgs
Numbers(n) == [i \in 1..n |-> i]

TypeOK ==
    /\ hpc \in {"dial", "upgrade", "forward", "closed"}
    /\ pc \in [Ends -> {"off", "select", "read", "write", "signal", "exit"}]
    /\ signal \in 0..1 /\ open \subseteq Ends /\ gone \subseteq Ends /\ stalled \subseteq Ends
    /\ sent \in [Ends -> 0..MaxMsgs]
    /\ in \in [Ends -> Seq(Messages)] /\ hold \in [Ends -> Seq(Messages)]
    /\ out \in [Ends -> Seq(Messages)]

\* What arrives at an end is what the other sent, in order and without gaps, also
\* while the session breaks down; nothing vanishes on the way to an end that stays.
InOrder ==
    \A f \in Ends :
        /\ out[f] = Numbers(Len(out[f])) /\ Len(out[f]) <= sent[f]
        /\ Other(f) \notin gone => out[f] \o hold[f] \o in[f] = Numbers(sent[f])

\* A forwarder that cannot tell the other of its end, for a token is there already.
Stuck(f) == pc[f] = "signal" /\ signal = 1

\* The two never wait for each other: one can be stuck only when the other has
\* ended, for which an end must have gone.
StuckIsLast == \A f \in Ends : Stuck(f) => pc[Other(f)] = "exit" /\ gone # {}

\* While both ends stay, all they send arrives, unless the receiver stops reading.
MessagesArrive ==
    \A f \in Ends, i \in Messages :
        sent[f] >= i /\ pc[f] # "off" ~>
            (Len(out[f]) >= i \/ gone # {} \/ [](Other(f) \in stalled))

\* When an end goes, the handler closes the other's connection too, unless it is
\* stuck, or does not notice: it reads from a quiet client, or writes to an
\* upstream that does not read.  Then the second goroutine ends, or is stuck.
SessionEnds ==
    /\ "upstream" \in gone /\ hpc = "forward" ~>
        (hpc = "closed" \/ []Stuck(Handler) \/ [](pc[Handler] = "read" /\ in[Handler] = <<>>))
    /\ "client" \in gone /\ hpc = "forward" ~>
        (hpc = "closed" \/ []Stuck(Handler) \/ [](pc[Handler] = "write" /\ "upstream" \in stalled))
    /\ hpc = "closed" ~> (pc["upstream"] \in {"off", "exit"} \/ []Stuck("upstream"))
=============================================================================
