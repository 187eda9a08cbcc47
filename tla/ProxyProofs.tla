----------------------------- MODULE ProxyProofs -----------------------------
(***************************************************************************)
(* Theorems about Proxy: the order of the messages of a websocket session, *)
(* and why its two forwarders never wait for each other.                   *)
(***************************************************************************)
EXTENDS Proxy, SequenceTheorems, TLAPS

\* Where the handler is when forwarders run.
Opened ==
    \A f \in Ends : pc[f] # "off" =>
        \/ hpc = "forward" /\ open = Ends
        \/ hpc = "closed" /\ pc[Handler] = "exit"

\* A token was left by a forwarder that has ended, and the first to end saw an end go.
TokenIsLeft == signal = 1 => \E f \in Ends : pc[f] = "exit"
EndsForReason == \A f \in Ends : pc[f] \in {"signal", "exit"} => gone # {}

\* A forwarder holds a message from its read to its write.
HeldWhileWriting == \A f \in Ends : pc[f] \in {"off", "select", "read"} => hold[f] = <<>>

IInv == TypeOK /\ Opened /\ TokenIsLeft /\ EndsForReason /\ HeldWhileWriting /\ InOrder

----------------------------------------------------------------------------
(* Sequences of numbers.                                                   *)

LEMMA EndsTwo == \A f \in Ends : Other(f) \in Ends /\ Other(f) # f /\ \A g \in Ends : g = f \/ g = Other(f)
BY DEF Ends, Other

LEMMA NumbersLen ==
  ASSUME NEW n \in Nat
  PROVE  Numbers(n) \in Seq(Nat) /\ Len(Numbers(n)) = n /\ \A i \in 1..n : Numbers(n)[i] = i
BY DEF Numbers

\* Sequences are told apart by their lengths and elements.
LEMMA IsNumbers ==
  ASSUME NEW s \in Seq(Messages), \A i \in 1..Len(s) : s[i] = i
  PROVE  s = Numbers(Len(s))
BY DEF Numbers

LEMMA Concat ==
  ASSUME NEW s \in Seq(Messages), NEW t \in Seq(Messages)
  PROVE  /\ s \o t \in Seq(Messages) /\ Len(s \o t) = Len(s) + Len(t)
         /\ \A i \in 1..Len(s) : (s \o t)[i] = s[i]
<1>1. Len(s) \in Nat /\ Len(t) \in Nat
  OBVIOUS
<1> QED BY <1>1, ConcatProperties

\* What comes first counts from 1.
LEMMA PrefixCounts ==
  ASSUME NEW s \in Seq(Messages), NEW t \in Seq(Messages), NEW n \in Nat, s \o t = Numbers(n)
  PROVE  s = Numbers(Len(s)) /\ Len(s) <= n
<1>1. Len(s) + Len(t) = n /\ Len(s) \in Nat /\ Len(t) \in Nat
  <2>1. Len(Numbers(n)) = n
    BY NumbersLen
  <2> QED BY <2>1, Concat
<1>2. ASSUME NEW i \in 1..Len(s) PROVE s[i] = i
  <2>1. (s \o t)[i] = s[i]
    BY Concat
  <2>2. i \in 1..n
    BY <1>1
  <2>3. Numbers(n)[i] = i
    BY <2>2, NumbersLen
  <2> QED BY <2>1, <2>3
<1> QED BY <1>1, <1>2, IsNumbers

\* The next number.
LEMMA NextNumber ==
  ASSUME NEW n \in 0..(MaxMsgs - 1), NEW s \in Seq(Messages), NEW t \in Seq(Messages), s \o t = Numbers(n)
  PROVE  s \o Append(t, n + 1) = Numbers(n + 1)
<1>1. n \in Nat /\ n + 1 \in Nat /\ n + 1 \in Messages
  BY MsgsAssumption DEF Messages
<1>2. s \o Append(t, n + 1) = Append(s \o t, n + 1)
  <2> DEFINE m == n + 1
  <2>1. m \in Messages
    BY <1>1
  <2> HIDE DEF m
  <2>2. s \o t \in Seq(Messages) /\ <<m>> \in Seq(Messages)
    <3>1. <<m>> \in Seq(Messages)
      BY <2>1
    <3> QED BY <3>1, Concat
  <2>3. Append(t, m) = t \o <<m>> /\ Append(s \o t, m) = (s \o t) \o <<m>>
    BY <2>1, <2>2, AppendIsConcat
  <2>4. (s \o t) \o <<m>> = s \o (t \o <<m>>)
    BY <2>2, ConcatAssociative
  <2>5. s \o Append(t, m) = Append(s \o t, m)
    BY <2>3, <2>4
  <2> QED BY <2>5 DEF m
<1>3. Append(Numbers(n), n + 1) = Numbers(n + 1)
  BY <1>1 DEF Numbers
<1> QED BY <1>2, <1>3

LEMMA HeadThenTail ==
  ASSUME NEW s \in Seq(Messages), s # <<>>
  PROVE  <<Head(s)>> \in Seq(Messages) /\ Tail(s) \in Seq(Messages) /\ s = <<Head(s)>> \o Tail(s)
<1>1. <<Head(s)>> \in Seq(Messages) /\ Tail(s) \in Seq(Messages)
  BY HeadTailProperties
<1> QED BY <1>1, HeadTailProperties, ConcatProperties

----------------------------------------------------------------------------
(* The session.                                                            *)

LEMMA IInvInit == Init => IInv
<1> SUFFICES ASSUME Init PROVE IInv
  OBVIOUS
<1>1. <<>> \in Seq(Messages) /\ Len(<<>>) = 0
  OBVIOUS
<1>2. TypeOK
  <2>1. [f \in Ends |-> <<>>] \in [Ends -> Seq(Messages)]
    BY <1>1
  <2> QED BY <2>1, MsgsAssumption DEF Init, TypeOK
<1>3. Numbers(0) = <<>> /\ <<>> \o <<>> \o <<>> = <<>>
  BY NumbersLen DEF Numbers
<1>4. InOrder
  BY <1>1, <1>3, MsgsAssumption DEF Init, InOrder
<1> QED BY <1>2, <1>4 DEF Init, IInv, Opened, TokenIsLeft, EndsForReason, HeldWhileWriting

LEMMA TypeStep == TypeOK /\ [Next]_vars => TypeOK'
<1> SUFFICES ASSUME TypeOK, [Next]_vars PROVE TypeOK'
  OBVIOUS
<1> USE MsgsAssumption DEF TypeOK, Goto, net, session
<1>1. CASE Dial \/ Upgrade \/ CloseBoth
  BY <1>1 DEF Dial, Upgrade, CloseBoth, LeftOpen, Ends
<1>2. ASSUME NEW f \in Ends, Select(f) \/ ReadFails(f) \/ WriteFails(f) \/ SendSignal(f) PROVE TypeOK'
  <2>1. \E l \in {"read", "signal", "exit"} : pc' = [pc EXCEPT ![f] = l]
    BY <1>2 DEF Select, Default, ReadFails, WriteFails, SendSignal, Broken
  <2>2. signal' \in 0..1 /\ UNCHANGED <<hpc, open, net>>
    BY <1>2 DEF Select, Default, ReadFails, WriteFails, SendSignal, Broken
  <2> QED BY <2>1, <2>2
<1>3. ASSUME NEW f \in Ends, ReadMessage(f) PROVE TypeOK'
  <2>1. <<Head(in[f])>> \in Seq(Messages) /\ Tail(in[f]) \in Seq(Messages)
    BY <1>3, HeadThenTail DEF ReadMessage
  <2> QED BY <1>3, <2>1 DEF ReadMessage
<1>4. ASSUME NEW f \in Ends, WriteMessage(f) PROVE TypeOK'
  <2>1. out[f] \o hold[f] \in Seq(Messages) /\ <<>> \in Seq(Messages)
    BY Concat
  <2>2. out' \in [Ends -> Seq(Messages)] /\ hold' \in [Ends -> Seq(Messages)]
    BY <1>4, <2>1 DEF WriteMessage, Delivered
  <2> QED BY <1>4, <2>2 DEF WriteMessage, Delivered
<1>5. ASSUME NEW f \in Ends, SendMessage(f) PROVE TypeOK'
  <2>1. sent'[f] = sent[f] + 1 /\ sent[f] + 1 \in 0..MaxMsgs /\ sent[f] + 1 \in Messages
    BY <1>5 DEF SendMessage, Messages
  <2>2. Append(in[f], sent'[f]) \in Seq(Messages)
    BY <2>1
  <2> QED BY <1>5, <2>1, <2>2 DEF SendMessage
<1>6. ASSUME NEW f \in Ends, Leave(f) \/ Stall(f) \/ Resume(f) PROVE TypeOK'
  BY <1>6 DEF Leave, Stall, Resume
<1>7. CASE UNCHANGED vars
  BY <1>7 DEF vars
<1> QED BY <1>1, <1>2, <1>3, <1>4, <1>5, <1>6, <1>7 DEF Next, Forward

\* The forwarders run only in an open session, or in one that the handler has closed.
LEMMA OpenedStep == TypeOK /\ Opened /\ [Next]_vars => Opened'
<1> SUFFICES ASSUME TypeOK, Opened, [Next]_vars PROVE Opened'
  OBVIOUS
<1> USE DEF TypeOK, Opened, Goto, Handler
<1>1. CASE Dial \/ Upgrade \/ CloseBoth
  BY <1>1 DEF Dial, Upgrade, CloseBoth, LeftOpen, Ends
<1>2. ASSUME NEW f \in Ends, Forward(f) PROVE Opened'
  <2>1. UNCHANGED <<hpc, open>> /\ pc[f] \notin {"off", "exit"} /\ \A g \in Ends : g # f => pc'[g] = pc[g]
    BY <1>2 DEF Forward, Select, Default, ReadMessage, ReadFails, WriteMessage, Delivered,
       WriteFails, SendSignal, Broken
  <2>2. "client" \in Ends
    BY DEF Ends
  <2> QED BY <2>1, <2>2
<1>3. CASE UNCHANGED session
  BY <1>3 DEF session
<1> QED BY <1>1, <1>2, <1>3 DEF Next, SendMessage, Leave, Stall, Resume, vars

\* Nobody ends without cause: an end has gone.
LEMMA ReasonStep == IInv /\ [Next]_vars => TokenIsLeft' /\ EndsForReason'
<1> SUFFICES ASSUME IInv, [Next]_vars PROVE TokenIsLeft' /\ EndsForReason'
  OBVIOUS
<1> USE DEF IInv, TypeOK, TokenIsLeft, EndsForReason, Goto
<1>1. CASE Dial \/ Upgrade \/ CloseBoth
  BY <1>1 DEF Dial, Upgrade, CloseBoth, LeftOpen, net, Opened
<1>2. ASSUME NEW f \in Ends, Forward(f) PROVE TokenIsLeft' /\ EndsForReason'
  <2>1. \A g \in Ends : g # f => pc'[g] = pc[g]
    BY <1>2 DEF Forward, Select, Default, ReadMessage, ReadFails, WriteMessage, Delivered,
       WriteFails, SendSignal, Broken
  <2>2. gone' = gone
    BY <1>2 DEF Forward, Select, Default, ReadMessage, ReadFails, WriteMessage, Delivered,
       WriteFails, SendSignal, Broken, net
  <2>3. CASE Select(f)
    BY <2>1, <2>2, <2>3 DEF Select, Default
  <2>4. CASE ReadMessage(f) \/ WriteMessage(f)
    BY <2>1, <2>2, <2>4 DEF ReadMessage, WriteMessage, Delivered
  <2>5. CASE ReadFails(f) \/ WriteFails(f)
    <3>1. /\ pc[f] \in {"read", "write"} /\ pc'[f] = "signal" /\ signal' = signal
          /\ \E g \in Ends : g \in gone \/ g \notin open
      BY <2>5, EndsTwo DEF ReadFails, WriteFails
    <3>2. gone # {}
      BY <3>1 DEF Opened, Handler, Ends
    <3> QED BY <2>1, <2>2, <3>1, <3>2
  <2>6. CASE SendSignal(f)
    BY <2>1, <2>2, <2>6 DEF SendSignal, Broken
  <2> QED BY <1>2, <2>3, <2>4, <2>5, <2>6 DEF Forward
<1>3. CASE UNCHANGED session /\ gone \subseteq gone'
  BY <1>3 DEF session
<1> QED BY <1>1, <1>2, <1>3 DEF Next, SendMessage, Leave, Stall, Resume, vars, net

----------------------------------------------------------------------------
(* The messages.                                                           *)

\* What the other end has received, what is in the forwarder's hands, and what it
\* has not read yet, for one direction.
Flow(f) ==
    /\ out[f] = Numbers(Len(out[f])) /\ Len(out[f]) <= sent[f]
    /\ Other(f) \notin gone => out[f] \o hold[f] \o in[f] = Numbers(sent[f])

LEMMA OrderStep == IInv /\ [Next]_vars => InOrder' /\ HeldWhileWriting'
<1> SUFFICES ASSUME IInv, [Next]_vars PROVE InOrder' /\ HeldWhileWriting'
  OBVIOUS
<1>1. /\ out \in [Ends -> Seq(Messages)] /\ hold \in [Ends -> Seq(Messages)]
      /\ in \in [Ends -> Seq(Messages)] /\ sent \in [Ends -> 0..MaxMsgs] /\ DOMAIN pc = Ends
  BY DEF IInv, TypeOK
<1>2. \A f \in Ends : Flow(f)
  BY DEF IInv, InOrder, Flow
<1>3. ASSUME NEW f \in Ends, out'[f] = out[f], hold'[f] = hold[f], in'[f] = in[f], sent'[f] = sent[f],
             gone \subseteq gone'
      PROVE  Flow(f)'
  BY <1>2, <1>3 DEF Flow
<1>4. ASSUME NEW f \in Ends, ReadMessage(f) PROVE InOrder' /\ HeldWhileWriting'
  <2>1. /\ hold'[f] = <<Head(in[f])>> /\ in'[f] = Tail(in[f]) /\ pc'[f] = "write" /\ in[f] # <<>>
        /\ pc[f] = "read" /\ UNCHANGED <<out, sent, gone>>
    BY <1>1, <1>4 DEF ReadMessage, Goto
  <2>2. \A g \in Ends : g # f => hold'[g] = hold[g] /\ in'[g] = in[g] /\ pc'[g] = pc[g]
    BY <1>1, <1>4 DEF ReadMessage, Goto
  <2>3. hold[f] = <<>>
    BY <2>1 DEF IInv, HeldWhileWriting
  <2>4. out[f] \o <<>> \o in[f] = out[f] \o <<Head(in[f])>> \o Tail(in[f])
    <3>1. PICK s \in Seq(Messages), t \in Seq(Messages) : s = out[f] /\ t = in[f]
      BY <1>1
    <3>2. t # <<>>
      BY <2>1, <3>1
    <3>3. <<Head(t)>> \in Seq(Messages) /\ Tail(t) \in Seq(Messages) /\ t = <<Head(t)>> \o Tail(t)
      BY <3>2, HeadThenTail
    <3>4. s \o <<>> = s /\ (s \o <<Head(t)>>) \o Tail(t) = s \o (<<Head(t)>> \o Tail(t))
      BY <3>3, ConcatEmptySeq, ConcatAssociative
    <3> QED BY <3>1, <3>3, <3>4
  <2>5. Flow(f)'
    BY <1>2, <2>1, <2>3, <2>4 DEF Flow
  <2>6. \A g \in Ends : g # f => Flow(g)'
    BY <1>3, <2>1, <2>2
  <2> QED BY <2>1, <2>2, <2>5, <2>6 DEF IInv, HeldWhileWriting, InOrder, Flow
<1>5. ASSUME NEW f \in Ends, WriteMessage(f) PROVE InOrder' /\ HeldWhileWriting'
  <2>1. /\ hold'[f] = <<>> /\ out'[f] = IF Other(f) \in gone THEN out[f] ELSE out[f] \o hold[f]
        /\ UNCHANGED <<in, sent, gone>>
    BY <1>1, <1>5 DEF WriteMessage, Delivered
  <2>2. \A g \in Ends : g # f => hold'[g] = hold[g] /\ out'[g] = out[g] /\ pc'[g] = pc[g]
    BY <1>1, <1>5 DEF WriteMessage, Delivered, Goto
  <2>3. Flow(f)'
    <3>1. CASE Other(f) \in gone
      BY <1>2, <2>1, <3>1 DEF Flow
    <3>2. CASE Other(f) \notin gone
      <4>1. PICK s \in Seq(Messages), h \in Seq(Messages), t \in Seq(Messages), n \in Nat :
               s = out[f] /\ h = hold[f] /\ t = in[f] /\ n = sent[f]
        BY <1>1
      <4>2. s \o h \o t = Numbers(n)
        BY <1>2, <3>2, <4>1 DEF Flow
      <4>3. s \o h \in Seq(Messages) /\ s \o h \o <<>> = s \o h
        BY Concat, ConcatEmptySeq
      <4>4. s \o h = Numbers(Len(s \o h)) /\ Len(s \o h) <= n
        BY <4>2, <4>3, PrefixCounts
      <4>5. out'[f] = s \o h /\ hold'[f] = <<>> /\ in'[f] = t /\ sent'[f] = n
        BY <2>1, <3>2, <4>1
      <4> QED BY <4>2, <4>3, <4>4, <4>5 DEF Flow
    <3> QED BY <3>1, <3>2
  <2>4. \A g \in Ends : g # f => Flow(g)'
    BY <1>3, <2>1, <2>2
  <2> QED BY <2>1, <2>2, <2>3, <2>4 DEF IInv, HeldWhileWriting, InOrder, Flow
<1>6. ASSUME NEW f \in Ends, SendMessage(f) PROVE InOrder' /\ HeldWhileWriting'
  <2>1. /\ sent'[f] = sent[f] + 1 /\ in'[f] = Append(in[f], sent[f] + 1) /\ sent[f] < MaxMsgs
        /\ UNCHANGED <<out, hold, gone, pc>>
    BY <1>1, <1>6 DEF SendMessage, session
  <2>2. \A g \in Ends : g # f => in'[g] = in[g] /\ sent'[g] = sent[g]
    BY <1>1, <1>6 DEF SendMessage
  <2>3. Flow(f)'
    <3>1. PICK s \in Seq(Messages), h \in Seq(Messages), t \in Seq(Messages), n \in 0..(MaxMsgs - 1) :
             s = out[f] /\ h = hold[f] /\ t = in[f] /\ n = sent[f]
      BY <1>1, <2>1, MsgsAssumption
    <3>2. s \o h \in Seq(Messages)
      BY Concat
    <3>3. s \o h \o t = Numbers(n) => s \o h \o Append(t, n + 1) = Numbers(n + 1)
      BY <3>2, NextNumber
    <3>4. s = Numbers(Len(s)) /\ Len(s) <= n /\ (Other(f) \notin gone => s \o h \o t = Numbers(n))
      BY <1>2, <3>1 DEF Flow
    <3>5. Len(s) <= n + 1
      <4>1. Len(s) \in Nat
        OBVIOUS
      <4> QED BY <3>4, <4>1
    <3>6. out'[f] = s /\ hold'[f] = h /\ in'[f] = Append(t, n + 1) /\ sent'[f] = n + 1 /\ gone' = gone
      BY <2>1, <3>1
    <3> QED BY <3>3, <3>4, <3>5, <3>6 DEF Flow
  <2>4. \A g \in Ends : g # f => Flow(g)'
    BY <1>3, <2>1, <2>2
  <2> QED BY <2>1, <2>3, <2>4 DEF IInv, HeldWhileWriting, InOrder, Flow
<1>7. ASSUME UNCHANGED <<out, hold, in, sent>>, gone \subseteq gone',
             \A f \in Ends : pc'[f] \in {"off", "select", "read"} => pc[f] \in {"off", "select", "read"}
      PROVE  InOrder' /\ HeldWhileWriting'
  <2>1. \A f \in Ends : Flow(f)'
    BY <1>3, <1>7
  <2> QED BY <1>7, <2>1 DEF IInv, HeldWhileWriting, InOrder, Flow
<1>8. ASSUME \/ Dial \/ Upgrade \/ CloseBoth \/ UNCHANGED vars
             \/ \E f \in Ends : \/ Select(f) \/ ReadFails(f) \/ WriteFails(f) \/ SendSignal(f)
                                \/ Leave(f) \/ Stall(f) \/ Resume(f)
      PROVE  InOrder' /\ HeldWhileWriting'
  <2>1. UNCHANGED <<out, hold, in, sent>> /\ gone \subseteq gone'
    BY <1>8 DEF Dial, Upgrade, CloseBoth, LeftOpen, Select, Default, ReadFails, WriteFails,
       SendSignal, Broken, Leave, Stall, Resume,
       net, vars
  <2>2. \A f \in Ends : pc'[f] \in {"off", "select", "read"} => pc[f] \in {"off", "select", "read"}
    BY <1>1, <1>8 DEF IInv, Opened, Dial, Upgrade, CloseBoth, LeftOpen, Select, Default, ReadFails,
       WriteFails, SendSignal, Broken,
       Leave, Stall, Resume, Goto, session, vars
  <2> QED BY <1>7, <2>1, <2>2
<1> QED BY <1>4, <1>5, <1>6, <1>8 DEF Next, Forward

----------------------------------------------------------------------------
(* The theorems.                                                           *)

LEMMA Inductive == Spec => []IInv
<1>1. IInv /\ [Next]_vars => IInv'
  BY TypeStep, OpenedStep, ReasonStep, OrderStep DEF IInv
<1> QED BY IInvInit, <1>1, PTL DEF Spec

\* Every variable of the session keeps its type: one token at most is in signal.
THEOREM TypeCorrect == Spec => []TypeOK
BY Inductive, PTL DEF IInv

\* For any number of messages, each direction delivers them in order and without
\* gaps, whichever end goes or stalls meanwhile.
THEOREM MessagesInOrder == Spec => []InOrder
BY Inductive, PTL DEF IInv

\* A forwarder that blocks on signal is the last of the two: they never wait for
\* each other.
THEOREM StuckForwarderIsLast == Spec => []StuckIsLast
<1>1. IInv => StuckIsLast
  <2> SUFFICES ASSUME IInv, NEW f \in Ends, pc[f] = "signal", signal = 1
               PROVE  pc[Other(f)] = "exit" /\ gone # {}
    BY DEF StuckIsLast, Stuck
  <2>1. PICK g \in Ends : pc[g] = "exit"
    BY DEF IInv, TokenIsLeft
  <2>2. g = Other(f)
    BY <2>1, EndsTwo
  <2> QED BY <2>1, <2>2 DEF IInv, EndsForReason
<1> QED BY <1>1, Inductive, PTL
=============================================================================
