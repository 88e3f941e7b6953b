-------------------------- MODULE SignalingProofs --------------------------
(***************************************************************************)
(* Proofs about Signaling, for any number of connections, groups and       *)
(* infos, any capacities and limits: no member of a room is lost, every    *)
(* member is known to the others or about to be, and what a client shows   *)
(* of a newcomer is what that one last said.                               *)
(***************************************************************************)
EXTENDS Signaling, FiniteSetTheorems, SequenceTheorems, TLAPS

-----------------------------------------------------------------------------
(* Messages. *)

Message ==
  [type : {"Hello"}, peers : [Peers -> Infos \cup {None}]]
  \cup [type : {"Join", "Update"}, peer : Peers, info : Infos]
  \cup [type : {"Left", "Sdp"}, peer : Peers]
  \cup {Error}

\* What a message that is about q says of q.
Value(m, q) ==
  IF m.type = "Hello" THEN m.peers[q] ELSE IF m.type = "Left" THEN None ELSE m.info

LEMMA HelloMessage ==
  ASSUME NEW p \in Peers, seen[p] \in [Peers -> Infos \cup {None}]
  PROVE  /\ Hello(p) \in Message /\ Hello(p).type # "Left"
         /\ \A q \in Peers : About(Hello(p), q) <=> seen[p][q] # None
         /\ \A q \in Peers : Value(Hello(p), q) = seen[p][q]
BY DEF Hello, Message, About, Value

LEMMA JoinMessage ==
  ASSUME NEW p \in Peers, info[p] \in Infos
  PROVE  /\ Join(p) \in Message /\ Join(p).type # "Left"
         /\ \A q \in Peers : About(Join(p), q) <=> q = p
         /\ Value(Join(p), p) = info[p]
BY DEF Join, Message, About, Value

LEMMA UpdateMessage ==
  ASSUME NEW p \in Peers, NEW i \in Infos
  PROVE  /\ Update(p, i) \in Message /\ Update(p, i).type = "Update"
         /\ \A q \in Peers : About(Update(p, i), q) <=> q = p
         /\ Value(Update(p, i), p) = i
BY DEF Update, Message, About, Value

LEMMA LeftMessage ==
  ASSUME NEW p \in Peers
  PROVE  /\ Left(p) \in Message /\ Left(p).peer = p
         /\ \A q \in Peers : About(Left(p), q) <=> q = p
         /\ Value(Left(p), p) = None
BY DEF Left, Message, About, Value

LEMMA OtherMessages ==
  /\ Error \in Message /\ Error.type = "Error"
  /\ \A q \in Peers : ~About(Error, q)
  /\ \A p \in Peers : /\ Sdp(p) \in Message /\ Sdp(p).type = "Sdp"
                      /\ \A q \in Peers : ~About(Sdp(p), q)
BY DEF Error, Sdp, Message, About

\* The client's application turns a message into what it shows.
LEMMA ShownValue ==
  ASSUME NEW v \in [Peers -> Infos \cup {None}], NEW m \in Message
  PROVE  /\ Shown(v, m) \in [Peers -> Infos \cup {None}]
         /\ \A q \in Peers :
              Shown(v, m)[q] = IF About(m, q) THEN Value(m, q) ELSE v[q]
<1>1. CASE m \in [type : {"Hello"}, peers : [Peers -> Infos \cup {None}]]
  BY <1>1 DEF Shown, Merged, About, Value
<1>2. CASE m \in [type : {"Join", "Update"}, peer : Peers, info : Infos]
  BY <1>2 DEF Shown, About, Value
<1>3. CASE m \in [type : {"Left", "Sdp"}, peer : Peers]
  BY <1>3 DEF Shown, About, Value
<1>4. CASE m = Error
  BY <1>4 DEF Shown, About, Error
<1> QED
  BY <1>1, <1>2, <1>3, <1>4 DEF Message

\* Only Left says nothing of a device.
LEMMA ValueType ==
  ASSUME NEW m \in Message, NEW q \in Peers, About(m, q), m.type # "Left"
  PROVE  Value(m, q) # None
<1>1. CASE m \in [type : {"Hello"}, peers : [Peers -> Infos \cup {None}]]
  BY <1>1 DEF About, Value
<1>2. CASE m \in [type : {"Join", "Update"}, peer : Peers, info : Infos]
  BY <1>2, ConstantsAssumption DEF About, Value
<1>3. CASE m \in [type : {"Left", "Sdp"}, peer : Peers] \/ m = Error
  BY <1>3 DEF About, Error
<1> QED
  BY <1>1, <1>2, <1>3 DEF Message

-----------------------------------------------------------------------------
(* What is on its way to a client, as one queue. *)

LEMMA ConcatAppend ==
  ASSUME NEW s \in Seq(Message), NEW t \in Seq(Message), NEW m \in Message
  PROVE  s \o Append(t, m) = Append(s \o t, m)
<1>1. s \o t \in Seq(Message) /\ <<m>> \in Seq(Message)
  BY ConcatProperties
<1>2. Append(t, m) = t \o <<m>>
  BY AppendIsConcat
<1>3. Append(s \o t, m) = (s \o t) \o <<m>>
  BY <1>1, AppendIsConcat
<1>4. (s \o t) \o <<m>> = s \o (t \o <<m>>)
  BY <1>1, ConcatAssociative
<1> QED
  BY <1>2, <1>3, <1>4

LEMMA MoveHead ==
  ASSUME NEW s \in Seq(Message), NEW t \in Seq(Message), t # <<>>
  PROVE  Append(s, Head(t)) \o Tail(t) = s \o t
<1>1. Head(t) \in Message /\ Tail(t) \in Seq(Message) /\ <<Head(t)>> \in Seq(Message)
  BY HeadTailProperties
<1>2. Append(s, Head(t)) = s \o <<Head(t)>>
  BY <1>1, AppendIsConcat
<1>3. t = <<Head(t)>> \o Tail(t)
  OBVIOUS
<1>4. (s \o <<Head(t)>>) \o Tail(t) = s \o (<<Head(t)>> \o Tail(t))
  BY <1>1, ConcatAssociative
<1> QED
  BY <1>2, <1>3, <1>4

LEMMA TailConcat ==
  ASSUME NEW s \in Seq(Message), NEW t \in Seq(Message), s # <<>>
  PROVE  s \o t # <<>> /\ Tail(s \o t) = Tail(s) \o t /\ Head(s \o t) = Head(s)
<1>1. /\ Head(s) \in Message /\ Tail(s) \in Seq(Message)
      /\ Len(s) \in Nat /\ Len(t) \in Nat /\ Len(s) # 0
      /\ Len(Tail(s)) = Len(s) - 1
      /\ \A i \in 1..Len(Tail(s)) : Tail(s)[i] = s[i + 1]
  BY HeadTailProperties
<1>2. /\ s \o t \in Seq(Message) /\ Len(s \o t) = Len(s) + Len(t)
      /\ \A i \in 1..Len(s) + Len(t) : (s \o t)[i] =
           IF i <= Len(s) THEN s[i] ELSE t[i - Len(s)]
  BY ConcatProperties
<1>3. s \o t # <<>>
  BY <1>1, <1>2
<1>4. /\ Tail(s \o t) \in Seq(Message) /\ Len(Tail(s \o t)) = Len(s) + Len(t) - 1
      /\ \A i \in 1..Len(Tail(s \o t)) : Tail(s \o t)[i] = (s \o t)[i + 1]
  BY <1>2, <1>3, HeadTailProperties
<1>5. /\ Tail(s) \o t \in Seq(Message) /\ Len(Tail(s) \o t) = Len(s) - 1 + Len(t)
      /\ \A i \in 1..Len(s) - 1 + Len(t) : (Tail(s) \o t)[i] =
           IF i <= Len(s) - 1 THEN Tail(s)[i] ELSE t[i - (Len(s) - 1)]
  BY <1>1, ConcatProperties
<1>6. ASSUME NEW i \in 1..Len(Tail(s \o t))
      PROVE  Tail(s \o t)[i] = (Tail(s) \o t)[i]
  <2>1. i + 1 \in 1..Len(s) + Len(t) /\ i \in 1..Len(s) - 1 + Len(t)
    BY <1>1, <1>4
  <2>2. CASE i <= Len(s) - 1
    <3>1. i \in 1..Len(Tail(s)) /\ i + 1 <= Len(s)
      BY <1>1, <2>1, <2>2
    <3> QED
      BY <1>1, <1>2, <1>4, <1>5, <2>1, <2>2, <3>1
  <2>3. CASE ~(i <= Len(s) - 1)
    <3>1. ~(i + 1 <= Len(s)) /\ (i + 1) - Len(s) = i - (Len(s) - 1)
      BY <1>1, <2>1, <2>3
    <3> QED
      BY <1>2, <1>4, <1>5, <2>1, <2>3, <3>1
  <2> QED
    BY <2>2, <2>3
<1>7. Tail(s \o t) = Tail(s) \o t
  <2>1. Len(Tail(s \o t)) = Len(Tail(s) \o t)
    BY <1>1, <1>4, <1>5
  <2> QED
    BY <1>4, <1>5, <1>6, <2>1, SeqEqual
<1>8. Head(s \o t) = Head(s)
  <2>1. Head(s \o t) = (s \o t)[1] /\ Head(s) = s[1]
    BY <1>1, <1>2, <1>3
  <2>2. 1 \in 1..Len(s) + Len(t) /\ 1 <= Len(s)
    BY <1>1
  <2> QED
    BY <1>2, <2>1, <2>2
<1> QED
  BY <1>3, <1>7, <1>8

Pending(p) == inbox[p] \o chan[p]

LinkType ==
  /\ chan \in [Peers -> Seq(Message)]
  /\ inbox \in [Peers -> Seq(Message)]

LEMMA PendingType ==
  ASSUME LinkType, NEW p \in Peers
  PROVE  Pending(p) \in Seq(Message) /\ Len(Pending(p)) \in Nat
BY DEF LinkType, Pending

LEMMA SendToPending ==
  ASSUME LinkType, NEW x \in Peers, NEW m \in Message, SendTo(x, m), inbox' = inbox
  PROVE  /\ LinkType' /\ rxOpen' = rxOpen
         /\ \A p \in Peers : p # x => Pending(p)' = Pending(p) /\ chan'[p] = chan[p]
         /\ rxOpen[x] => /\ Pending(x)' = Append(Pending(x), m)
                         /\ Len(chan'[x]) = Len(chan[x]) + 1 /\ Len(chan[x]) < Capacity
         /\ ~rxOpen[x] => Pending(x)' = Pending(x) /\ chan' = chan
<1>1. CASE rxOpen[x]
  <2>1. chan' = [chan EXCEPT ![x] = Append(chan[x], m)] /\ rxOpen' = rxOpen
        /\ Len(chan[x]) < Capacity
    BY <1>1 DEF SendTo
  <2>2. chan[x] \in Seq(Message) /\ inbox[x] \in Seq(Message)
    BY DEF LinkType
  <2>3. LinkType'
    BY <2>1, <2>2 DEF LinkType
  <2>4. chan'[x] = Append(chan[x], m) /\ \A p \in Peers : p # x => chan'[p] = chan[p]
    BY <2>1 DEF LinkType
  <2>5. inbox[x] \o Append(chan[x], m) = Append(inbox[x] \o chan[x], m)
    BY <2>2, ConcatAppend
  <2>6. Len(chan'[x]) = Len(chan[x]) + 1
    BY <2>2, <2>4
  <2> QED
    BY <1>1, <2>1, <2>3, <2>4, <2>5, <2>6 DEF Pending
<1>2. CASE ~rxOpen[x]
  BY <1>2 DEF SendTo, LinkType, Pending
<1> QED
  BY <1>1, <1>2

LEMMA DeliverPending ==
  ASSUME LinkType, NEW p \in Peers, Deliver(p)
  PROVE  /\ LinkType' /\ \A q \in Peers : Pending(q)' = Pending(q)
         /\ \A q \in Peers : q # p => chan'[q] = chan[q] /\ inbox'[q] = inbox[q]
         /\ Len(chan'[p]) = Len(chan[p]) - 1 /\ Len(inbox'[p]) = Len(inbox[p]) + 1
<1>1. /\ chan[p] \in Seq(Message) /\ inbox[p] \in Seq(Message) /\ chan[p] # <<>>
      /\ chan' = [chan EXCEPT ![p] = Tail(chan[p])]
      /\ inbox' = [inbox EXCEPT ![p] = Append(inbox[p], Head(chan[p]))]
  BY DEF Deliver, LinkType
<1>2. Head(chan[p]) \in Message /\ Tail(chan[p]) \in Seq(Message)
  BY <1>1
<1>3. LinkType'
  BY <1>1, <1>2 DEF LinkType
<1>4. /\ chan'[p] = Tail(chan[p]) /\ inbox'[p] = Append(inbox[p], Head(chan[p]))
      /\ \A q \in Peers : q # p => chan'[q] = chan[q] /\ inbox'[q] = inbox[q]
  BY <1>1 DEF LinkType
<1>5. Append(inbox[p], Head(chan[p])) \o Tail(chan[p]) = inbox[p] \o chan[p]
  BY <1>1, MoveHead
<1>6. \A q \in Peers : Pending(q)' = Pending(q)
  BY <1>4, <1>5 DEF Pending
<1>7. Len(chan'[p]) = Len(chan[p]) - 1 /\ Len(inbox'[p]) = Len(inbox[p]) + 1
  <2>1. Len(Tail(chan[p])) = Len(chan[p]) - 1
    BY <1>1
  <2>2. Len(Append(inbox[p], Head(chan[p]))) = Len(inbox[p]) + 1
    BY <1>1, <1>2
  <2> QED
    BY <1>4, <2>1, <2>2
<1> QED
  BY <1>3, <1>4, <1>6, <1>7

LEMMA TakePending ==
  ASSUME LinkType, NEW p \in Peers, ClientTake(p)
  PROVE  /\ LinkType' /\ \A q \in Peers : q # p => Pending(q)' = Pending(q)
         /\ Pending(p) # <<>> /\ Pending(p)' = Tail(Pending(p))
         /\ Head(inbox[p]) = Head(Pending(p)) /\ Head(inbox[p]) \in Message
         /\ \A q \in Peers : q # p => inbox'[q] = inbox[q]
         /\ Len(inbox'[p]) = Len(inbox[p]) - 1
<1>1. /\ chan[p] \in Seq(Message) /\ inbox[p] \in Seq(Message) /\ inbox[p] # <<>>
      /\ chan' = chan /\ inbox' = [inbox EXCEPT ![p] = Tail(inbox[p])]
  BY DEF ClientTake, LinkType, chanVars
<1>2. Tail(inbox[p]) \in Seq(Message) /\ Head(inbox[p]) \in Message
      /\ Len(Tail(inbox[p])) = Len(inbox[p]) - 1
  BY <1>1
<1>3. LinkType'
  BY <1>1, <1>2 DEF LinkType
<1>4. /\ inbox'[p] = Tail(inbox[p])
      /\ \A q \in Peers : q # p => inbox'[q] = inbox[q]
  BY <1>1 DEF LinkType
<1>5. /\ inbox[p] \o chan[p] # <<>>
      /\ Tail(inbox[p]) \o chan[p] = Tail(inbox[p] \o chan[p])
      /\ Head(inbox[p] \o chan[p]) = Head(inbox[p])
  BY <1>1, TailConcat
<1> QED
  BY <1>1, <1>2, <1>3, <1>4, <1>5 DEF Pending

-----------------------------------------------------------------------------
(* Types, and what is known of the tasks of a connection by itself. *)

StateType ==
  /\ rooms \subseteq Groups
  /\ info \in [Peers -> Infos \cup {None}]
  /\ requests \in [Groups -> 0..MaxRequests]
  /\ hours \in 0..MaxHours
  /\ pc \in [Peers -> {"new", "joining", "open", "exit", "ending",
                       "leaving", "gone"}]
  /\ todo \in [Peers -> SUBSET Peers]
  /\ rxOpen \in [Peers -> BOOLEAN]
  /\ rto \in [Peers -> SUBSET Peers]
  /\ hello \in [Peers -> BOOLEAN]
  /\ view \in [Peers -> [Peers -> Infos \cup {None}]]
  /\ seen \in [Peers -> [Peers -> Infos \cup {None}]]
  /\ rmsg \in [Peers -> Message]

LinkBound ==
  \A p \in Peers : Len(chan[p]) <= Capacity /\ Len(inbox[p]) <= ClientBuffer + 1

TaskInv ==
  \A p \in Peers :
    /\ pc[p] \in {"joining", "open", "exit", "ending"} =>
         info[p] \in Infos /\ Group[p] \in rooms
    /\ pc[p] \in {"new", "leaving", "gone"} => info[p] = None
    /\ pc[p] \in {"new", "joining", "open", "exit"} => rxOpen[p]
    /\ todo[p] # {} => pc[p] \in {"joining", "leaving"}
    /\ \A q \in todo[p] : Group[q] = Group[p] /\ pc[q] # "new"
    /\ pc[p] = "new" => chan[p] = <<>> /\ inbox[p] = <<>> /\ view[p] = Nobody

ForwardInv ==
  \A p \in Peers :
    /\ rto[p] # {} => pc[p] = "open"
    /\ \A q \in rto[p] : Group[q] = Group[p] /\ pc[q] # "new"
    /\ rto[p] # {} /\ rmsg[p].type = "Update" => rmsg[p] = Update(p, info[p])
    /\ rmsg[p].type \in {"Error", "Update", "Sdp"}
    /\ rto[p] # {} /\ rmsg[p] = Error => rto[p] = {p}

PeerInv == StateType /\ LinkType /\ LinkBound /\ TaskInv /\ ForwardInv

LEMMA InitPeer == Init => PeerInv
<1> SUFFICES ASSUME Init PROVE PeerInv
  OBVIOUS
<1> USE DEF Init
<1>1. StateType
  BY OtherMessages, ConstantsAssumption DEF StateType, Nobody
<1>2. LinkType /\ LinkBound
  <2>1. /\ chan = [p \in Peers |-> <<>>] /\ inbox = [p \in Peers |-> <<>>]
        /\ <<>> \in Seq(Message) /\ Len(<<>>) = 0
    OBVIOUS
  <2> QED
    BY <2>1, ConstantsAssumption DEF LinkType, LinkBound
<1>3. TaskInv /\ ForwardInv
  BY OtherMessages DEF TaskInv, ForwardInv
<1> QED
  BY <1>1, <1>2, <1>3 DEF PeerInv

\* Whom a handler or a receive task sends to, and what.
Sends(x, m) == SendTo(x, m) /\ inbox' = inbox

LEMMA SendKeepsLink ==
  ASSUME LinkType, LinkBound, NEW x \in Peers, NEW m \in Message, Sends(x, m)
  PROVE  LinkType' /\ LinkBound'
<1>1. \A p \in Peers : Len(chan[p]) \in Nat /\ Len(inbox[p]) \in Nat
  BY DEF LinkType
<1>2. LinkType' /\ \A p \in Peers : p # x => chan'[p] = chan[p]
  BY SendToPending DEF Sends
<1>3. Len(chan'[x]) <= Capacity
  <2>1. CASE rxOpen[x]
    BY <1>1, <2>1, SendToPending, ConstantsAssumption DEF Sends
  <2>2. CASE ~rxOpen[x]
    BY <2>2, SendToPending DEF Sends, LinkBound
  <2> QED
    BY <2>1, <2>2
<1> QED
  BY <1>2, <1>3 DEF LinkBound, Sends

\* What the five sending actions send.
LEMMA WhatIsSent ==
  ASSUME PeerInv, NEW p \in Peers, NEW q \in Peers
  PROVE  /\ SendJoin(p, q) => info[p] \in Infos /\ Join(p) \in Message /\ Sends(q, Join(p))
         /\ SendHello(p) => Hello(p) \in Message /\ Sends(p, Hello(p))
         /\ SendLeft(p, q) => Left(p) \in Message /\ Sends(q, Left(p))
         /\ RecvForward(p, q) => rmsg[p] \in Message /\ Sends(q, rmsg[p])
<1> USE DEF PeerInv
<1>1. SendJoin(p, q) => info[p] \in Infos /\ Sends(q, Join(p))
  BY DEF SendJoin, clientVars, Sends, TaskInv
<1>2. SendHello(p) => Sends(p, Hello(p)) /\ seen[p] \in [Peers -> Infos \cup {None}]
  BY DEF SendHello, clientVars, Sends, StateType
<1>3. SendLeft(p, q) => Sends(q, Left(p))
  BY DEF SendLeft, clientVars, Sends
<1>4. RecvForward(p, q) => rmsg[p] \in Message /\ Sends(q, rmsg[p])
  BY DEF RecvForward, clientVars, Sends, StateType
<1> QED
  BY <1>1, <1>2, <1>3, <1>4, JoinMessage, HelloMessage, LeftMessage

LEMMA NextLink == PeerInv /\ [Next]_vars => LinkType' /\ LinkBound'
<1> SUFFICES ASSUME PeerInv, [Next]_vars PROVE LinkType' /\ LinkBound'
  OBVIOUS
<1> USE DEF PeerInv
<1>n. \A p \in Peers : Len(chan[p]) \in Nat /\ Len(inbox[p]) \in Nat
  BY DEF LinkType
<1>1. CASE UNCHANGED <<chan, inbox>>
  BY <1>1 DEF LinkType, LinkBound
<1>2. ASSUME NEW p \in Peers, NEW q \in Peers,
             SendJoin(p, q) \/ SendHello(p) \/ SendLeft(p, q) \/ RecvForward(p, q)
      PROVE  LinkType' /\ LinkBound'
  BY <1>2, WhatIsSent, SendKeepsLink
<1>3. ASSUME NEW p \in Peers, Disconnect(p) PROVE LinkType' /\ LinkBound'
  <2>1. /\ chan' = [chan EXCEPT ![p] = <<>>] /\ inbox' = [inbox EXCEPT ![p] = <<>>]
        /\ <<>> \in Seq(Message) /\ Len(<<>>) = 0
    BY <1>3 DEF Disconnect
  <2>2. \A q \in Peers : /\ chan'[q] = IF q = p THEN <<>> ELSE chan[q]
                         /\ inbox'[q] = IF q = p THEN <<>> ELSE inbox[q]
    BY <2>1 DEF LinkType
  <2> QED
    BY <2>1, <2>2, ConstantsAssumption DEF LinkType, LinkBound
<1>4. ASSUME NEW p \in Peers, Deliver(p) PROVE LinkType' /\ LinkBound'
  <2>1. Len(inbox[p]) < ClientBuffer + 1
    BY <1>4 DEF Deliver
  <2>2. Len(chan'[p]) <= Capacity /\ Len(inbox'[p]) <= ClientBuffer + 1
    BY <1>4, <1>n, <2>1, DeliverPending, ConstantsAssumption DEF LinkBound
  <2> QED
    BY <1>4, <2>2, DeliverPending DEF LinkBound
<1>5. ASSUME NEW p \in Peers, ClientTake(p) PROVE LinkType' /\ LinkBound'
  <2>1. Len(inbox'[p]) <= ClientBuffer + 1
    BY <1>5, <1>n, TakePending, ConstantsAssumption DEF LinkBound
  <2> QED
    BY <1>5, <2>1, TakePending DEF LinkBound, ClientTake, chanVars
<1> QED
  BY <1>1, <1>2, <1>3, <1>4, <1>5
     DEF Next, HandlerStep, RecvStep, ClientStep, Connect, Teardown, RecvRefused,
         RecvUpdate, RecvSdp, ResetRequests, chanVars, clientVars, vars

LEMMA NextState == PeerInv /\ [Next]_vars => StateType'
<1> SUFFICES ASSUME PeerInv, [Next]_vars PROVE StateType'
  OBVIOUS
<1> USE DEF PeerInv
<1>0. StateType /\ MaxRequests \in Nat /\ MaxHours \in Nat /\ Group \in [Peers -> Groups]
  BY ConstantsAssumption
<1>c. ASSUME NEW g \in Groups, requests[g] < MaxRequests, CountRequest(g)
      PROVE  requests' \in [Groups -> 0..MaxRequests] /\ hours' = hours
  BY <1>0, <1>c DEF StateType, CountRequest
<1>t. \A g \in Groups : ~TooMany(g) => requests[g] < MaxRequests
  BY <1>0 DEF TooMany, StateType
<1>1. ASSUME NEW p \in Peers, NEW i \in Infos, Connect(p, i) PROVE StateType'
  <2>1. Others(p) \subseteq Peers /\ Listed(p) \in [Peers -> Infos \cup {None}]
    BY <1>0 DEF Others, Members, Listed, StateType
  <2>2. /\ rooms' \subseteq Groups
        /\ UNCHANGED <<rto, hello, view, rmsg>>
    BY <1>0, <1>1 DEF Connect, StateType, recvVars, clientVars
  <2>3. CASE Cardinality(Members(p)) >= MaxConnections \/ TooMany(Group[p])
    <3>1. /\ pc' = [pc EXCEPT ![p] = "gone"]
          /\ rxOpen' = [rxOpen EXCEPT ![p] = FALSE]
          /\ UNCHANGED <<info, requests, hours, todo, seen>>
      BY <1>1, <2>3 DEF Connect, limitVars
    <3> QED
      BY <1>0, <2>2, <3>1 DEF StateType
  <2>4. CASE ~(Cardinality(Members(p)) >= MaxConnections \/ TooMany(Group[p]))
    <3>1. /\ info' = [info EXCEPT ![p] = i] /\ todo' = [todo EXCEPT ![p] = Others(p)]
          /\ seen' = [seen EXCEPT ![p] = Listed(p)]
          /\ pc' = [pc EXCEPT ![p] = "joining"]
          /\ rxOpen' = rxOpen /\ CountRequest(Group[p])
      BY <1>1, <2>4 DEF Connect
    <3>2. requests' \in [Groups -> 0..MaxRequests] /\ hours' = hours
      BY <1>0, <1>c, <1>t, <2>4, <3>1
    <3> QED
      BY <1>0, <2>1, <2>2, <3>1, <3>2 DEF StateType
  <2> QED
    BY <2>3, <2>4
<1>2. ASSUME NEW p \in Peers, NEW q \in Peers, SendJoin(p, q) PROVE StateType'
  BY <1>0, <1>2 DEF SendJoin, SendTo, StateType, roomVars, limitVars, recvVars, clientVars
<1>11. ASSUME NEW p \in Peers, SendHello(p) PROVE StateType'
  BY <1>0, <1>11 DEF SendHello, SendTo, StateType, roomVars, limitVars, recvVars, clientVars
<1>12. ASSUME NEW p \in Peers, NEW q \in Peers, SendLeft(p, q) PROVE StateType'
  BY <1>0, <1>12 DEF SendLeft, SendTo, StateType, roomVars, limitVars, recvVars, clientVars
<1>13. ASSUME NEW p \in Peers, NEW q \in Peers, RecvForward(p, q) PROVE StateType'
  <2>1. /\ rmsg' = [rmsg EXCEPT ![p] = IF rto[p] = {q} THEN Error ELSE rmsg[p]]
        /\ pc' = [pc EXCEPT ![p] = IF rmsg[p] = Error THEN "exit" ELSE pc[p]]
        /\ rto' = [rto EXCEPT ![p] = rto[p] \ {q}]
        /\ UNCHANGED <<rooms, info, requests, hours, todo, seen, hello, view, rxOpen>>
    BY <1>13 DEF RecvForward, SendTo, roomVars, limitVars, clientVars
  <2>2. /\ rmsg' \in [Peers -> Message] /\ rto' \in [Peers -> SUBSET Peers]
        /\ pc' \in [Peers -> {"new", "joining", "open", "exit", "ending",
                              "leaving", "gone"}]
    BY <1>0, <2>1, OtherMessages DEF StateType
  <2> QED
    BY <1>0, <2>1, <2>2 DEF StateType
<1>3. ASSUME NEW p \in Peers, Disconnect(p) PROVE StateType'
  <2>1. Nobody \in [Peers -> Infos \cup {None}] /\ Error \in Message
    BY OtherMessages DEF Nobody
  <2> QED
    BY <1>0, <1>3, <2>1 DEF Disconnect, StateType, roomVars, limitVars
<1>14. ASSUME NEW p \in Peers, Teardown(p) PROVE StateType'
  <2>1. Others(p) \subseteq Peers
    BY DEF Others, Members
  <2> QED
    BY <1>0, <1>14, <2>1 DEF Teardown, StateType, limitVars, recvVars, clientVars, chanVars
<1>4. ASSUME NEW p \in Peers, RecvRefused(p) PROVE StateType'
  BY <1>0, <1>4, OtherMessages DEF RecvRefused, StateType, roomVars, limitVars,
     handlerVars, clientVars, chanVars
<1>5. ASSUME NEW p \in Peers, NEW i \in Infos, RecvUpdate(p, i) PROVE StateType'
  <2>1. requests' \in [Groups -> 0..MaxRequests] /\ hours' = hours
    BY <1>0, <1>5, <1>c, <1>t DEF RecvUpdate
  <2>2. Update(p, i) \in Message /\ Others(p) \subseteq Peers
    BY UpdateMessage DEF Others, Members
  <2> QED
    BY <1>0, <1>5, <2>1, <2>2 DEF RecvUpdate, StateType, handlerVars, clientVars, chanVars
<1>6. ASSUME NEW p \in Peers, NEW q \in Peers, RecvSdp(p, q) PROVE StateType'
  <2>1. requests' \in [Groups -> 0..MaxRequests] /\ hours' = hours
    BY <1>0, <1>6, <1>c, <1>t DEF RecvSdp
  <2>2. Sdp(p) \in Message /\ {q} \cap Members(p) \subseteq Peers
    BY OtherMessages
  <2> QED
    BY <1>0, <1>6, <2>1, <2>2 DEF RecvSdp, StateType, roomVars, handlerVars,
       clientVars, chanVars
<1>7. CASE ResetRequests
  BY <1>0, <1>7 DEF ResetRequests, StateType, roomVars, handlerVars, clientVars,
     chanVars, recvVars
<1>8. ASSUME NEW p \in Peers, Deliver(p) PROVE StateType'
  BY <1>0, <1>8 DEF Deliver, StateType, roomVars, limitVars, handlerVars, recvVars
<1>9. ASSUME NEW p \in Peers, ClientTake(p) PROVE StateType'
  <2>1. view' = [view EXCEPT ![p] = Shown(view[p], Head(inbox[p]))]
    BY <1>9 DEF ClientTake
  <2>2. Shown(view[p], Head(inbox[p])) \in [Peers -> Infos \cup {None}]
    BY <1>0, <1>9, TakePending, ShownValue DEF StateType
  <2> QED
    BY <1>0, <1>9, <2>1, <2>2 DEF ClientTake, StateType, roomVars, limitVars,
       handlerVars, recvVars, chanVars
<1>10. CASE UNCHANGED vars
  BY <1>0, <1>10 DEF vars, StateType
<1> QED
  BY <1>1, <1>2, <1>3, <1>4, <1>5, <1>6, <1>7, <1>8, <1>9, <1>10, <1>11, <1>12,
     <1>13, <1>14 DEF Next, HandlerStep, RecvStep, ClientStep

\* A task that forwards is not disturbed by steps that leave it alone.
LEMMA ForwardKept ==
  ASSUME StateType, ForwardInv, UNCHANGED <<rto, rmsg>>,
         \A p \in Peers : /\ rto[p] # {} => pc'[p] = pc[p] /\ info'[p] = info[p]
                          /\ pc[p] # "new" => pc'[p] # "new"
  PROVE  ForwardInv'
<1>1. \A p \in Peers : rto[p] \subseteq Peers
  BY DEF StateType
<1>2. \A p \in Peers : rto[p] # {} => Update(p, info[p])' = Update(p, info[p])
  BY DEF Update
<1> QED
  BY <1>1, <1>2 DEF ForwardInv

LEMMA NextTask == PeerInv /\ [Next]_vars => TaskInv' /\ ForwardInv'
<1> SUFFICES ASSUME PeerInv, [Next]_vars PROVE TaskInv' /\ ForwardInv'
  OBVIOUS
<1>0. StateType /\ LinkType /\ TaskInv /\ ForwardInv /\ None \notin Infos
  BY ConstantsAssumption DEF PeerInv
<1>o. \A p \in Peers : \A q \in Members(p) : /\ q \in Peers /\ Group[q] = Group[p]
                                             /\ pc[q] # "new" /\ info[q] # None
  BY <1>0 DEF Members, TaskInv
<1>c. \A x \in Peers : rto[x] # {} => pc[x] = "open"
  BY <1>0 DEF ForwardInv
<1>1. ASSUME NEW p \in Peers, NEW i \in Infos, Connect(p, i)
      PROVE  TaskInv' /\ ForwardInv'
  <2>1. /\ pc[p] = "new" /\ rooms' = rooms \cup {Group[p]}
        /\ UNCHANGED <<chan, rmsg, rto, inbox, hello, view>>
    BY <1>1 DEF Connect, recvVars, clientVars
  <2>2. CASE Cardinality(Members(p)) >= MaxConnections \/ TooMany(Group[p])
    <3>1. /\ pc' = [pc EXCEPT ![p] = "gone"]
          /\ rxOpen' = [rxOpen EXCEPT ![p] = FALSE]
          /\ UNCHANGED <<info, todo, seen>>
      BY <1>1, <2>2 DEF Connect
    <3>2. TaskInv'
      BY <1>0, <2>1, <3>1 DEF StateType, TaskInv
    <3>3. ForwardInv'
      BY <1>0, <1>c, <2>1, <3>1, ForwardKept DEF StateType
    <3> QED
      BY <3>2, <3>3
  <2>3. CASE ~(Cardinality(Members(p)) >= MaxConnections \/ TooMany(Group[p]))
    <3>1. /\ info' = [info EXCEPT ![p] = i] /\ todo' = [todo EXCEPT ![p] = Others(p)]
          /\ pc' = [pc EXCEPT ![p] = "joining"]
          /\ rxOpen' = rxOpen
      BY <1>1, <2>3 DEF Connect
    <3>2. TaskInv'
      BY <1>0, <1>o, <2>1, <3>1 DEF StateType, TaskInv, Others
    <3>3. ForwardInv'
      BY <1>0, <1>c, <2>1, <3>1, ForwardKept DEF StateType
    <3> QED
      BY <3>2, <3>3
  <2> QED
    BY <2>2, <2>3
<1>2. ASSUME NEW p \in Peers, NEW q \in Peers, SendJoin(p, q)
      PROVE  TaskInv' /\ ForwardInv'
  <2>1. chan' = IF rxOpen[q] THEN [chan EXCEPT ![q] = Append(@, Join(p))] ELSE chan
    BY <1>2 DEF SendJoin, SendTo
  <2>2. pc[q] # "new" /\ \A x \in Peers : x # q => chan'[x] = chan[x]
    BY <1>0, <1>2, <2>1 DEF SendJoin, TaskInv, LinkType
  <2>3. /\ todo' = [todo EXCEPT ![p] = todo[p] \ {q}] /\ pc[p] = "joining"
        /\ UNCHANGED <<rooms, info, pc, rxOpen, rmsg, rto, inbox, view>>
    BY <1>2 DEF SendJoin, SendTo, roomVars, recvVars, clientVars
  <2>4. \A x \in Peers : todo'[x] \subseteq todo[x]
    BY <1>0, <2>3 DEF StateType
  <2>5. TaskInv'
    BY <1>0, <2>2, <2>3, <2>4 DEF TaskInv
  <2> QED
    BY <1>0, <2>3, <2>5, ForwardKept
<1>3. ASSUME NEW p \in Peers, SendHello(p) PROVE TaskInv' /\ ForwardInv'
  <2>1. chan' = IF rxOpen[p] THEN [chan EXCEPT ![p] = Append(@, Hello(p))] ELSE chan
    BY <1>3 DEF SendHello, SendTo
  <2>2. \A x \in Peers : x # p => chan'[x] = chan[x]
    BY <2>1, <1>0 DEF LinkType
  <2>3. /\ pc' = [pc EXCEPT ![p] = "open"] /\ pc[p] = "joining" /\ todo[p] = {}
        /\ UNCHANGED <<rooms, info, todo, rxOpen, rmsg, rto, inbox, view>>
    BY <1>3 DEF SendHello, SendTo, roomVars, recvVars, clientVars
  <2>4. TaskInv'
    BY <1>0, <2>2, <2>3 DEF TaskInv, StateType
  <2> QED
    BY <1>0, <1>c, <2>3, <2>4, ForwardKept DEF StateType
<1>4. ASSUME NEW p \in Peers, NEW q \in Peers, SendLeft(p, q)
      PROVE  TaskInv' /\ ForwardInv'
  <2>1. chan' = IF rxOpen[q] THEN [chan EXCEPT ![q] = Append(@, Left(p))] ELSE chan
    BY <1>4 DEF SendLeft, SendTo
  <2>2. pc[q] # "new" /\ \A x \in Peers : x # q => chan'[x] = chan[x]
    BY <1>0, <1>4, <2>1 DEF SendLeft, TaskInv, LinkType
  <2>3. /\ todo' = [todo EXCEPT ![p] = todo[p] \ {q}] /\ pc[p] = "leaving"
        /\ pc' = [pc EXCEPT ![p] = IF todo[p] = {q} THEN "gone" ELSE pc[p]]
        /\ UNCHANGED <<rooms, info, rxOpen, rmsg, rto, inbox, view>>
    BY <1>4 DEF SendLeft, SendTo, roomVars, recvVars, clientVars
  <2>4. /\ todo[p] = {q} => todo'[p] = {}
        /\ \A x \in Peers : todo'[x] \subseteq todo[x]
        /\ \A x \in Peers \ {p} : pc'[x] = pc[x]
        /\ pc'[p] = IF todo[p] = {q} THEN "gone" ELSE "leaving"
    BY <1>0, <2>3 DEF StateType
  <2>5. TaskInv'
    BY <1>0, <2>2, <2>3, <2>4 DEF TaskInv
  <2> QED
    BY <1>0, <1>c, <2>3, <2>4, <2>5, ForwardKept
<1>5. ASSUME NEW p \in Peers, Disconnect(p) PROVE TaskInv' /\ ForwardInv'
  <2>1. /\ pc' = [pc EXCEPT ![p] = "ending"] /\ pc[p] \in {"open", "exit"}
        /\ rxOpen' = [rxOpen EXCEPT ![p] = FALSE]
        /\ chan' = [chan EXCEPT ![p] = <<>>] /\ inbox' = [inbox EXCEPT ![p] = <<>>]
        /\ rto' = [rto EXCEPT ![p] = {}] /\ rmsg' = [rmsg EXCEPT ![p] = Error]
        /\ view' = [view EXCEPT ![p] = Nobody]
        /\ UNCHANGED <<rooms, info, todo>>
    BY <1>5 DEF Disconnect, roomVars
  <2>2. TaskInv'
    BY <1>0, <2>1 DEF TaskInv, StateType, LinkType
  <2>3. ForwardInv'
    BY <1>0, <2>1, OtherMessages DEF ForwardInv, StateType, Update
  <2> QED
    BY <2>2, <2>3
<1>6. ASSUME NEW p \in Peers, Teardown(p) PROVE TaskInv' /\ ForwardInv'
  <2>1. /\ pc[p] = "ending" /\ info' = [info EXCEPT ![p] = None]
        /\ rooms' = IF Others(p) = {} THEN rooms \ {Group[p]} ELSE rooms
        /\ todo' = [todo EXCEPT ![p] = Others(p)]
        /\ pc' = [pc EXCEPT ![p] = IF Others(p) = {} THEN "gone" ELSE "leaving"]
        /\ UNCHANGED <<chan, rxOpen, rmsg, rto, inbox, view>>
    BY <1>6 DEF Teardown, chanVars, recvVars, clientVars
  <2>2. \A x \in Peers : x # p /\ pc[x] \in {"joining", "open", "exit", "ending"}
                         => Group[x] \in rooms'
    BY <1>0, <2>1 DEF TaskInv, Others, Members
  <2>3. \A q \in Others(p) : Group[q] = Group[p] /\ pc[q] # "new" /\ q # p
    BY <1>o DEF Others
  <2>4. TaskInv'
    BY <1>0, <2>1, <2>2, <2>3 DEF TaskInv, StateType
  <2> QED
    BY <1>0, <1>c, <2>1, <2>4, ForwardKept DEF StateType
<1>7. ASSUME NEW p \in Peers, RecvRefused(p) PROVE TaskInv' /\ ForwardInv'
  <2>1. /\ pc[p] = "open" /\ rmsg' = [rmsg EXCEPT ![p] = Error]
        /\ rto' = [rto EXCEPT ![p] = {p}]
        /\ UNCHANGED <<rooms, info, pc, todo, chan, rxOpen, inbox, view>>
    BY <1>7 DEF RecvRefused, Ready, roomVars, handlerVars, chanVars, clientVars
  <2>2. ForwardInv'
    BY <1>0, <2>1, OtherMessages DEF ForwardInv, StateType, Update
  <2> QED
    BY <1>0, <2>1, <2>2 DEF TaskInv
<1>8. ASSUME NEW p \in Peers, NEW i \in Infos, RecvUpdate(p, i)
      PROVE  TaskInv' /\ ForwardInv'
  <2>1. /\ pc[p] = "open" /\ info' = [info EXCEPT ![p] = i]
        /\ rto' = [rto EXCEPT ![p] = Others(p)]
        /\ UNCHANGED <<rooms, pc, todo, chan, rxOpen, inbox, view>>
    BY <1>8 DEF RecvUpdate, Ready, handlerVars, chanVars, clientVars
  <2>2. rmsg' = [rmsg EXCEPT ![p] = IF Others(p) # {} THEN Update(p, i) ELSE rmsg[p]]
    BY <1>8 DEF RecvUpdate
  <2>3. \A q \in Others(p) : Group[q] = Group[p] /\ pc[q] # "new"
    BY <1>o DEF Others
  <2>4. Update(p, i) # Error /\ Update(p, i).type = "Update"
    BY UpdateMessage, OtherMessages
  <2>5. /\ rto'[p] = Others(p) /\ info'[p] = i
        /\ rmsg'[p] = IF Others(p) # {} THEN Update(p, i) ELSE rmsg[p]
        /\ \A x \in Peers \ {p} : /\ rto'[x] = rto[x] /\ rmsg'[x] = rmsg[x]
                                  /\ info'[x] = info[x]
    BY <1>0, <2>1, <2>2 DEF StateType
  <2>6. ForwardInv'
    <3>1. \A x \in Peers \ {p} : Update(x, info[x])' = Update(x, info[x])
      BY <2>5 DEF Update
    <3>2. Update(p, info[p])' = Update(p, i)
      BY <2>5 DEF Update
    <3> QED
      BY <1>0, <2>1, <2>3, <2>4, <2>5, <3>1, <3>2 DEF ForwardInv
  <2>7. TaskInv'
    BY <1>0, <2>1, <2>5 DEF TaskInv
  <2> QED
    BY <2>6, <2>7
<1>9. ASSUME NEW p \in Peers, NEW q \in Peers, RecvSdp(p, q)
      PROVE  TaskInv' /\ ForwardInv'
  <2>1. /\ pc[p] = "open" /\ rto' = [rto EXCEPT ![p] = {q} \cap Members(p)]
        /\ rmsg' = [rmsg EXCEPT ![p] = IF q \in Members(p) THEN Sdp(p) ELSE rmsg[p]]
        /\ UNCHANGED <<rooms, info, pc, todo, chan, rxOpen, inbox, view>>
    BY <1>9 DEF RecvSdp, Ready, roomVars, handlerVars, chanVars, clientVars
  <2>2. Sdp(p) # Error /\ Sdp(p).type = "Sdp"
    BY OtherMessages
  <2>3. /\ rto'[p] = {q} \cap Members(p)
        /\ rmsg'[p] = IF q \in Members(p) THEN Sdp(p) ELSE rmsg[p]
        /\ \A x \in Peers \ {p} : rto'[x] = rto[x] /\ rmsg'[x] = rmsg[x]
    BY <1>0, <2>1 DEF StateType
  <2>4. ForwardInv'
    BY <1>0, <1>o, <2>1, <2>2, <2>3 DEF ForwardInv, Update
  <2>5. TaskInv'
    BY <1>0, <2>1 DEF TaskInv
  <2> QED
    BY <2>4, <2>5
<1>10. ASSUME NEW p \in Peers, NEW q \in Peers, RecvForward(p, q)
       PROVE  TaskInv' /\ ForwardInv'
  <2>1. chan' = IF rxOpen[q] THEN [chan EXCEPT ![q] = Append(@, rmsg[p])] ELSE chan
    BY <1>10 DEF RecvForward, SendTo
  <2>2. pc[q] # "new" /\ \A x \in Peers : x # q => chan'[x] = chan[x]
    BY <1>0, <1>10, <2>1 DEF RecvForward, ForwardInv, LinkType
  <2>3. /\ rto' = [rto EXCEPT ![p] = rto[p] \ {q}] /\ pc[p] = "open" /\ q \in rto[p]
        /\ rmsg' = [rmsg EXCEPT ![p] = IF rto[p] = {q} THEN Error ELSE rmsg[p]]
        /\ pc' = [pc EXCEPT ![p] = IF rmsg[p] = Error THEN "exit" ELSE pc[p]]
        /\ UNCHANGED <<rooms, info, todo, rxOpen, inbox, view>>
    BY <1>10 DEF RecvForward, SendTo, roomVars, clientVars
  <2>4. /\ rto[p] = {q} => rto'[p] = {}
        /\ rto'[p] = rto[p] \ {q}
        /\ \A x \in Peers \ {p} : rmsg'[x] = rmsg[x] /\ pc'[x] = pc[x] /\ rto'[x] = rto[x]
        /\ rmsg'[p] = IF rto[p] = {q} THEN Error ELSE rmsg[p]
        /\ pc'[p] = IF rmsg[p] = Error THEN "exit" ELSE "open"
    BY <1>0, <2>3 DEF StateType
  <2>5. rmsg[p] = Error => rto[p] = {q}
    BY <1>0, <2>3 DEF ForwardInv
  <2>6. /\ rto'[p] # {} => pc'[p] = "open" /\ rmsg'[p] = rmsg[p] /\ rmsg[p] # Error
        /\ rmsg'[p].type \in {"Error", "Update", "Sdp"}
    BY <1>0, <2>4, <2>5, OtherMessages DEF ForwardInv
  <2>7. ForwardInv'
    BY <1>0, <2>3, <2>4, <2>6 DEF ForwardInv, Update
  <2>8. TaskInv'
    BY <1>0, <2>2, <2>3, <2>4 DEF TaskInv
  <2> QED
    BY <2>7, <2>8
<1>11. ASSUME NEW p \in Peers, Deliver(p) PROVE TaskInv' /\ ForwardInv'
  <2>1. /\ pc[p] \in {"open", "exit"}
        /\ UNCHANGED <<rooms, info, pc, todo, rxOpen, rmsg, rto, view>>
        /\ \A q \in Peers : q # p => chan'[q] = chan[q] /\ inbox'[q] = inbox[q]
    BY <1>0, <1>11, DeliverPending DEF Deliver, roomVars, handlerVars, recvVars
  <2> QED
    BY <1>0, <2>1, ForwardKept DEF TaskInv
<1>12. ASSUME NEW p \in Peers, ClientTake(p) PROVE TaskInv' /\ ForwardInv'
  <2>1. /\ UNCHANGED <<rooms, info, pc, todo, chan, rxOpen, rmsg, rto>>
        /\ inbox[p] # <<>> /\ view' = [view EXCEPT ![p] = Shown(@, Head(inbox[p]))]
        /\ \A q \in Peers : q # p => inbox'[q] = inbox[q]
    BY <1>0, <1>12, TakePending DEF ClientTake, roomVars, handlerVars, recvVars, chanVars
  <2>2. pc[p] # "new" /\ \A q \in Peers \ {p} : view'[q] = view[q]
    BY <1>0, <2>1 DEF TaskInv, StateType
  <2> QED
    BY <1>0, <2>1, <2>2, ForwardKept DEF TaskInv
<1>13. CASE ResetRequests \/ UNCHANGED vars
  <2>1. UNCHANGED <<rooms, info, pc, todo, chan, rxOpen, rmsg, rto, inbox, view>>
    BY <1>13 DEF ResetRequests, vars, roomVars, handlerVars, chanVars, recvVars, clientVars
  <2> QED
    BY <1>0, <2>1, ForwardKept DEF TaskInv
<1> QED
  BY <1>1, <1>2, <1>3, <1>4, <1>5, <1>6, <1>7, <1>8, <1>9, <1>10, <1>11, <1>12,
     <1>13 DEF Next, HandlerStep, RecvStep, ClientStep

LEMMA NextPeer == PeerInv /\ [Next]_vars => PeerInv'
BY NextLink, NextState, NextTask DEF PeerInv

-----------------------------------------------------------------------------
(* What is on its way to a client, message by message. *)

Present(p) == pc[p] \in {"joining", "open", "exit"}

\* Something in queue s tells about peer q.
Tells(s, q) == \E i \in 1..Len(s) : About(s[i], q)

\* The last message in s about q says v, and w is v if there is none.
ToldIn(s, w, q, v) ==
  /\ \A i \in 1..Len(s) :
       About(s[i], q) /\ (\A j \in i + 1..Len(s) : ~About(s[j], q)) => Value(s[i], q) = v
  /\ ~Tells(s, q) => w = v

LEMMA Appended ==
  ASSUME NEW s \in Seq(Message), NEW m \in Message
  PROVE  /\ Append(s, m) \in Seq(Message) /\ Len(s) \in Nat
         /\ Len(Append(s, m)) = Len(s) + 1
         /\ Append(s, m)[Len(s) + 1] = m
         /\ \A i \in 1..Len(s) : Append(s, m)[i] = s[i]
OBVIOUS

LEMMA Tailed ==
  ASSUME NEW s \in Seq(Message), s # <<>>
  PROVE  /\ Tail(s) \in Seq(Message) /\ Len(s) \in Nat \ {0}
         /\ Len(Tail(s)) = Len(s) - 1
         /\ Head(s) = s[1]
         /\ \A i \in 1..Len(s) - 1 : Tail(s)[i] = s[i + 1]
BY HeadTailProperties

LEMMA TellsAppend ==
  ASSUME NEW s \in Seq(Message), NEW m \in Message, NEW q \in Peers
  PROVE  Tells(Append(s, m), q) <=> Tells(s, q) \/ About(m, q)
<1>1. ASSUME Tells(s, q) PROVE Tells(Append(s, m), q)
  <2>1. PICK i \in 1..Len(s) : About(s[i], q)
    BY <1>1 DEF Tells
  <2>2. i \in 1..Len(Append(s, m)) /\ Append(s, m)[i] = s[i]
    BY Appended
  <2> QED
    BY <2>1, <2>2 DEF Tells
<1>2. ASSUME About(m, q) PROVE Tells(Append(s, m), q)
  <2>1. Len(s) + 1 \in 1..Len(Append(s, m)) /\ Append(s, m)[Len(s) + 1] = m
    BY Appended
  <2> QED
    BY <1>2, <2>1 DEF Tells
<1>3. ASSUME Tells(Append(s, m), q) PROVE Tells(s, q) \/ About(m, q)
  <2>1. PICK i \in 1..Len(Append(s, m)) : About(Append(s, m)[i], q)
    BY <1>3 DEF Tells
  <2>2. i = Len(s) + 1 \/ i \in 1..Len(s)
    BY Appended
  <2> QED
    BY <2>1, <2>2, Appended DEF Tells
<1> QED
  BY <1>1, <1>2, <1>3

LEMMA TellsTail ==
  ASSUME NEW s \in Seq(Message), s # <<>>, NEW q \in Peers
  PROVE  Tells(s, q) <=> About(Head(s), q) \/ Tells(Tail(s), q)
<1>1. ASSUME About(Head(s), q) PROVE Tells(s, q)
  <2>1. 1 \in 1..Len(s) /\ Head(s) = s[1]
    BY Tailed
  <2> QED
    BY <1>1, <2>1 DEF Tells
<1>2. ASSUME Tells(Tail(s), q) PROVE Tells(s, q)
  <2>1. PICK i \in 1..Len(Tail(s)) : About(Tail(s)[i], q)
    BY <1>2 DEF Tells
  <2>2. i + 1 \in 1..Len(s) /\ Tail(s)[i] = s[i + 1]
    BY Tailed
  <2> QED
    BY <2>1, <2>2 DEF Tells
<1>3. ASSUME Tells(s, q), ~About(Head(s), q) PROVE Tells(Tail(s), q)
  <2>1. PICK i \in 1..Len(s) : About(s[i], q)
    BY <1>3 DEF Tells
  <2>2. i # 1
    BY <1>3, <2>1, Tailed
  <2>3. i - 1 \in 1..Len(Tail(s)) /\ (i - 1) + 1 = i
    BY <2>2, Tailed
  <2>4. Tail(s)[i - 1] = s[i]
    BY <2>3, Tailed
  <2> QED
    BY <2>1, <2>3, <2>4 DEF Tells
<1> QED
  BY <1>1, <1>2, <1>3

LEMMA ToldAppendAbout ==
  ASSUME NEW s \in Seq(Message), NEW m \in Message, NEW q \in Peers, NEW w, NEW v,
         About(m, q), Value(m, q) = v
  PROVE  ToldIn(Append(s, m), w, q, v)
<1>1. Tells(Append(s, m), q)
  BY TellsAppend
<1>2. ASSUME NEW i \in 1..Len(Append(s, m)),
             \A j \in i + 1..Len(Append(s, m)) : ~About(Append(s, m)[j], q)
      PROVE  Value(Append(s, m)[i], q) = v
  <2>1. i = Len(s) + 1 \/ (i \in 1..Len(s) /\ Len(s) + 1 \in i + 1..Len(Append(s, m)))
    BY Appended
  <2> QED
    BY <1>2, <2>1, Appended
<1> QED
  BY <1>1, <1>2 DEF ToldIn

LEMMA ToldAppendOther ==
  ASSUME NEW s \in Seq(Message), NEW m \in Message, NEW q \in Peers, NEW w, NEW v,
         ~About(m, q), ToldIn(s, w, q, v)
  PROVE  ToldIn(Append(s, m), w, q, v)
<1>1. Tells(Append(s, m), q) <=> Tells(s, q)
  BY TellsAppend
<1>2. ASSUME NEW i \in 1..Len(Append(s, m)), About(Append(s, m)[i], q),
             \A j \in i + 1..Len(Append(s, m)) : ~About(Append(s, m)[j], q)
      PROVE  Value(Append(s, m)[i], q) = v
  <2>1. i \in 1..Len(s) /\ Append(s, m)[i] = s[i]
    BY <1>2, Appended
  <2>2. ASSUME NEW j \in i + 1..Len(s) PROVE ~About(s[j], q)
    <3>1. j \in i + 1..Len(Append(s, m)) /\ Append(s, m)[j] = s[j]
      BY Appended
    <3> QED
      BY <1>2, <3>1
  <2> QED
    BY <1>2, <2>1, <2>2 DEF ToldIn
<1> QED
  BY <1>1, <1>2 DEF ToldIn

\* A message that is taken leaves the rest to be told.
LEMMA ToldTail ==
  ASSUME NEW s \in Seq(Message), s # <<>>, NEW q \in Peers, NEW w, NEW v,
         ToldIn(s, w, q, v)
  PROVE  ToldIn(Tail(s), IF About(Head(s), q) THEN Value(Head(s), q) ELSE w, q, v)
<1>1. ASSUME NEW i \in 1..Len(Tail(s)), About(Tail(s)[i], q),
             \A j \in i + 1..Len(Tail(s)) : ~About(Tail(s)[j], q)
      PROVE  Value(Tail(s)[i], q) = v
  <2>1. i + 1 \in 1..Len(s) /\ Tail(s)[i] = s[i + 1]
    BY Tailed
  <2>2. ASSUME NEW j \in (i + 1) + 1..Len(s) PROVE ~About(s[j], q)
    <3>1. j - 1 \in i + 1..Len(Tail(s)) /\ j - 1 \in 1..Len(s) - 1 /\ (j - 1) + 1 = j
      BY Tailed
    <3>2. Tail(s)[j - 1] = s[j]
      BY <3>1, Tailed
    <3> QED
      BY <1>1, <3>1, <3>2
  <2> QED
    BY <1>1, <2>1, <2>2 DEF ToldIn
<1>2. ASSUME ~Tells(Tail(s), q), About(Head(s), q) PROVE Value(Head(s), q) = v
  <2>1. 1 \in 1..Len(s) /\ Head(s) = s[1]
    BY Tailed
  <2>2. ASSUME NEW j \in 1 + 1..Len(s) PROVE ~About(s[j], q)
    <3>1. j - 1 \in 1..Len(Tail(s)) /\ (j - 1) + 1 = j
      BY Tailed
    <3>2. Tail(s)[j - 1] = s[j]
      BY <3>1, Tailed
    <3> QED
      BY <1>2, <3>1, <3>2 DEF Tells
  <2> QED
    BY <1>2, <2>1, <2>2 DEF ToldIn
<1>3. ASSUME ~Tells(Tail(s), q), ~About(Head(s), q) PROVE w = v
  BY <1>3, TellsTail DEF ToldIn
<1> QED
  BY <1>1, <1>2, <1>3 DEF ToldIn

-----------------------------------------------------------------------------
(* What every member is told of the others. *)

SizeInv ==
  \A p \in Peers : IsFiniteSet(Members(p)) /\ Cardinality(Members(p)) <= MaxConnections

LeftInv ==
  \A p \in Peers : \A i \in 1..Len(Pending(p)) :
    Pending(p)[i].type = "Left" => pc[Pending(p)[i].peer] \in {"leaving", "gone"}

KnownInv ==
  \A p \in Peers : \A q \in Others(p) : Present(p) =>
    \/ view[p][q] # None
    \/ Tells(Pending(p), q)
    \/ p \in todo[q]
    \/ pc[p] = "joining" /\ seen[p][q] # None

\* What is there to be shown of q, and when p has been sent all of it.
Said(p, q) == IF q \in Others(p) THEN info[q] ELSE None
Settled(p, q) ==
  /\ Present(p)
  /\ seen[p][q] = None
  /\ p \notin todo[q]
  /\ ~(p \in rto[q] /\ rmsg[q].type = "Update")
  /\ pc[q] # "ending" \/ Group[q] # Group[p]

ToldInv ==
  \A p \in Peers : \A q \in Peers \ {p} :
    Settled(p, q) => ToldIn(Pending(p), view[p][q], q, Said(p, q))

\* Members come at Connect and leave at Teardown.
LEMMA NextSize == PeerInv /\ SizeInv /\ [Next]_vars => SizeInv'
<1> SUFFICES ASSUME PeerInv, SizeInv, [Next]_vars PROVE SizeInv'
  OBVIOUS
<1>0. StateType /\ TaskInv /\ None \notin Infos
  BY ConstantsAssumption DEF PeerInv
<1>1. ASSUME \A p \in Peers : Members(p)' \subseteq Members(p) PROVE SizeInv'
  <2> SUFFICES ASSUME NEW p \in Peers
               PROVE  IsFiniteSet(Members(p)') /\ Cardinality(Members(p)') <= MaxConnections
    BY DEF SizeInv
  <2>1. IsFiniteSet(Members(p)) /\ Cardinality(Members(p)) <= MaxConnections
    BY DEF SizeInv
  <2>2. /\ IsFiniteSet(Members(p)') /\ Cardinality(Members(p)') <= Cardinality(Members(p))
        /\ Cardinality(Members(p)) \in Nat /\ Cardinality(Members(p)') \in Nat
    BY <1>1, <2>1, FS_Subset, FS_CardinalityType
  <2> QED
    BY <2>1, <2>2, ConstantsAssumption
<1>2. CASE UNCHANGED info
  BY <1>1, <1>2 DEF Members
<1>3. ASSUME NEW p \in Peers, NEW i \in Infos, Connect(p, i) PROVE SizeInv'
  <2>1. CASE UNCHANGED info
    BY <1>2, <2>1
  <2>2. CASE ~UNCHANGED info
    <3>1. /\ ~(Cardinality(Members(p)) >= MaxConnections)
          /\ info' = [info EXCEPT ![p] = i]
      BY <1>3, <2>2 DEF Connect
    <3> SUFFICES ASSUME NEW x \in Peers
                 PROVE  IsFiniteSet(Members(x)') /\ Cardinality(Members(x)') <= MaxConnections
      BY DEF SizeInv
    <3>2. IsFiniteSet(Members(x)) /\ Cardinality(Members(x)) <= MaxConnections
      BY DEF SizeInv
    <3>3. CASE Group[x] # Group[p]
      <4>1. Members(x)' = Members(x)
        BY <1>0, <3>1, <3>3 DEF Members, StateType
      <4> QED
        BY <3>2, <4>1
    <3>4. CASE Group[x] = Group[p]
      <4>1. Members(x)' = Members(x) \cup {p} /\ Members(x) = Members(p)
        BY <1>0, <3>1, <3>4 DEF Members, StateType
      <4>2. /\ IsFiniteSet(Members(x) \cup {p}) /\ Cardinality(Members(x)) \in Nat
            /\ Cardinality(Members(x) \cup {p}) =
                 IF p \in Members(x) THEN Cardinality(Members(x)) ELSE Cardinality(Members(x)) + 1
        BY <3>2, FS_AddElement, FS_CardinalityType
      <4> QED
        BY <3>1, <3>2, <4>1, <4>2, ConstantsAssumption
    <3> QED
      BY <3>3, <3>4
  <2> QED
    BY <2>1, <2>2
<1>4. ASSUME NEW p \in Peers, Teardown(p) PROVE SizeInv'
  <2>1. \A x \in Peers : info'[x] # None => info[x] # None
    BY <1>0, <1>4 DEF Teardown, StateType
  <2> QED
    BY <1>1, <2>1 DEF Members
<1>5. ASSUME NEW p \in Peers, NEW i \in Infos, RecvUpdate(p, i) PROVE SizeInv'
  <2>1. info[p] # None
    BY <1>0, <1>5 DEF RecvUpdate, Ready, TaskInv
  <2>2. \A x \in Peers : info'[x] # None => info[x] # None
    BY <1>0, <1>5, <2>1 DEF RecvUpdate, StateType
  <2> QED
    BY <1>1, <2>2 DEF Members
<1> QED
  BY <1>2, <1>3, <1>4, <1>5
     DEF Next, HandlerStep, RecvStep, ClientStep, SendJoin, SendHello, SendLeft,
         Disconnect, RecvRefused, RecvSdp, RecvForward, Deliver, ClientTake,
         ResetRequests, roomVars, vars

\* What a step may do to the messages on their way to a client.
LEMMA NextQueue ==
  ASSUME PeerInv, [Next]_vars, NEW x \in Peers
  PROVE  \/ Pending(x)' = Pending(x) \/ Pending(x)' = <<>>
         \/ Pending(x) # <<>> /\ Pending(x)' = Tail(Pending(x))
         \/ \E m \in Message : /\ Pending(x)' = Append(Pending(x), m)
                               /\ m.type = "Left" => pc'[m.peer] \in {"leaving", "gone"}
<1>0. StateType /\ LinkType /\ TaskInv /\ ForwardInv
  BY DEF PeerInv
<1> DEFINE Moves == \/ Pending(x)' = Pending(x) \/ Pending(x)' = <<>>
                    \/ Pending(x) # <<>> /\ Pending(x)' = Tail(Pending(x))
                    \/ \E m \in Message :
                         /\ Pending(x)' = Append(Pending(x), m)
                         /\ m.type = "Left" => pc'[m.peer] \in {"leaving", "gone"}
<1>1. ASSUME NEW y \in Peers, NEW m \in Message, Sends(y, m),
             m.type = "Left" => pc'[m.peer] \in {"leaving", "gone"}
      PROVE  Moves
  BY <1>0, <1>1, SendToPending DEF Sends
<1>2. ASSUME NEW p \in Peers, NEW q \in Peers, SendJoin(p, q) PROVE Moves
  <2>1. Join(p) \in Message /\ Join(p).type # "Left" /\ Sends(q, Join(p))
    BY <1>2, WhatIsSent, JoinMessage
  <2> QED
    BY <1>1, <2>1
<1>3. ASSUME NEW p \in Peers, SendHello(p) PROVE Moves
  <2>1. Hello(p) \in Message /\ Hello(p).type # "Left" /\ Sends(p, Hello(p))
    BY <1>0, <1>3, WhatIsSent, HelloMessage DEF StateType
  <2> QED
    BY <1>1, <2>1
<1>4. ASSUME NEW p \in Peers, NEW q \in Peers, SendLeft(p, q) PROVE Moves
  <2>1. Left(p) \in Message /\ Left(p).peer = p /\ Sends(q, Left(p))
    BY <1>4, WhatIsSent, LeftMessage
  <2>2. pc'[p] \in {"leaving", "gone"}
    BY <1>0, <1>4 DEF SendLeft, StateType
  <2> QED
    BY <1>1, <2>1, <2>2
<1>5. ASSUME NEW p \in Peers, NEW q \in Peers, RecvForward(p, q) PROVE Moves
  <2>1. rmsg[p] \in Message /\ Sends(q, rmsg[p])
    BY <1>5, WhatIsSent
  <2>2. rmsg[p].type # "Left"
    BY <1>0 DEF ForwardInv
  <2> QED
    BY <1>1, <2>1, <2>2
<1>6. ASSUME NEW p \in Peers, Disconnect(p) PROVE Moves
  <2>1. /\ chan' = [chan EXCEPT ![p] = <<>>] /\ inbox' = [inbox EXCEPT ![p] = <<>>]
    BY <1>6 DEF Disconnect
  <2>2. CASE x = p
    <3>1. chan'[x] = <<>> /\ inbox'[x] = <<>>
      BY <1>0, <2>1, <2>2 DEF LinkType
    <3>2. <<>> \o <<>> = <<>>
      OBVIOUS
    <3> QED
      BY <3>1, <3>2 DEF Pending
  <2>3. CASE x # p
    BY <1>0, <2>1, <2>3 DEF Pending, LinkType
  <2> QED
    BY <2>2, <2>3
<1>7. ASSUME NEW p \in Peers, Deliver(p) PROVE Moves
  BY <1>0, <1>7, DeliverPending
<1>8. ASSUME NEW p \in Peers, ClientTake(p) PROVE Moves
  BY <1>0, <1>8, TakePending
<1>9. CASE UNCHANGED <<chan, inbox>>
  BY <1>9 DEF Pending
<1> QED
  BY <1>2, <1>3, <1>4, <1>5, <1>6, <1>7, <1>8, <1>9
     DEF Next, HandlerStep, RecvStep, ClientStep, Connect, Teardown, RecvRefused,
         RecvUpdate, RecvSdp, ResetRequests, chanVars, clientVars, vars

\* Nobody comes back.
LEMMA GoneStays ==
  ASSUME PeerInv, [Next]_vars, NEW q \in Peers, pc[q] \in {"leaving", "gone"}
  PROVE  pc'[q] \in {"leaving", "gone"}
<1>0. StateType
  BY DEF PeerInv
<1>1. CASE UNCHANGED pc
  BY <1>1
<1>2. ASSUME NEW p \in Peers, NEW i \in Infos, Connect(p, i)
      PROVE  pc'[q] \in {"leaving", "gone"}
  BY <1>0, <1>2 DEF Connect, StateType
<1>3. ASSUME NEW p \in Peers, SendHello(p) \/ Disconnect(p) \/ Teardown(p)
      PROVE  pc'[q] \in {"leaving", "gone"}
  BY <1>0, <1>3 DEF SendHello, Disconnect, Teardown, StateType
<1>4. ASSUME NEW p \in Peers, NEW r \in Peers, SendLeft(p, r) \/ RecvForward(p, r)
      PROVE  pc'[q] \in {"leaving", "gone"}
  BY <1>0, <1>4 DEF SendLeft, RecvForward, StateType
<1> QED
  BY <1>1, <1>2, <1>3, <1>4
     DEF Next, HandlerStep, RecvStep, ClientStep, SendJoin, RecvRefused, RecvUpdate,
         RecvSdp, Deliver, ClientTake, ResetRequests, handlerVars, vars

\* Left is said of nobody who is still there.
LEMMA NextLeft == PeerInv /\ LeftInv /\ [Next]_vars => LeftInv'
<1> SUFFICES ASSUME PeerInv, LeftInv, [Next]_vars PROVE LeftInv'
  OBVIOUS
<1>0. LinkType
  BY DEF PeerInv
<1>1. ASSUME NEW m \in Message, m.type = "Left", pc[m.peer] \in {"leaving", "gone"}
      PROVE  pc'[m.peer] \in {"leaving", "gone"}
  <2>1. m.peer \in Peers
    BY <1>1 DEF Message, Error
  <2> QED
    BY <1>1, <2>1, GoneStays
<1> SUFFICES ASSUME NEW x \in Peers, NEW i \in 1..Len(Pending(x)'),
                    Pending(x)'[i].type = "Left"
             PROVE  pc'[Pending(x)'[i].peer] \in {"leaving", "gone"}
  BY DEF LeftInv
<1>2. Pending(x) \in Seq(Message)
  BY <1>0, PendingType
<1>3. \A j \in 1..Len(Pending(x)) :
        /\ Pending(x)[j] \in Message
        /\ Pending(x)[j].type = "Left" => pc'[Pending(x)[j].peer] \in {"leaving", "gone"}
  BY <1>1, <1>2 DEF LeftInv
<1>4. CASE Pending(x)' = Pending(x)
  BY <1>3, <1>4
<1>5. CASE Pending(x)' = <<>>
  BY <1>5
<1>6. CASE Pending(x) # <<>> /\ Pending(x)' = Tail(Pending(x))
  <2>1. i + 1 \in 1..Len(Pending(x)) /\ Pending(x)'[i] = Pending(x)[i + 1]
    BY <1>2, <1>6, Tailed
  <2> QED
    BY <1>3, <2>1
<1>7. ASSUME NEW m \in Message, Pending(x)' = Append(Pending(x), m),
             m.type = "Left" => pc'[m.peer] \in {"leaving", "gone"}
      PROVE  pc'[Pending(x)'[i].peer] \in {"leaving", "gone"}
  <2>1. i = Len(Pending(x)) + 1 \/ i \in 1..Len(Pending(x))
    BY <1>2, <1>7, Appended
  <2> QED
    BY <1>2, <1>3, <1>7, <2>1, Appended
<1> QED
  BY <1>4, <1>5, <1>6, <1>7, NextQueue

\* What a step does to the channel of a member that it does not send to.
LEMMA QueueOf ==
  ASSUME PeerInv, NEW y \in Peers, NEW m \in Message, Sends(y, m), NEW p \in Peers
  PROVE  /\ p # y => Pending(p)' = Pending(p)
         /\ p = y /\ Present(p) => Pending(p)' = Append(Pending(p), m)
         /\ Pending(p) \in Seq(Message)
         /\ \A q \in Peers : Tells(Pending(p), q) => Tells(Pending(p)', q)
<1>1. LinkType /\ (Present(p) => rxOpen[p])
  BY DEF PeerInv, TaskInv, Present
<1>2. Pending(p) \in Seq(Message)
  BY <1>1, PendingType
<1>3. /\ p # y => Pending(p)' = Pending(p)
      /\ p = y /\ rxOpen[p] => Pending(p)' = Append(Pending(p), m)
      /\ p = y /\ ~rxOpen[p] => Pending(p)' = Pending(p)
  BY <1>1, SendToPending DEF Sends
<1>4. ASSUME NEW q \in Peers, Tells(Pending(p), q) PROVE Tells(Pending(p)', q)
  <2>1. CASE Pending(p)' = Pending(p)
    BY <1>4, <2>1
  <2>2. CASE Pending(p)' = Append(Pending(p), m)
    <3>1. Tells(Append(Pending(p), m), q)
      BY <1>2, <1>4, TellsAppend
    <3> QED
      BY <2>2, <3>1
  <2> QED
    BY <1>3, <2>1, <2>2
<1> QED
  BY <1>1, <1>2, <1>3, <1>4

\* A member that another one must hear of is not lost on the way.
LEMMA NextKnown == PeerInv /\ LeftInv /\ KnownInv /\ [Next]_vars => KnownInv'
<1> SUFFICES ASSUME PeerInv, LeftInv, KnownInv, [Next]_vars,
                    NEW p \in Peers, NEW q \in Peers, q \in Others(p)', Present(p)'
             PROVE  \/ view'[p][q] # None
                    \/ Tells(Pending(p)', q)
                    \/ p \in todo'[q]
                    \/ pc'[p] = "joining" /\ seen'[p][q] # None
  BY DEF KnownInv, Others, Members
<1> DEFINE Known == \/ view'[p][q] # None
                    \/ Tells(Pending(p)', q)
                    \/ p \in todo'[q]
                    \/ pc'[p] = "joining" /\ seen'[p][q] # None
<1>0. /\ StateType /\ LinkType /\ TaskInv /\ None \notin Infos
      /\ q # p /\ Group[q] = Group[p] /\ info'[q] # None
  BY ConstantsAssumption DEF PeerInv, Others, Members
<1>k. ASSUME Present(p), info[q] # None
      PROVE  \/ view[p][q] # None
             \/ Tells(Pending(p), q)
             \/ p \in todo[q]
             \/ pc[p] = "joining" /\ seen[p][q] # None
  BY <1>0, <1>k DEF KnownInv, Others, Members
<1>1. ASSUME NEW x \in Peers, NEW i \in Infos, Connect(x, i) PROVE Known
  <2>1. /\ pc[x] = "new" /\ view' = view /\ Pending(p)' = Pending(p)
    BY <1>1 DEF Connect, clientVars, Pending
  <2>2. CASE Cardinality(Members(x)) >= MaxConnections \/ TooMany(Group[x])
    <3>1. pc' = [pc EXCEPT ![x] = "gone"] /\ UNCHANGED <<info, todo, seen>>
      BY <1>1, <2>2 DEF Connect
    <3>2. p # x /\ pc'[p] = pc[p]
      BY <1>0, <3>1 DEF StateType, Present
    <3> QED
      BY <1>0, <1>k, <2>1, <3>1, <3>2 DEF Present
  <2>3. CASE ~(Cardinality(Members(x)) >= MaxConnections \/ TooMany(Group[x]))
    <3>1. /\ info' = [info EXCEPT ![x] = i] /\ todo' = [todo EXCEPT ![x] = Others(x)]
          /\ seen' = [seen EXCEPT ![x] = Listed(x)]
          /\ pc' = [pc EXCEPT ![x] = "joining"]
      BY <1>1, <2>3 DEF Connect
    <3>2. CASE p = x
      <4>1. info[q] # None /\ q \in Members(x)
        BY <1>0, <3>1, <3>2 DEF StateType, Members
      <4>2. seen'[p][q] = info[q] /\ pc'[p] = "joining"
        BY <1>0, <3>1, <3>2, <4>1 DEF StateType, Listed
      <4> QED
        BY <4>1, <4>2
    <3>3. CASE q = x
      <4>1. pc[p] = pc'[p] /\ todo'[q] = Others(q)
        BY <1>0, <3>1, <3>3 DEF StateType
      <4>2. p \in Others(q)
        BY <1>0, <4>1 DEF Present, TaskInv, Others, Members
      <4> QED
        BY <4>1, <4>2
    <3>4. CASE p # x /\ q # x
      <4>1. /\ pc'[p] = pc[p] /\ info'[q] = info[q] /\ todo'[q] = todo[q]
            /\ seen'[p] = seen[p]
        BY <1>0, <3>1, <3>4 DEF StateType
      <4> QED
        BY <1>0, <1>k, <2>1, <4>1 DEF Present
    <3> QED
      BY <3>2, <3>3, <3>4
  <2> QED
    BY <2>2, <2>3
<1>2. ASSUME NEW x \in Peers, NEW y \in Peers, SendJoin(x, y) PROVE Known
  <2>1. /\ UNCHANGED <<info, pc, seen, view>>
        /\ todo' = [todo EXCEPT ![x] = todo[x] \ {y}]
    BY <1>2 DEF SendJoin, roomVars, clientVars
  <2>2. /\ Join(x) \in Message /\ About(Join(x), x) /\ Sends(y, Join(x))
        /\ Pending(p) \in Seq(Message)
    BY <1>0, <1>2, WhatIsSent, JoinMessage, PendingType
  <2>3. Present(p) /\ (Tells(Pending(p), q) => Tells(Pending(p)', q))
    BY <2>1, <2>2, QueueOf DEF Present
  <2>4. CASE p \in todo[q] /\ p \notin todo'[q]
    <3>1. q = x /\ p = y
      BY <1>0, <2>1, <2>4 DEF StateType
    <3>2. Pending(p)' = Append(Pending(p), Join(q))
      BY <2>2, <2>3, <3>1, QueueOf
    <3> QED
      BY <2>2, <3>1, <3>2, TellsAppend
  <2> QED
    BY <1>0, <1>k, <2>1, <2>3, <2>4
<1>3. ASSUME NEW x \in Peers, SendHello(x) PROVE Known
  <2>1. UNCHANGED <<info, todo, seen, view>> /\ pc' = [pc EXCEPT ![x] = "open"]
        /\ pc[x] = "joining"
    BY <1>3 DEF SendHello, roomVars, clientVars
  <2>2. /\ Hello(x) \in Message /\ Sends(x, Hello(x)) /\ Pending(p) \in Seq(Message)
        /\ About(Hello(x), q) <=> seen[x][q] # None
    BY <1>0, <1>3, WhatIsSent, HelloMessage, PendingType DEF StateType
  <2>3. /\ Present(p) /\ Tells(Pending(p), q) => Tells(Pending(p)', q)
        /\ Present(p) /\ (pc'[p] = pc[p] \/ p = x)
    BY <1>0, <2>1, <2>2, QueueOf DEF Present, StateType
  <2>4. CASE p = x /\ seen[p][q] # None
    <3>1. Pending(p)' = Append(Pending(p), Hello(x)) /\ About(Hello(x), q)
      BY <2>2, <2>3, <2>4, QueueOf
    <3> QED
      BY <2>2, <3>1, TellsAppend
  <2>5. CASE ~(p = x /\ seen[p][q] # None)
    BY <1>0, <1>k, <2>1, <2>3, <2>5
  <2> QED
    BY <2>4, <2>5
<1>4. ASSUME NEW x \in Peers, Disconnect(x) PROVE Known
  <2>1. /\ UNCHANGED <<info, todo>> /\ pc' = [pc EXCEPT ![x] = "ending"]
        /\ seen' = [seen EXCEPT ![x] = Nobody] /\ view' = [view EXCEPT ![x] = Nobody]
        /\ chan' = [chan EXCEPT ![x] = <<>>] /\ inbox' = [inbox EXCEPT ![x] = <<>>]
    BY <1>4 DEF Disconnect, roomVars
  <2>2. p # x
    BY <1>0, <2>1 DEF Present, StateType
  <2>3. /\ pc'[p] = pc[p] /\ seen'[p] = seen[p] /\ view'[p] = view[p]
        /\ Pending(p)' = Pending(p)
    BY <1>0, <2>1, <2>2 DEF StateType, LinkType, Pending
  <2> QED
    BY <1>0, <1>k, <2>1, <2>3 DEF Present
<1>5. ASSUME NEW x \in Peers, Teardown(x) PROVE Known
  <2>1. /\ info' = [info EXCEPT ![x] = None] /\ todo' = [todo EXCEPT ![x] = Others(x)]
        /\ pc' = [pc EXCEPT ![x] = IF Others(x) = {} THEN "gone" ELSE "leaving"]
        /\ UNCHANGED <<seen, chan, inbox, view>>
    BY <1>5 DEF Teardown, chanVars, clientVars
  <2>2. p # x /\ q # x
    BY <1>0, <2>1 DEF Present, StateType
  <2>3. /\ pc'[p] = pc[p] /\ info'[q] = info[q] /\ todo'[q] = todo[q]
        /\ Pending(p)' = Pending(p)
    BY <1>0, <2>1, <2>2 DEF StateType, Pending
  <2> QED
    BY <1>0, <1>k, <2>1, <2>3 DEF Present
<1>6. ASSUME NEW x \in Peers, NEW y \in Peers, SendLeft(x, y) PROVE Known
  <2>1. /\ pc[x] = "leaving" /\ UNCHANGED <<info, seen, view>>
        /\ todo' = [todo EXCEPT ![x] = todo[x] \ {y}]
        /\ pc' = [pc EXCEPT ![x] = IF todo[x] = {y} THEN "gone" ELSE pc[x]]
    BY <1>6 DEF SendLeft, roomVars, clientVars
  <2>2. Left(x) \in Message /\ Sends(y, Left(x))
    BY <1>6, WhatIsSent
  <2>3. p # x /\ q # x
    BY <1>0, <2>1 DEF Present, StateType, TaskInv
  <2>4. /\ pc'[p] = pc[p] /\ todo'[q] = todo[q]
        /\ Tells(Pending(p), q) => Tells(Pending(p)', q)
    BY <1>0, <2>1, <2>2, <2>3, QueueOf DEF StateType
  <2> QED
    BY <1>0, <1>k, <2>1, <2>4 DEF Present
<1>7. ASSUME NEW x \in Peers, NEW y \in Peers, RecvForward(x, y) PROVE Known
  <2>1. /\ pc[x] = "open" /\ UNCHANGED <<info, seen, todo, view>>
        /\ pc' = [pc EXCEPT ![x] = IF rmsg[x] = Error THEN "exit" ELSE pc[x]]
    BY <1>7 DEF RecvForward, roomVars, clientVars
  <2>2. rmsg[x] \in Message /\ Sends(y, rmsg[x])
    BY <1>7, WhatIsSent
  <2>3. /\ Present(p) /\ (pc[p] = "joining" => pc'[p] = "joining")
        /\ Tells(Pending(p), q) => Tells(Pending(p)', q)
    BY <1>0, <2>1, <2>2, QueueOf DEF StateType, Present
  <2> QED
    BY <1>0, <1>k, <2>1, <2>3
<1>8. ASSUME NEW x \in Peers, NEW i \in Infos, RecvUpdate(x, i) PROVE Known
  <2>1. /\ UNCHANGED <<pc, todo, seen, chan, inbox, view>> /\ pc[x] = "open"
        /\ info' = [info EXCEPT ![x] = i]
    BY <1>8 DEF RecvUpdate, Ready, handlerVars, chanVars, clientVars
  <2>2. info[q] # None
    BY <1>0, <2>1 DEF StateType, TaskInv
  <2> QED
    BY <1>0, <1>k, <2>1, <2>2 DEF Present, Pending
<1>9. ASSUME NEW x \in Peers, Deliver(x) PROVE Known
  <2>1. UNCHANGED <<info, pc, todo, seen, view>> /\ Pending(p)' = Pending(p)
    BY <1>0, <1>9, DeliverPending DEF Deliver, roomVars, handlerVars
  <2> QED
    BY <1>0, <1>k, <2>1 DEF Present
<1>10. ASSUME NEW x \in Peers, ClientTake(x) PROVE Known
  <2>1. /\ UNCHANGED <<info, pc, todo, seen>>
        /\ view' = [view EXCEPT ![x] = Shown(view[x], Head(inbox[x]))]
    BY <1>10 DEF ClientTake, roomVars, handlerVars
  <2>2. CASE p # x
    <3>1. Pending(p)' = Pending(p) /\ view'[p] = view[p]
      BY <1>0, <1>10, <2>1, <2>2, TakePending DEF StateType
    <3> QED
      BY <1>0, <1>k, <2>1, <3>1 DEF Present
  <2>3. CASE p = x
    <3> DEFINE m == Head(Pending(p))
    <3>1. /\ Pending(p) \in Seq(Message) /\ Pending(p) # <<>>
          /\ Pending(p)' = Tail(Pending(p)) /\ m \in Message
          /\ view'[p] = Shown(view[p], m)
      BY <1>0, <1>10, <2>1, <2>3, TakePending, PendingType DEF StateType
    <3>2. view'[p][q] = IF About(m, q) THEN Value(m, q) ELSE view[p][q]
      BY <1>0, <3>1, ShownValue DEF StateType
    <3>3. CASE About(m, q)
      <4>1. 1 \in 1..Len(Pending(p)) /\ m = Pending(p)[1]
        BY <3>1, Tailed
      <4>2. m.type = "Left" => m.peer = q
        BY <3>3 DEF About
      <4>3. info[q] # None => pc[q] \notin {"leaving", "gone"}
        BY <1>0 DEF TaskInv
      <4>4. m.type # "Left"
        BY <1>0, <2>1, <4>1, <4>2, <4>3 DEF LeftInv
      <4> QED
        BY <3>1, <3>2, <3>3, <4>4, ValueType
    <3>4. CASE ~About(m, q)
      <4>1. Tells(Pending(p), q) => Tells(Pending(p)', q)
        BY <3>1, <3>4, TellsTail
      <4> QED
        BY <1>0, <1>k, <2>1, <3>2, <3>4, <4>1 DEF Present
    <3> QED
      BY <3>3, <3>4
  <2> QED
    BY <2>2, <2>3
<1>11. CASE UNCHANGED <<info, pc, todo, seen, chan, inbox, view>>
  BY <1>0, <1>k, <1>11 DEF Present, Pending
<1> QED
  BY <1>1, <1>2, <1>3, <1>4, <1>5, <1>6, <1>7, <1>8, <1>9, <1>10, <1>11
     DEF Next, HandlerStep, RecvStep, ClientStep, RecvRefused, RecvSdp, ResetRequests,
         roomVars, handlerVars, chanVars, clientVars, vars

\* What is told stays told as long as nothing new is to be said.
LEMMA ToldStays ==
  ASSUME PeerInv, ToldInv, NEW p \in Peers, NEW q \in Peers \ {p}, Settled(p, q),
         Said(p, q)' = Said(p, q), view'[p] = view[p],
         \/ Pending(p)' = Pending(p)
         \/ \E m \in Message : Pending(p)' = Append(Pending(p), m) /\ ~About(m, q)
  PROVE  ToldIn(Pending(p), view[p][q], q, Said(p, q))'
<1>1. ToldIn(Pending(p), view[p][q], q, Said(p, q))
  BY DEF ToldInv
<1>2. Pending(p) \in Seq(Message)
  BY PendingType DEF PeerInv
<1>3. ToldIn(Pending(p)', view[p][q], q, Said(p, q))
  BY <1>1, <1>2, ToldAppendOther
<1> QED
  BY <1>3

LEMMA NextTold == PeerInv /\ ToldInv /\ [Next]_vars => ToldInv'
<1> SUFFICES ASSUME PeerInv, ToldInv, [Next]_vars,
                    NEW p \in Peers, NEW q \in Peers \ {p}, Settled(p, q)'
             PROVE  ToldIn(Pending(p), view[p][q], q, Said(p, q))'
  BY DEF ToldInv
<1> DEFINE Told == ToldIn(Pending(p), view[p][q], q, Said(p, q))'
           Same == Settled(p, q) /\ Said(p, q)' = Said(p, q) /\ view'[p] = view[p]
<1>0. /\ StateType /\ LinkType /\ TaskInv /\ ForwardInv /\ None \notin Infos
      /\ q # p /\ Present(p)' /\ seen'[p][q] = None /\ p \notin todo'[q]
      /\ ~(p \in rto'[q] /\ rmsg'[q].type = "Update")
      /\ pc'[q] # "ending" \/ Group[q] # Group[p]
      /\ Pending(p) \in Seq(Message)
  BY PendingType, ConstantsAssumption DEF PeerInv, Settled
<1>1. ASSUME Same, Pending(p)' = Pending(p) PROVE Told
  BY <1>1, ToldStays
<1>2. ASSUME NEW y \in Peers, NEW m \in Message, Sends(y, m), Same, p = y => ~About(m, q)
      PROVE  Told
  <2>1. Present(p)
    BY <1>2 DEF Settled
  <2>2. Pending(p)' = Pending(p) \/ (Pending(p)' = Append(Pending(p), m) /\ p = y)
    BY <1>2, <2>1, QueueOf
  <2> QED
    BY <1>2, <2>2, ToldStays
<1>3. ASSUME NEW m \in Message, Sends(p, m), Present(p), About(m, q),
             Value(m, q) = Said(p, q)'
      PROVE  Told
  <2>1. Pending(p)' = Append(Pending(p), m)
    BY <1>3, QueueOf
  <2>2. ToldIn(Append(Pending(p), m), view'[p][q], q, Said(p, q)')
    BY <1>0, <1>3, ToldAppendAbout
  <2> QED
    BY <2>1, <2>2
<1>s. Said(p, q) = IF Group[q] = Group[p] THEN info[q] ELSE None
  BY <1>0 DEF Said, Others, Members
<1>t. Said(p, q)' = IF Group[q] = Group[p] THEN info'[q] ELSE None
  BY <1>0 DEF Said, Others, Members
<1>4. ASSUME NEW x \in Peers, NEW i \in Infos, Connect(x, i) PROVE Told
  <2>1. /\ pc[x] = "new" /\ view' = view /\ Pending(p)' = Pending(p)
        /\ UNCHANGED <<rto, rmsg>>
    BY <1>4 DEF Connect, clientVars, recvVars, Pending
  <2>2. CASE Cardinality(Members(x)) >= MaxConnections \/ TooMany(Group[x])
    <3>1. pc' = [pc EXCEPT ![x] = "gone"] /\ UNCHANGED <<info, todo, seen>>
      BY <1>4, <2>2 DEF Connect
    <3>2. p # x /\ pc'[p] = pc[p] /\ (pc[q] = "ending" => pc'[q] = "ending")
      BY <1>0, <2>1, <3>1 DEF StateType, Present
    <3>3. Same
      BY <1>0, <1>s, <1>t, <2>1, <3>1, <3>2 DEF Present, Settled
    <3> QED
      BY <1>1, <2>1, <3>3
  <2>3. CASE ~(Cardinality(Members(x)) >= MaxConnections \/ TooMany(Group[x]))
    <3>1. /\ info' = [info EXCEPT ![x] = i] /\ todo' = [todo EXCEPT ![x] = Others(x)]
          /\ seen' = [seen EXCEPT ![x] = Listed(x)]
          /\ pc' = [pc EXCEPT ![x] = "joining"]
      BY <1>4, <2>3 DEF Connect
    <3>2. CASE p = x
      <4>1. seen'[p] = Listed(p) /\ info'[q] = info[q]
        BY <1>0, <3>1, <3>2 DEF StateType
      <4>2. q \notin Members(p)
        BY <1>0, <4>1 DEF Listed, Members
      <4>3. Said(p, q)' = None
        BY <1>0, <1>t, <4>1, <4>2 DEF Members
      <4>4. /\ chan[p] = <<>> /\ inbox[p] = <<>> /\ view[p] = Nobody
            /\ <<>> \o <<>> = <<>> /\ Len(<<>>) = 0
        BY <1>0, <2>1, <3>2 DEF TaskInv
      <4>5. Pending(p)' = <<>> /\ view'[p][q] = None
        BY <2>1, <4>4 DEF Pending, Nobody
      <4>6. ToldIn(<<>>, None, q, None)
        BY <4>4 DEF ToldIn
      <4> QED
        BY <4>3, <4>5, <4>6
    <3>3. CASE q = x
      <4>1. pc[p] = pc'[p] /\ todo'[q] = Others(q) /\ seen'[p] = seen[p]
        BY <1>0, <3>1, <3>3 DEF StateType
      <4>2. Group[p] # Group[q]
        BY <1>0, <4>1 DEF Present, TaskInv, Others, Members
      <4>3. todo[q] = {} /\ rto[q] = {}
        BY <1>0, <2>1, <3>3 DEF TaskInv, ForwardInv
      <4>4. Same
        BY <1>0, <1>s, <1>t, <2>1, <4>1, <4>2, <4>3 DEF Settled, Present
      <4> QED
        BY <1>1, <2>1, <4>4
    <3>4. CASE p # x /\ q # x
      <4>1. /\ pc'[p] = pc[p] /\ info'[q] = info[q] /\ todo'[q] = todo[q]
            /\ seen'[p] = seen[p] /\ pc'[q] = pc[q]
        BY <1>0, <3>1, <3>4 DEF StateType
      <4>2. Same
        BY <1>0, <1>s, <1>t, <2>1, <4>1 DEF Settled, Present
      <4> QED
        BY <1>1, <2>1, <4>2
    <3> QED
      BY <3>2, <3>3, <3>4
  <2> QED
    BY <2>2, <2>3
<1>5. ASSUME NEW x \in Peers, NEW y \in Peers, SendJoin(x, y) PROVE Told
  <2>1. /\ UNCHANGED <<info, pc, seen, view, rto, rmsg>>
        /\ todo' = [todo EXCEPT ![x] = todo[x] \ {y}] /\ y \in todo[x]
        /\ pc[x] = "joining"
    BY <1>5 DEF SendJoin, roomVars, clientVars, recvVars
  <2>2. /\ Join(x) \in Message /\ Sends(y, Join(x)) /\ info[x] \in Infos
        /\ About(Join(x), q) <=> q = x
        /\ Value(Join(x), x) = info[x]
    BY <1>0, <1>5, WhatIsSent, JoinMessage
  <2>3. Present(p)
    BY <1>0, <2>1 DEF Present
  <2>4. CASE p = y /\ q = x
    <3>1. Group[q] = Group[p]
      BY <1>0, <2>1, <2>4 DEF TaskInv
    <3>2. Said(p, q)' = info[x]
      BY <1>t, <2>1, <2>4, <3>1
    <3> QED
      BY <1>3, <2>2, <2>3, <2>4, <3>2
  <2>5. CASE ~(p = y /\ q = x)
    <3>1. p \notin todo[q]
      BY <1>0, <2>1, <2>5 DEF StateType
    <3>2. Same
      BY <1>0, <1>s, <1>t, <2>1, <2>3, <3>1 DEF Settled
    <3> QED
      BY <1>2, <2>2, <2>5, <3>2
  <2> QED
    BY <2>4, <2>5
<1>6. ASSUME NEW x \in Peers, SendHello(x) PROVE Told
  <2>1. UNCHANGED <<info, todo, seen, view, rto, rmsg>>
        /\ pc' = [pc EXCEPT ![x] = "open"] /\ pc[x] = "joining"
    BY <1>6 DEF SendHello, roomVars, clientVars, recvVars
  <2>2. /\ Hello(x) \in Message /\ Sends(x, Hello(x))
        /\ About(Hello(x), q) <=> seen[x][q] # None
    BY <1>0, <1>6, WhatIsSent, HelloMessage DEF StateType
  <2>3. Present(p) /\ (pc[q] = "ending" => pc'[q] = "ending")
    BY <1>0, <2>1 DEF StateType, Present
  <2>4. Same
    BY <1>0, <1>s, <1>t, <2>1, <2>3 DEF Settled
  <2>5. p = x => ~About(Hello(x), q)
    BY <1>0, <2>1, <2>2
  <2> QED
    BY <1>2, <2>2, <2>4, <2>5
<1>7. ASSUME NEW x \in Peers, Disconnect(x) PROVE Told
  <2>1. /\ UNCHANGED <<info, todo>> /\ pc' = [pc EXCEPT ![x] = "ending"]
        /\ seen' = [seen EXCEPT ![x] = Nobody] /\ view' = [view EXCEPT ![x] = Nobody]
        /\ chan' = [chan EXCEPT ![x] = <<>>] /\ inbox' = [inbox EXCEPT ![x] = <<>>]
        /\ rto' = [rto EXCEPT ![x] = {}] /\ rmsg' = [rmsg EXCEPT ![x] = Error]
    BY <1>7 DEF Disconnect, roomVars
  <2>2. p # x
    BY <1>0, <2>1 DEF Present, StateType
  <2>3. /\ pc'[p] = pc[p] /\ seen'[p] = seen[p] /\ view'[p] = view[p]
        /\ Pending(p)' = Pending(p)
    BY <1>0, <2>1, <2>2 DEF StateType, LinkType, Pending
  <2>4. CASE q = x
    <3>1. Group[q] # Group[p]
      BY <1>0, <2>1, <2>4 DEF StateType
    <3>2. p \notin rto[q]
      BY <1>0, <3>1 DEF ForwardInv
    <3>3. Same
      BY <1>0, <1>s, <1>t, <2>1, <2>3, <3>1, <3>2 DEF Settled, Present
    <3> QED
      BY <1>1, <2>3, <3>3
  <2>5. CASE q # x
    <3>1. rto'[q] = rto[q] /\ rmsg'[q] = rmsg[q] /\ pc'[q] = pc[q]
      BY <1>0, <2>1, <2>5 DEF StateType
    <3>2. Same
      BY <1>0, <1>s, <1>t, <2>1, <2>3, <3>1 DEF Settled, Present
    <3> QED
      BY <1>1, <2>3, <3>2
  <2> QED
    BY <2>4, <2>5
<1>8. ASSUME NEW x \in Peers, Teardown(x) PROVE Told
  <2>1. /\ info' = [info EXCEPT ![x] = None] /\ todo' = [todo EXCEPT ![x] = Others(x)]
        /\ pc[x] = "ending"
        /\ pc' = [pc EXCEPT ![x] = IF Others(x) = {} THEN "gone" ELSE "leaving"]
        /\ UNCHANGED <<seen, chan, inbox, view, rto, rmsg>>
    BY <1>8 DEF Teardown, chanVars, clientVars, recvVars
  <2>2. p # x
    BY <1>0, <2>1 DEF Present, StateType
  <2>3. pc'[p] = pc[p] /\ Pending(p)' = Pending(p)
    BY <1>0, <2>1, <2>2 DEF StateType, Pending
  <2>4. CASE q = x
    <3>1. Group[q] # Group[p]
      <4>1. todo'[q] = Others(q) /\ info[p] # None
        BY <1>0, <2>1, <2>3, <2>4 DEF StateType, TaskInv, Present
      <4> QED
        BY <1>0, <4>1 DEF Others, Members
    <3>2. todo[q] = {} /\ rto[q] = {}
      BY <1>0, <2>1, <2>4 DEF TaskInv, ForwardInv
    <3>3. Same
      BY <1>0, <1>s, <1>t, <2>1, <2>3, <3>1, <3>2 DEF Settled, Present
    <3> QED
      BY <1>1, <2>3, <3>3
  <2>5. CASE q # x
    <3>1. info'[q] = info[q] /\ todo'[q] = todo[q] /\ pc'[q] = pc[q]
      BY <1>0, <2>1, <2>5 DEF StateType
    <3>2. Same
      BY <1>0, <1>s, <1>t, <2>1, <2>3, <3>1 DEF Settled, Present
    <3> QED
      BY <1>1, <2>3, <3>2
  <2> QED
    BY <2>4, <2>5
<1>9. ASSUME NEW x \in Peers, NEW y \in Peers, SendLeft(x, y) PROVE Told
  <2>1. /\ pc[x] = "leaving" /\ UNCHANGED <<info, seen, view, rto, rmsg>>
        /\ todo' = [todo EXCEPT ![x] = todo[x] \ {y}]
        /\ pc' = [pc EXCEPT ![x] = IF todo[x] = {y} THEN "gone" ELSE pc[x]]
    BY <1>9 DEF SendLeft, roomVars, clientVars, recvVars
  <2>2. /\ Left(x) \in Message /\ Sends(y, Left(x))
        /\ About(Left(x), q) <=> q = x
        /\ Value(Left(x), x) = None /\ info[x] = None
    BY <1>0, <1>9, <2>1, WhatIsSent, LeftMessage DEF TaskInv
  <2>3. Present(p) /\ (pc[q] = "ending" => pc'[q] = "ending")
    BY <1>0, <2>1 DEF Present, StateType
  <2>4. CASE p = y /\ q = x
    <3>1. Said(p, q)' = None
      BY <1>t, <2>1, <2>2, <2>4
    <3> QED
      BY <1>3, <2>2, <2>3, <2>4, <3>1
  <2>5. CASE ~(p = y /\ q = x)
    <3>1. p \notin todo[q]
      BY <1>0, <2>1, <2>5 DEF StateType
    <3>2. Same
      BY <1>0, <1>s, <1>t, <2>1, <2>3, <3>1 DEF Settled
    <3> QED
      BY <1>2, <2>2, <2>5, <3>2
  <2> QED
    BY <2>4, <2>5
<1>10. ASSUME NEW x \in Peers, RecvRefused(x) PROVE Told
  <2>1. /\ rto[x] = {} /\ UNCHANGED <<info, pc, todo, seen, chan, inbox, view>>
        /\ rto' = [rto EXCEPT ![x] = {x}] /\ rmsg' = [rmsg EXCEPT ![x] = Error]
    BY <1>10 DEF RecvRefused, Ready, roomVars, handlerVars, chanVars, clientVars
  <2>2. rto[q] = {} \/ (rto'[q] = rto[q] /\ rmsg'[q] = rmsg[q])
    BY <1>0, <2>1 DEF StateType
  <2>3. Same /\ Pending(p)' = Pending(p)
    BY <1>0, <1>s, <1>t, <2>1, <2>2 DEF Settled, Present, Pending
  <2> QED
    BY <1>1, <2>3
<1>11. ASSUME NEW x \in Peers, NEW i \in Infos, RecvUpdate(x, i) PROVE Told
  <2>1. /\ UNCHANGED <<pc, todo, seen, chan, inbox, view>> /\ rto[x] = {}
        /\ info' = [info EXCEPT ![x] = i] /\ rto' = [rto EXCEPT ![x] = Others(x)]
        /\ rmsg' = [rmsg EXCEPT ![x] = IF Others(x) # {} THEN Update(x, i) ELSE rmsg[x]]
    BY <1>11 DEF RecvUpdate, Ready, handlerVars, chanVars, clientVars
  <2>2. Present(p) /\ Pending(p)' = Pending(p)
    BY <1>0, <2>1 DEF Present, Pending
  <2>3. CASE q = x
    <3>1. p \notin Others(q)
      BY <1>0, <2>1, <2>3, UpdateMessage DEF StateType
    <3>2. Group[q] # Group[p]
      BY <1>0, <2>2, <3>1 DEF Present, TaskInv, Others, Members
    <3>3. Same
      BY <1>0, <1>s, <1>t, <2>1, <2>2, <2>3, <3>2 DEF Settled
    <3> QED
      BY <1>1, <2>2, <3>3
  <2>4. CASE q # x
    <3>1. info'[q] = info[q] /\ rto'[q] = rto[q] /\ rmsg'[q] = rmsg[q]
      BY <1>0, <2>1, <2>4 DEF StateType
    <3>2. Same
      BY <1>0, <1>s, <1>t, <2>1, <2>2, <3>1 DEF Settled
    <3> QED
      BY <1>1, <2>2, <3>2
  <2> QED
    BY <2>3, <2>4
<1>12. ASSUME NEW x \in Peers, NEW y \in Peers, RecvSdp(x, y) PROVE Told
  <2>1. /\ rto[x] = {} /\ UNCHANGED <<info, pc, todo, seen, chan, inbox, view>>
        /\ rto' = [rto EXCEPT ![x] = {y} \cap Members(x)]
        /\ rmsg' = [rmsg EXCEPT ![x] = IF y \in Members(x) THEN Sdp(x) ELSE rmsg[x]]
    BY <1>12 DEF RecvSdp, Ready, roomVars, handlerVars, chanVars, clientVars
  <2>2. rto[q] = {} \/ (rto'[q] = rto[q] /\ rmsg'[q] = rmsg[q])
    BY <1>0, <2>1 DEF StateType
  <2>3. Same /\ Pending(p)' = Pending(p)
    BY <1>0, <1>s, <1>t, <2>1, <2>2 DEF Settled, Present, Pending
  <2> QED
    BY <1>1, <2>3
<1>13. ASSUME NEW x \in Peers, NEW y \in Peers, RecvForward(x, y) PROVE Told
  <2>1. /\ pc[x] = "open" /\ y \in rto[x] /\ UNCHANGED <<info, seen, todo, view>>
        /\ rto' = [rto EXCEPT ![x] = rto[x] \ {y}]
        /\ rmsg' = [rmsg EXCEPT ![x] = IF rto[x] = {y} THEN Error ELSE rmsg[x]]
        /\ pc' = [pc EXCEPT ![x] = IF rmsg[x] = Error THEN "exit" ELSE pc[x]]
    BY <1>13 DEF RecvForward, roomVars, clientVars
  <2>2. rmsg[x] \in Message /\ Sends(y, rmsg[x])
    BY <1>13, WhatIsSent
  <2>3. Present(p) /\ (pc[q] = "ending" => pc'[q] = "ending")
    BY <1>0, <2>1 DEF Present, StateType
  <2>4. info[x] \in Infos /\ Group[y] = Group[x]
    BY <1>0, <2>1 DEF TaskInv, ForwardInv
  <2>5. CASE p = y /\ q = x /\ rmsg[x].type = "Update"
    <3>1. rmsg[x] = Update(q, info[q]) /\ info[q] \in Infos
      BY <1>0, <2>1, <2>4, <2>5 DEF ForwardInv
    <3>2. About(rmsg[x], q) /\ Value(rmsg[x], q) = info[q]
      BY <3>1, UpdateMessage
    <3>3. Said(p, q)' = info[q]
      BY <1>t, <2>1, <2>4, <2>5
    <3> QED
      BY <1>3, <2>2, <2>3, <2>5, <3>2, <3>3
  <2>6. CASE ~(p = y /\ q = x /\ rmsg[x].type = "Update")
    <3>1. ~(p \in rto[q] /\ rmsg[q].type = "Update")
      <4>1. CASE q # x
        BY <1>0, <2>1, <4>1 DEF StateType
      <4>2. CASE q = x
        <5>1. p \in rto[q] /\ p # y => p \in rto'[q] /\ rto[q] # {y}
          BY <1>0, <2>1, <4>2 DEF StateType
        <5>2. rto[q] # {y} => rmsg'[q] = rmsg[q]
          BY <1>0, <2>1, <4>2 DEF StateType
        <5> QED
          BY <1>0, <2>6, <4>2, <5>1, <5>2
      <4> QED
        BY <4>1, <4>2
    <3>2. Same
      BY <1>0, <1>s, <1>t, <2>1, <2>3, <3>1 DEF Settled
    <3>3. p = y => ~About(rmsg[x], q)
      <4>1. CASE rmsg[x].type = "Update"
        <5>1. rmsg[x] = Update(x, info[x])
          BY <1>0, <2>1, <4>1 DEF ForwardInv
        <5> QED
          BY <2>4, <2>6, <4>1, <5>1, UpdateMessage
      <4>2. CASE rmsg[x].type # "Update"
        BY <1>0, <4>2 DEF ForwardInv, About
      <4> QED
        BY <4>1, <4>2
    <3> QED
      BY <1>2, <2>2, <3>2, <3>3
  <2> QED
    BY <2>5, <2>6
<1>14. ASSUME NEW x \in Peers, Deliver(x) PROVE Told
  <2>1. UNCHANGED <<info, pc, todo, seen, view, rto, rmsg>> /\ Pending(p)' = Pending(p)
    BY <1>0, <1>14, DeliverPending DEF Deliver, roomVars, handlerVars, recvVars
  <2>2. Same
    BY <1>0, <1>s, <1>t, <2>1 DEF Settled, Present
  <2> QED
    BY <1>1, <2>1, <2>2
<1>15. ASSUME NEW x \in Peers, ClientTake(x) PROVE Told
  <2>1. /\ UNCHANGED <<info, pc, todo, seen, rto, rmsg>>
        /\ view' = [view EXCEPT ![x] = Shown(view[x], Head(inbox[x]))]
    BY <1>15 DEF ClientTake, roomVars, handlerVars, recvVars
  <2>2. Settled(p, q) /\ Said(p, q)' = Said(p, q)
    BY <1>0, <1>s, <1>t, <2>1 DEF Settled, Present
  <2>3. CASE p # x
    <3>1. Pending(p)' = Pending(p) /\ view'[p] = view[p]
      BY <1>0, <1>15, <2>1, <2>3, TakePending DEF StateType
    <3> QED
      BY <1>1, <2>2, <3>1
  <2>4. CASE p = x
    <3> DEFINE m == Head(Pending(p))
    <3>1. /\ Pending(p) # <<>> /\ Pending(p)' = Tail(Pending(p)) /\ m \in Message
          /\ view'[p] = Shown(view[p], m)
      BY <1>0, <1>15, <2>1, <2>4, TakePending DEF StateType
    <3>2. view'[p][q] = IF About(m, q) THEN Value(m, q) ELSE view[p][q]
      BY <1>0, <3>1, ShownValue DEF StateType
    <3>3. ToldIn(Pending(p), view[p][q], q, Said(p, q))
      BY <2>2 DEF ToldInv
    <3>4. ToldIn(Tail(Pending(p)), IF About(m, q) THEN Value(m, q) ELSE view[p][q], q,
                 Said(p, q))
      BY <1>0, <3>1, <3>3, ToldTail
    <3> QED
      BY <2>2, <3>1, <3>2, <3>4
  <2> QED
    BY <2>3, <2>4
<1>16. CASE UNCHANGED <<info, pc, todo, seen, rto, rmsg, chan, inbox, view>>
  <2>1. Same /\ Pending(p)' = Pending(p)
    BY <1>0, <1>s, <1>t, <1>16 DEF Settled, Present, Pending
  <2> QED
    BY <1>1, <2>1
<1> QED
  BY <1>4, <1>5, <1>6, <1>7, <1>8, <1>9, <1>10, <1>11, <1>12, <1>13, <1>14, <1>15, <1>16
     DEF Next, HandlerStep, RecvStep, ClientStep, ResetRequests,
         roomVars, handlerVars, chanVars, recvVars, clientVars, vars

-----------------------------------------------------------------------------
(* The theorems. *)

ServerInv == PeerInv /\ SizeInv /\ LeftInv /\ KnownInv /\ ToldInv

LEMMA ServerInvariant == Spec => []ServerInv
<1>1. Init => ServerInv
  <2> SUFFICES ASSUME Init PROVE ServerInv
    OBVIOUS
  <2>1. PeerInv
    BY InitPeer
  <2>2. SizeInv
    <3>1. \A p \in Peers : Members(p) = {}
      BY DEF Init, Members
    <3>2. IsFiniteSet({}) /\ Cardinality({}) = 0
      BY FS_EmptySet
    <3> QED
      BY <3>1, <3>2, ConstantsAssumption DEF SizeInv
  <2>3. \A p \in Peers : Len(Pending(p)) = 0
    <3>1. <<>> \o <<>> = <<>> /\ Len(<<>>) = 0
      OBVIOUS
    <3> QED
      BY <3>1 DEF Init, Pending
  <2>4. LeftInv
    BY <2>3 DEF LeftInv
  <2>5. KnownInv /\ ToldInv
    BY DEF Init, KnownInv, ToldInv, Settled, Present
  <2> QED
    BY <2>1, <2>2, <2>4, <2>5 DEF ServerInv
<1>2. ServerInv /\ [Next]_vars => ServerInv'
  BY NextPeer, NextSize, NextLeft, NextKnown, NextTold DEF ServerInv
<1> QED
  BY <1>1, <1>2, PTL DEF Spec

\* What is on its way, in one queue or in two.
LEMMA TellsConcat ==
  ASSUME NEW s \in Seq(Message), NEW t \in Seq(Message), NEW q \in Peers
  PROVE  Tells(s \o t, q) <=> Tells(s, q) \/ Tells(t, q)
<1>1. Len(s) \in Nat /\ Len(t) \in Nat
  OBVIOUS
<1>2. /\ Len(s \o t) = Len(s) + Len(t)
      /\ \A i \in 1..Len(s) + Len(t) : (s \o t)[i] =
           IF i <= Len(s) THEN s[i] ELSE t[i - Len(s)]
  BY ConcatProperties
<1>3. ASSUME NEW i \in 1..Len(s \o t), About((s \o t)[i], q)
      PROVE  Tells(s, q) \/ Tells(t, q)
  <2>1. CASE i <= Len(s)
    <3>1. i \in 1..Len(s) /\ (s \o t)[i] = s[i]
      BY <1>1, <1>2, <2>1
    <3> QED
      BY <1>3, <3>1 DEF Tells
  <2>2. CASE ~(i <= Len(s))
    <3>1. i - Len(s) \in 1..Len(t) /\ (s \o t)[i] = t[i - Len(s)]
      BY <1>1, <1>2, <2>2
    <3> QED
      BY <1>3, <3>1 DEF Tells
  <2> QED
    BY <2>1, <2>2
<1>4. ASSUME NEW i \in 1..Len(s), About(s[i], q) PROVE Tells(s \o t, q)
  <2>1. i \in 1..Len(s \o t) /\ (s \o t)[i] = s[i]
    BY <1>1, <1>2
  <2> QED
    BY <1>4, <2>1 DEF Tells
<1>5. ASSUME NEW i \in 1..Len(t), About(t[i], q) PROVE Tells(s \o t, q)
  <2>1. /\ Len(s) + i \in 1..Len(s) + Len(t)
        /\ ~(Len(s) + i <= Len(s)) /\ (Len(s) + i) - Len(s) = i
    BY <1>1
  <2>2. (s \o t)[Len(s) + i] = t[i]
    BY <1>2, <2>1
  <2> QED
    BY <1>2, <1>5, <2>1, <2>2 DEF Tells
<1> QED
  BY <1>3, <1>4, <1>5 DEF Tells

LEMMA TellsTransit ==
  ASSUME LinkType, NEW p \in Peers, NEW q \in Peers
  PROVE  InTransit(p, q) <=> \/ Tells(Pending(p), q)
                             \/ p \in todo[q]
                             \/ p \in rto[q] /\ rmsg[q].type = "Update"
<1>1. inbox[p] \in Seq(Message) /\ chan[p] \in Seq(Message)
  BY DEF LinkType
<1>2. Tells(Pending(p), q) <=> Tells(inbox[p], q) \/ Tells(chan[p], q)
  BY <1>1, TellsConcat DEF Pending
<1> QED
  BY <1>2 DEF InTransit, Tells

\* A connection whose tasks run is in its room, and whoever else is there is
\* shown to its client or on the way to it: the handler registers, tells and
\* lists under one lock, and Hello waits in the same channel as all the rest
\* (handle_socket of ws_controller.rs).
THEOREM MembersStayKnown == Spec => []MembersKnown
<1>1. ASSUME ServerInv PROVE TypeOK
  BY <1>1 DEF ServerInv, PeerInv, SizeInv, StateType, LinkBound, TypeOK
<1>2. ASSUME ServerInv PROVE Registered
  BY <1>2, ConstantsAssumption DEF ServerInv, PeerInv, TaskInv, Registered
<1>3. ASSUME ServerInv PROVE NobodyMissing
  <2> SUFFICES ASSUME NEW p \in Peers, NEW q \in Others(p),
                      pc[p] = "open", view[p][q] = None
               PROVE  InTransit(p, q)
    BY DEF NobodyMissing
  <2>1. q \in Peers
    BY DEF Others, Members
  <2>2. Tells(Pending(p), q) \/ p \in todo[q]
    BY <1>3, <2>1 DEF ServerInv, KnownInv, Present
  <2> QED
    BY <1>3, <2>1, <2>2, TellsTransit DEF ServerInv, PeerInv
<1> QED
  BY <1>1, <1>2, <1>3, ServerInvariant, PTL DEF MembersKnown

\* What a client shows of one that joined later is what that one last said,
\* and nothing once it has left, as soon as nothing about it is on its way:
\* Join, Update and Left of one peer stay in the order they were sent in.
THEOREM NewcomersShown == Spec => []NewcomersExact
<1>1. ASSUME ServerInv PROVE NewcomersExact
  <2> SUFFICES ASSUME NEW p \in Peers, NEW q \in Peers \ {p}, seen[p][q] = None,
                      pc[p] = "open", ~InTransit(p, q), pc[q] # "ending"
               PROVE  view[p][q] = Said(p, q)
    BY DEF NewcomersExact, Exact, Said
  <2>1. /\ ~Tells(Pending(p), q) /\ p \notin todo[q]
        /\ ~(p \in rto[q] /\ rmsg[q].type = "Update")
    BY <1>1, TellsTransit DEF ServerInv, PeerInv
  <2>2. Settled(p, q)
    BY <2>1 DEF Settled, Present
  <2> QED
    BY <1>1, <2>1, <2>2 DEF ServerInv, ToldInv, ToldIn
<1> QED
  BY <1>1, ServerInvariant, PTL
=============================================================================
