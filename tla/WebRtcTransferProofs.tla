------------------------ MODULE WebRtcTransferProofs ------------------------
(***************************************************************************)
(* Proofs about WebRtcTransfer, for any number and size of files, any      *)
(* number of attempts at a PIN and channels of any capacity: the two ends  *)
(* understand each other, and data and results reach their file.           *)
(***************************************************************************)
EXTENDS WebRtcTransfer, SequenceTheorems, TLAPS

-----------------------------------------------------------------------------
(* What an end will still hear: its channel, and what the peer has sent.   *)

Coming(e) == inbox[e] \o wire[Peer(e)]

\* Facts about queues of messages: what is first, what is appended.
LEMMA Queues ==
  ASSUME NEW s \in Seq(Messages), NEW t \in Seq(Messages)
  PROVE  /\ s \o t \in Seq(Messages)
         /\ s # <<>> => /\ Head(s) \in Messages /\ Tail(s) \in Seq(Messages)
                        /\ s \o t # <<>> /\ Head(s \o t) = Head(s)
                        /\ Tail(s \o t) = Tail(s) \o t
         /\ t # <<>> => /\ Append(s, Head(t)) \in Seq(Messages)
                        /\ Append(s, Head(t)) \o Tail(t) = s \o t
         /\ \A u \in Seq(Messages) : s \o (t \o u) = (s \o t) \o u
         /\ s \o <<>> = s /\ <<>> \o s = s
<1>1. s \o t \in Seq(Messages)
  OBVIOUS
<1>2. ASSUME s # <<>>
      PROVE  /\ Head(s) \in Messages /\ Tail(s) \in Seq(Messages)
             /\ s \o t # <<>> /\ Head(s \o t) = Head(s)
             /\ Tail(s \o t) = Tail(s) \o t
  <2>1. /\ Head(s) \in Messages /\ Tail(s) \in Seq(Messages) /\ Len(s) \in Nat \ {0}
        /\ Head(s) = s[1] /\ Len(Tail(s)) = Len(s) - 1 /\ Len(t) \in Nat
        /\ \A i \in 1 .. (Len(s) - 1) : Tail(s)[i] = s[i + 1]
    BY <1>2
  <2>2. /\ s \o t \in Seq(Messages) /\ Len(s \o t) = Len(s) + Len(t)
        /\ \A i \in 1 .. Len(s) + Len(t) :
             (s \o t)[i] = IF i <= Len(s) THEN s[i] ELSE t[i - Len(s)]
    BY ConcatProperties
  <2>3. s \o t # <<>>
    BY <2>1, <2>2
  <2>4. (s \o t)[1] = s[1] /\ Head(s \o t) = (s \o t)[1]
    BY <2>1, <2>2, <2>3
  <2>5. /\ Tail(s \o t) \in Seq(Messages) /\ Len(Tail(s \o t)) = Len(s) + Len(t) - 1
        /\ \A i \in 1 .. Len(Tail(s \o t)) : Tail(s \o t)[i] = (s \o t)[i + 1]
    BY <2>2, <2>3, HeadTailProperties
  <2>6. /\ Tail(s) \o t \in Seq(Messages) /\ Len(Tail(s) \o t) = Len(s) - 1 + Len(t)
        /\ \A i \in 1 .. Len(s) - 1 + Len(t) :
             (Tail(s) \o t)[i] = IF i <= Len(s) - 1 THEN Tail(s)[i] ELSE t[i - (Len(s) - 1)]
    BY <2>1, ConcatProperties
  <2>7. ASSUME NEW i \in 1 .. (Len(s) + Len(t) - 1) PROVE Tail(s \o t)[i] = (Tail(s) \o t)[i]
    <3>1. i + 1 \in 1 .. Len(s) + Len(t) /\ i \in 1 .. Len(s) - 1 + Len(t)
          /\ i \in 1 .. Len(Tail(s \o t))
      BY <2>1, <2>5
    <3>2. Tail(s \o t)[i] = IF i + 1 <= Len(s) THEN s[i + 1] ELSE t[i + 1 - Len(s)]
      BY <2>2, <2>5, <3>1
    <3>3. CASE i + 1 <= Len(s)
      <4>1. i <= Len(s) - 1 /\ i \in 1 .. (Len(s) - 1)
        BY <2>1, <3>1, <3>3
      <4> QED
        BY <2>1, <2>6, <3>1, <3>2, <3>3, <4>1
    <3>4. CASE ~(i + 1 <= Len(s))
      <4>1. ~(i <= Len(s) - 1) /\ i + 1 - Len(s) = i - (Len(s) - 1)
        BY <2>1, <3>1, <3>4
      <4> QED
        BY <2>6, <3>1, <3>2, <3>4, <4>1
    <3> QED
      BY <3>3, <3>4
  <2>8. Tail(s \o t) = Tail(s) \o t
    <3>1. Len(Tail(s \o t)) = Len(Tail(s) \o t)
      BY <2>1, <2>5, <2>6
    <3>2. \A i \in 1 .. Len(Tail(s \o t)) : Tail(s \o t)[i] = (Tail(s) \o t)[i]
      BY <2>5, <2>7
    <3> QED
      BY <2>5, <2>6, <3>1, <3>2, SeqEqual
  <2> QED
    BY <2>1, <2>3, <2>4, <2>8
<1>3. ASSUME t # <<>>
      PROVE  /\ Append(s, Head(t)) \in Seq(Messages)
             /\ Append(s, Head(t)) \o Tail(t) = s \o t
  <2>1. Head(t) \in Messages /\ Tail(t) \in Seq(Messages) /\ t = <<Head(t)>> \o Tail(t)
    <3>1. /\ Head(t) \in Messages /\ Tail(t) \in Seq(Messages) /\ Len(t) \in Nat \ {0}
          /\ Head(t) = t[1] /\ Len(Tail(t)) = Len(t) - 1
          /\ \A i \in 1 .. (Len(t) - 1) : Tail(t)[i] = t[i + 1]
      BY <1>3
    <3>2. <<Head(t)>> \in Seq(Messages) /\ Len(<<Head(t)>>) = 1 /\ <<Head(t)>>[1] = Head(t)
      BY <3>1
    <3>3. /\ <<Head(t)>> \o Tail(t) \in Seq(Messages)
          /\ Len(<<Head(t)>> \o Tail(t)) = 1 + (Len(t) - 1)
          /\ \A i \in 1 .. 1 + (Len(t) - 1) :
               (<<Head(t)>> \o Tail(t))[i] = IF i <= 1 THEN <<Head(t)>>[i] ELSE Tail(t)[i - 1]
      BY <3>1, <3>2, ConcatProperties
    <3>4. ASSUME NEW i \in 1 .. Len(t) PROVE t[i] = (<<Head(t)>> \o Tail(t))[i]
      <4>0. i \in 1 .. 1 + (Len(t) - 1)
        BY <3>1
      <4>1. CASE i = 1
        BY <3>1, <3>2, <3>3, <4>0, <4>1
      <4>2. CASE i # 1
        <5>1. ~(i <= 1) /\ i - 1 \in 1 .. (Len(t) - 1) /\ (i - 1) + 1 = i
          BY <3>1, <4>2
        <5> QED
          BY <3>1, <3>3, <4>0, <5>1
      <4> QED
        BY <4>1, <4>2
    <3>5. Len(t) = Len(<<Head(t)>> \o Tail(t))
      BY <3>1, <3>3
    <3> QED
      BY <3>1, <3>3, <3>4, <3>5, SeqEqual
  <2>2. Append(s, Head(t)) = s \o <<Head(t)>> /\ <<Head(t)>> \in Seq(Messages)
    BY <2>1
  <2>3. (s \o <<Head(t)>>) \o Tail(t) = s \o (<<Head(t)>> \o Tail(t))
    BY <2>1, <2>2, ConcatAssociative
  <2>4. Append(s, Head(t)) \in Seq(Messages)
    BY <2>1
  <2> QED
    BY <2>1, <2>2, <2>3, <2>4
<1>4. ASSUME NEW u \in Seq(Messages) PROVE s \o (t \o u) = (s \o t) \o u
  BY ConcatAssociative
<1>5. s \o <<>> = s /\ <<>> \o s = s
  BY ConcatEmptySeq
<1> QED
  BY <1>1, <1>2, <1>3, <1>4, <1>5

\* Facts about sequences of one or two messages.
LEMMA Tuples ==
  \A a, b : /\ <<a>> # <<>> /\ Len(<<a>>) = 1 /\ <<a>>[1] = a
            /\ Head(<<a>>) = a /\ Tail(<<a>>) = <<>>
            /\ <<a, b>> # <<>> /\ Len(<<a, b>>) = 2 /\ <<a, b>>[1] = a /\ <<a, b>>[2] = b
            /\ Head(<<a, b>>) = a /\ Tail(<<a, b>>) = <<b>>
            /\ <<a>> # <<a, b>>
  OBVIOUS

\* What is left of an utterance when the connection is lost.
LEMMA Prefixes ==
  ASSUME NEW s \in Seq(Messages), NEW t \in Seq(Messages)
  PROVE  /\ s \o t = <<>> => s = <<>>
         /\ \A a : s \o t = <<a>> => s = <<>> \/ s = <<a>>
         /\ \A a, b : s \o t = <<a, b>> => s = <<>> \/ s = <<a>> \/ s = <<a, b>>
<1>1. s \o t = <<>> => s = <<>>
  BY ConcatEqualIffEmpty
<1>2. /\ Len(s) \in Nat /\ Len(t) \in Nat /\ Len(s \o t) = Len(s) + Len(t)
      /\ DOMAIN s = 1 .. Len(s)
      /\ \A i \in 1 .. Len(s) : (s \o t)[i] = s[i]
  BY ConcatProperties, LenProperties
<1>3. ASSUME NEW n \in Nat, NEW w, w \in Seq(Messages), Len(w) = n, Len(s) = n,
             \A i \in 1 .. n : s[i] = w[i]
      PROVE  s = w
  BY <1>3, SeqEqual
<1>4. Len(s) = 0 => s = <<>>
  OBVIOUS
<1>5. s \o t \in Seq(Messages)
  OBVIOUS
<1>6. ASSUME NEW a, s \o t = <<a>> PROVE s = <<>> \/ s = <<a>>
  <2>1. a \in Messages /\ Len(s) + Len(t) = 1
    BY <1>2, <1>5, <1>6
  <2>2. Len(s) = 0 \/ Len(s) = 1
    BY <1>2, <2>1
  <2>3. ASSUME Len(s) = 1 PROVE s = <<a>>
    <3>1. s[1] = a
      BY <1>2, <1>6, <2>3
    <3> QED
      BY <1>3, <2>1, <2>3, <3>1
  <2> QED
    BY <1>4, <2>2, <2>3
<1>7. ASSUME NEW a, NEW b, s \o t = <<a, b>> PROVE s = <<>> \/ s = <<a>> \/ s = <<a, b>>
  <2>1. a \in Messages /\ b \in Messages /\ Len(s) + Len(t) = 2
    <3>1. (s \o t)[1] \in Messages /\ (s \o t)[2] \in Messages
      BY <1>5, <1>7
    <3>2. Len(s \o t) = 2 /\ (s \o t)[1] = a /\ (s \o t)[2] = b
      BY <1>7
    <3> QED
      BY <1>2, <3>1, <3>2
  <2>2. Len(s) = 0 \/ Len(s) = 1 \/ Len(s) = 2
    BY <1>2, <2>1
  <2>3. ASSUME Len(s) = 1 PROVE s = <<a>>
    <3>1. s[1] = a
      BY <1>2, <1>7, <2>3
    <3> QED
      BY <1>3, <2>1, <2>3, <3>1
  <2>4. ASSUME Len(s) = 2 PROVE s = <<a, b>>
    <3>1. s[1] = a /\ s[2] = b
      BY <1>2, <1>7, <2>4
    <3>2. \A i \in 1 .. 2 : s[i] = <<a, b>>[i]
      BY <3>1
    <3> QED
      BY <1>3, <2>1, <2>4, <3>2
  <2> QED
    BY <1>4, <2>2, <2>3, <2>4
<1> QED
  BY <1>1, <1>6, <1>7

Plain == {"nonce", "token", "pinOk", "pinRequired", "tooMany", "delimiter"}
Long == {"pinRequired", "tooMany", "list", "selection", "declined"}

\* Every utterance of the two ends is made of messages.
LEMMA MessageFacts ==
  /\ \A t \in Plain : Text(t, None) \in Messages /\ <<Text(t, None)>> \in Seq(Messages)
  /\ \A x \in {"ok", "pin", "invalid"} : <<Text("tokenResponse", x)>> \in Seq(Messages)
  /\ \A x \in {"wrong", "right"} : <<Text("pin", x)>> \in Seq(Messages)
  /\ \A f \in Files : /\ <<Text("header", f)>> \in Seq(Messages)
                      /\ <<Text("result", f)>> \in Seq(Messages)
                      /\ <<Binary("data", f)>> \in Seq(Messages)
                      /\ Binary("data", f) \in Messages /\ Text("header", f) \in Messages
  /\ \A t \in Long : InChunks(t, None) \in Seq(Messages) /\ Binary(t, None) \in Messages
  /\ Delimiter \in Messages /\ <<Delimiter>> \in Seq(Messages)
  /\ \A m \in Messages : /\ m.bin \in BOOLEAN
                         /\ m.t = "header" => m.x \in Files
                         /\ m.t = "pin" => m.x \in {"wrong", "right"}
<1>1. \A t \in Plain : Text(t, None) \in Messages
  BY DEF Plain, Messages
<1>2. \A t \in Long : Binary(t, None) \in Messages
  BY DEF Long, Messages
<1>3. \A x \in {"ok", "pin", "invalid"} : Text("tokenResponse", x) \in Messages
  BY DEF Messages
<1>4. \A x \in {"wrong", "right"} : Text("pin", x) \in Messages
  BY DEF Messages
<1>5. \A f \in Files : /\ Text("header", f) \in Messages /\ Text("result", f) \in Messages
                       /\ Binary("data", f) \in Messages
  BY DEF Messages
<1>6. Delimiter \in Messages
  BY DEF Delimiter, Messages
<1>7. \A a, b \in Messages : <<a>> \in Seq(Messages) /\ <<a, b>> \in Seq(Messages)
  OBVIOUS
<1>8. ASSUME NEW m \in Messages
      PROVE  /\ m.bin \in BOOLEAN
             /\ m.t = "header" => m.x \in Files
             /\ m.t = "pin" => m.x \in {"wrong", "right"}
  <2>1. ASSUME NEW t \in Plain, m = Text(t, None)
        PROVE  m.bin \in BOOLEAN /\ m.t # "header" /\ m.t # "pin"
    BY <2>1 DEF Plain, Text
  <2>2. ASSUME NEW x, m = Text("tokenResponse", x)
        PROVE  m.bin \in BOOLEAN /\ m.t # "header" /\ m.t # "pin"
    BY <2>2 DEF Text
  <2>3. ASSUME NEW x \in {"wrong", "right"}, m = Text("pin", x)
        PROVE  m.bin \in BOOLEAN /\ m.t # "header" /\ m.x \in {"wrong", "right"}
    BY <2>3 DEF Text
  <2>4. ASSUME NEW t \in {"header", "result"}, NEW f \in Files, m = Text(t, f)
        PROVE  m.bin \in BOOLEAN /\ m.x \in Files /\ m.t # "pin"
    BY <2>4 DEF Text
  <2>5. ASSUME NEW t \in Long, m = Binary(t, None)
        PROVE  m.bin \in BOOLEAN /\ m.t # "header" /\ m.t # "pin"
    BY <2>5 DEF Long, Binary
  <2>6. ASSUME NEW f \in Files, m = Binary("data", f)
        PROVE  m.bin \in BOOLEAN /\ m.t # "header" /\ m.t # "pin"
    BY <2>6 DEF Binary
  <2>7. \/ \E t \in Plain : m = Text(t, None)
        \/ \E x \in {"ok", "pin", "invalid"} : m = Text("tokenResponse", x)
        \/ \E x \in {"wrong", "right"} : m = Text("pin", x)
        \/ \E t \in {"header", "result"}, f \in Files : m = Text(t, f)
        \/ \E t \in Long : m = Binary(t, None)
        \/ \E f \in Files : m = Binary("data", f)
    BY DEF Messages, Plain, Long
  <2> QED
    BY <2>1, <2>2, <2>3, <2>4, <2>5, <2>6, <2>7
<1> QED
  BY <1>1, <1>2, <1>3, <1>4, <1>5, <1>6, <1>7, <1>8 DEF InChunks

\* Each end is the peer of its peer.
LEMMA Ways ==
  /\ Ends = {"sender", "receiver"} /\ Peer("sender") = "receiver" /\ Peer("receiver") = "sender"
  /\ \A e \in Ends : Peer(e) \in Ends /\ Peer(e) # e /\ Peer(Peer(e)) = e
BY DEF Ends, Peer

-----------------------------------------------------------------------------
(* Types. *)

SenderPcs == {"channel", "nonce", "tokenResponse", "enter", "pinResponse", "verify",
              "selection", "next", "stream", "last", "done", "failed"}
ReceiverPcs == {"channel", "nonce", "token", "enter", "verify", "list", "select", "files",
                "result", "header", "flush", "done", "failed"}
Pcs(e) == IF e = "sender" THEN SenderPcs ELSE ReceiverPcs
AllPcs == {"channel", "nonce", "token", "tokenResponse", "enter", "pinResponse",
           "verify", "list", "select", "selection", "next", "stream", "last",
           "files", "result", "header", "flush", "done", "failed"}
Errors == {None, "send", "unexpected", "signature", "user", "tooMany", "noFile", "app"}

ControlType ==
  /\ main \in [Ends -> {"signal", "register", "answer", "run", "closing", "finished", "error"}]
  /\ pc \in [Ends -> AllPcs] /\ \A e \in Ends : pc[e] \in Pcs(e)
  /\ err \in [Ends -> Errors]
  /\ offer \in {"none", "offered", "answered", "taken", "lost"}
  /\ conn \in {"none", "up", "lost"}
  /\ wire \in [Ends -> Seq(Messages)]

ChannelType ==
  /\ pins \subseteq Ends
  /\ tries \in [Ends -> Nat]
  /\ typed \in [Ends -> {"no", "wrong", "right"}]
  /\ inbox \in [Ends -> Seq(Messages)]
  /\ chunks \in [Ends -> Seq(Messages)]

\* The types of the data, and what is set while a task counts on it.
DataType ==
  /\ selected \subseteq Files /\ given \subseteq Files /\ cut \subseteq Files
  /\ out \in [id : Files \cup {None}, left : Nat]
  /\ file \in [id : Files \cup {None}, received : Nat]
  /\ held \in Messages \cup {None}
  /\ app \in [Files -> {"none", "open", "ended", "stopped"}]
  /\ alive \in BOOLEAN
  /\ results \in Seq(Files)
  /\ told \in [Files -> Files \cup {None}]
  /\ pc["sender"] = "stream" => out.id \in Files
  /\ pc["receiver"] = "result" => file.id \in Files
  /\ pc["receiver"] \in {"result", "header"} => held \in Messages

TypeInv == ControlType /\ ChannelType /\ DataType

\* The ways a task goes on keep the control state well typed.
LEMMA Ctl ==
  ASSUME ControlType, NEW e \in Ends
  PROVE  /\ \A p \in Pcs(e) : Quietly(e, p) => ControlType'
         /\ \A p \in Pcs(e), ms \in Seq(Messages) : Say(e, ms, p) => ControlType'
         /\ \A why \in Errors : Fail(e, why) => ControlType'
         /\ \A why \in Errors, ms \in Seq(Messages) : LastWords(e, ms, why) => ControlType'
         /\ Done(e) /\ wire' = wire => ControlType'
         /\ \A ms \in Seq(Messages) :
              Done(e) /\ wire' = [wire EXCEPT ![e] = @ \o ms] => ControlType'
<1>1. ASSUME NEW p \in Pcs(e), Goto(e, p)
      PROVE  pc' \in [Ends -> AllPcs] /\ \A d \in Ends : pc'[d] \in Pcs(d)
  BY <1>1 DEF Goto, ControlType, Pcs, SenderPcs, ReceiverPcs, AllPcs
<1>2. "failed" \in Pcs(e) /\ "done" \in Pcs(e)
  BY DEF Pcs, SenderPcs, ReceiverPcs
<1>3. ASSUME NEW ms \in Seq(Messages), wire' = [wire EXCEPT ![e] = @ \o ms]
      PROVE  wire' \in [Ends -> Seq(Messages)]
  <2>1. wire[e] \o ms \in Seq(Messages)
    BY DEF ControlType
  <2> QED
    BY <1>3, <2>1 DEF ControlType
<1>4. ASSUME NEW m \in {"closing", "error"}, SetMain(e, m)
      PROVE  main' \in [Ends -> {"signal", "register", "answer", "run", "closing", "finished", "error"}]
  BY <1>4 DEF SetMain, ControlType
<1>5. ASSUME NEW why \in Errors, FailWith(e, why), wire' \in [Ends -> Seq(Messages)]
      PROVE  ControlType'
  <2>1. err' \in [Ends -> Errors]
    BY <1>5 DEF FailWith, ControlType
  <2> QED
    BY <1>1, <1>2, <1>4, <1>5, <2>1 DEF FailWith, ControlType
<1>6. ASSUME Done(e), wire' \in [Ends -> Seq(Messages)]
      PROVE  ControlType'
  BY <1>1, <1>2, <1>4, <1>6 DEF Done, ControlType
<1>7. wire \in [Ends -> Seq(Messages)]
  BY DEF ControlType
<1>8. ASSUME NEW p \in Pcs(e), Quietly(e, p) PROVE ControlType'
  BY <1>1, <1>8 DEF Quietly, ControlType
<1>9. ASSUME NEW p \in Pcs(e), NEW ms \in Seq(Messages), Say(e, ms, p) PROVE ControlType'
  BY <1>1, <1>3, <1>9 DEF Say, ControlType
<1>10. ASSUME NEW why \in Errors, Fail(e, why) PROVE ControlType'
  BY <1>5, <1>7, <1>10 DEF Fail
<1>11. ASSUME NEW why \in Errors, NEW ms \in Seq(Messages), LastWords(e, ms, why) PROVE ControlType'
  BY <1>3, <1>5, <1>11 DEF LastWords
<1> QED
  BY <1>3, <1>6, <1>7, <1>8, <1>9, <1>10, <1>11

\* What an end says comes to its peer last, and what it reads came first.
LEMMA Speech ==
  ASSUME TypeInv, NEW e \in Ends, NEW ms \in Seq(Messages),
         wire' = [wire EXCEPT ![e] = @ \o ms]
  PROVE  /\ wire'[Peer(e)] = wire[Peer(e)] /\ wire'[e] = wire[e] \o ms
         /\ inbox'[e] = inbox[e] => Coming(e)' = Coming(e)
         /\ inbox'[Peer(e)] = inbox[Peer(e)] => Coming(Peer(e))' = Coming(Peer(e)) \o ms
<1>1. /\ wire[e] \in Seq(Messages) /\ inbox[Peer(e)] \in Seq(Messages)
      /\ wire'[Peer(e)] = wire[Peer(e)] /\ wire'[e] = wire[e] \o ms
  BY Ways DEF TypeInv, ControlType, ChannelType
<1>2. inbox[Peer(e)] \o (wire[e] \o ms) = (inbox[Peer(e)] \o wire[e]) \o ms
  <2>1. \A q, r, s \in Seq(Messages) : q \o (r \o s) = (q \o r) \o s
    BY Queues
  <2> QED
    BY <1>1, <2>1
<1> QED
  BY <1>1, <1>2, Ways DEF Coming

\* A message that is read is the first of those that come.
LEMMA Hearing ==
  ASSUME TypeInv, NEW e \in Ends, NEW p, Receives(e, p)
  PROVE  /\ inbox' \in [Ends -> Seq(Messages)] /\ inbox'[Peer(e)] = inbox[Peer(e)]
         /\ Message(e) \in Messages
         /\ Coming(e) \in Seq(Messages) /\ Coming(e) # <<>> /\ Head(Coming(e)) = Message(e)
         /\ wire'[Peer(e)] = wire[Peer(e)] => Coming(e)' = Tail(Coming(e))
<1>1. /\ inbox[e] \in Seq(Messages) /\ wire[Peer(e)] \in Seq(Messages) /\ inbox[e] # <<>>
      /\ inbox \in [Ends -> Seq(Messages)] /\ inbox' = [inbox EXCEPT ![e] = Tail(@)]
  BY Ways DEF TypeInv, ControlType, ChannelType, Receives
<1>2. /\ Head(inbox[e]) \in Messages /\ Tail(inbox[e]) \in Seq(Messages)
      /\ Coming(e) \in Seq(Messages) /\ Coming(e) # <<>> /\ Head(Coming(e)) = Head(inbox[e])
      /\ Tail(Coming(e)) = Tail(inbox[e]) \o wire[Peer(e)]
  BY <1>1, Queues DEF Coming
<1>3. /\ inbox' \in [Ends -> Seq(Messages)] /\ inbox'[Peer(e)] = inbox[Peer(e)]
      /\ inbox'[e] = Tail(inbox[e])
  BY <1>1, <1>2, Ways
<1> QED
  BY <1>2, <1>3 DEF Coming, Message

\* The three things that happen to what comes while an end takes a step.
LEMMA Comes ==
  ASSUME TypeInv, NEW e \in Ends
  PROVE  /\ \A p : \A ms \in Seq(Messages) :
              Receives(e, p) /\ wire' = [wire EXCEPT ![e] = @ \o ms] =>
                 Coming(e)' = Tail(Coming(e)) /\ Coming(Peer(e))' = Coming(Peer(e)) \o ms
         /\ \A ms \in Seq(Messages) :
              inbox' = inbox /\ wire' = [wire EXCEPT ![e] = @ \o ms] =>
                 Coming(e)' = Coming(e) /\ Coming(Peer(e))' = Coming(Peer(e)) \o ms
         /\ \A p : Receives(e, p) /\ wire' = wire =>
                 Coming(e)' = Tail(Coming(e)) /\ Coming(Peer(e))' = Coming(Peer(e))
         /\ inbox' = inbox /\ wire' = wire =>
                 Coming(e)' = Coming(e) /\ Coming(Peer(e))' = Coming(Peer(e))
<1>1. ASSUME NEW p, NEW ms \in Seq(Messages), Receives(e, p), wire' = [wire EXCEPT ![e] = @ \o ms]
      PROVE  Coming(e)' = Tail(Coming(e)) /\ Coming(Peer(e))' = Coming(Peer(e)) \o ms
  BY <1>1, Hearing, Speech
<1>2. ASSUME NEW ms \in Seq(Messages), inbox' = inbox, wire' = [wire EXCEPT ![e] = @ \o ms]
      PROVE  Coming(e)' = Coming(e) /\ Coming(Peer(e))' = Coming(Peer(e)) \o ms
  BY <1>2, Speech
<1>3. ASSUME NEW p, Receives(e, p), wire' = wire
      PROVE  Coming(e)' = Tail(Coming(e)) /\ Coming(Peer(e))' = Coming(Peer(e))
  BY <1>3, Hearing DEF Coming
<1>4. ASSUME inbox' = inbox, wire' = wire
      PROVE  Coming(e)' = Coming(e) /\ Coming(Peer(e))' = Coming(Peer(e))
  BY <1>4 DEF Coming
<1> QED
  BY <1>1, <1>2, <1>3, <1>4

\* How a task gets to p.
Moves(e, p) ==
  \/ \E ms \in Seq(Messages) : Say(e, ms, p)
  \/ Quietly(e, p)
  \/ p = "failed" /\ \E why \in Errors : Fail(e, why)
  \/ p = "failed" /\ \E why \in Errors : \E ms \in Seq(Messages) : LastWords(e, ms, why)
  \/ p = "done" /\ Done(e) /\ wire' = wire
  \/ p = "done" /\ Done(e) /\ \E ms \in Seq(Messages) : wire' = [wire EXCEPT ![e] = @ \o ms]

\* What every way of going on to p has in common.
LEMMA Moved ==
  ASSUME TypeInv, NEW e \in Ends, NEW p \in Pcs(e), Moves(e, p)
  PROVE  /\ ControlType' /\ pc' = [pc EXCEPT ![e] = p]
         /\ pc'[e] = p /\ pc'[Peer(e)] = pc[Peer(e)] /\ conn' = conn
<1>1. ControlType'
  BY Ctl DEF Moves, TypeInv
<1>2. pc' = [pc EXCEPT ![e] = p] /\ conn' = conn
  BY DEF Moves, Say, Quietly, Fail, LastWords, FailWith, Done, Goto
<1> QED
  BY <1>1, <1>2, Ways DEF TypeInv, ControlType

\* A step of the conversation that leaves the data alone.
LEMMA DataKept ==
  ASSUME TypeInv, NEW e \in Ends, NEW p \in Pcs(e) \ {"stream", "result", "header"},
         pc' = [pc EXCEPT ![e] = p], UNCHANGED fileVars
  PROVE  DataType'
<1>1. \A d \in Ends : pc'[d] = pc[d] \/ pc'[d] = p
  BY DEF TypeInv, ControlType
<1>2. "sender" \in Ends /\ "receiver" \in Ends
  BY DEF Ends
<1> QED
  BY <1>1, <1>2 DEF TypeInv, DataType, fileVars

\* The steps of the conversation that either end takes.
LEMMA TypeTalk ==
  ASSUME TypeInv, NEW e \in Ends,
         StartTask(e) \/ ReceiveNonce(e) \/ VerifyPin(e) \/ EnterPin(e) \/ SendFails(e)
  PROVE  TypeInv'
<1>p. /\ {"nonce", "tokenResponse", "enter", "pinResponse", "verify", "selection", "failed"}
             \subseteq Pcs("sender") \ {"stream", "result", "header"}
      /\ {"nonce", "token", "enter", "verify", "list", "failed"}
             \subseteq Pcs("receiver") \ {"stream", "result", "header"}
      /\ e = "sender" \/ e = "receiver"
      /\ "failed" \in Pcs(e)
  BY DEF Pcs, SenderPcs, ReceiverPcs, Ends
<1>e. {"send", "unexpected", "signature", "user", "tooMany"} \subseteq Errors
  BY DEF Errors
<1>c. ControlType /\ ChannelType /\ DataType
  BY DEF TypeInv
<1>m. ASSUME NEW p \in Pcs(e) \ {"stream", "result", "header"}, UNCHANGED fileVars, Moves(e, p)
      PROVE  ControlType' /\ DataType'
  BY <1>m, DataKept, Moved
<1> USE DEF Moves
<1>1. CASE StartTask(e)
  <2>1. ControlType' /\ DataType'
    <3>1. ASSUME e = "sender" PROVE ControlType' /\ DataType'
      <4>1. <<Text("nonce", None)>> \in Seq(Messages)
        BY MessageFacts DEF Plain
      <4> QED
        BY <1>1, <1>m, <1>p, <3>1, <4>1 DEF StartTask
    <3>2. ASSUME e # "sender" PROVE ControlType' /\ DataType'
      BY <1>1, <1>m, <1>p, <3>2 DEF StartTask
    <3> QED
      BY <3>1, <3>2
  <2>2. ChannelType'
    BY <1>1, <1>c DEF StartTask, ChannelType, pinVars
  <2> QED
    BY <2>1, <2>2 DEF TypeInv
<1>2. CASE ReceiveNonce(e)
  <2>1. ControlType' /\ DataType'
    <3>0. <<Text("nonce", None)>> \in Seq(Messages) /\ <<Text("token", None)>> \in Seq(Messages)
      BY MessageFacts DEF Plain
    <3>1. CASE Message(e).t # "nonce"
      BY <1>2, <1>m, <1>p, <1>e, <3>1 DEF ReceiveNonce
    <3>2. CASE Message(e).t = "nonce" /\ e = "sender"
      BY <1>2, <1>m, <1>p, <3>0, <3>2 DEF ReceiveNonce
    <3>3. CASE Message(e).t = "nonce" /\ e # "sender"
      BY <1>2, <1>m, <1>p, <3>0, <3>3 DEF ReceiveNonce
    <3> QED
      BY <3>1, <3>2, <3>3
  <2>2. ChannelType'
    BY <1>2, <1>c, Hearing DEF ReceiveNonce, ChannelType, pinVars
  <2> QED
    BY <2>1, <2>2 DEF TypeInv
<1>3. CASE VerifyPin(e)
  <2>0. /\ InChunks("list", None) \in Seq(Messages)
        /\ \A t \in {"pinRequired", "tooMany"} : Verdict(e, t) \in Seq(Messages)
        /\ e = "receiver" => Verdict(e, "pinOk") \in Seq(Messages)
    BY MessageFacts DEF Verdict, Plain, Long
  <2>1. ControlType' /\ DataType'
    <3>1. CASE Message(e).t # "pin"
      BY <1>3, <1>m, <1>p, <1>e, <3>1 DEF VerifyPin
    <3>2. CASE Message(e).t = "pin"
      <4>1. \/ e = "receiver" /\ Say(e, Verdict(e, "pinOk"), "list")
            \/ e # "receiver" /\ Say(e, InChunks("list", None), "selection")
            \/ Say(e, Verdict(e, "pinRequired"), "verify")
            \/ LastWords(e, Verdict(e, "tooMany"), "tooMany")
        <5>1. Message(e).x = "right" \/ Message(e).x = "wrong"
          <6>1. Message(e) \in Messages
            BY <1>3, Hearing DEF VerifyPin
          <6> QED
            BY <3>2, <6>1, MessageFacts
        <5>2. tries[e] + 1 < MaxTries \/ tries[e] + 1 >= MaxTries
          BY <1>c, ConstantsAssumption DEF ChannelType
        <5> QED
          BY <1>3, <3>2, <5>1, <5>2 DEF VerifyPin
      <4>u. UNCHANGED fileVars
        BY <1>3 DEF VerifyPin
      <4>2. CASE e = "receiver" /\ Say(e, Verdict(e, "pinOk"), "list")
        BY <1>m, <1>p, <2>0, <4>2, <4>u
      <4>3. CASE e # "receiver" /\ Say(e, InChunks("list", None), "selection")
        BY <1>m, <1>p, <2>0, <4>3, <4>u
      <4>4. CASE Say(e, Verdict(e, "pinRequired"), "verify")
        BY <1>m, <1>p, <2>0, <4>4, <4>u
      <4>5. CASE LastWords(e, Verdict(e, "tooMany"), "tooMany")
        BY <1>m, <1>p, <1>e, <2>0, <4>5, <4>u
      <4> QED
        BY <4>1, <4>2, <4>3, <4>4, <4>5
    <3> QED
      BY <3>1, <3>2
  <2>2. ChannelType'
    <3>0. tries \in [Ends -> Nat] /\ tries[e] + 1 \in Nat
      BY <1>c DEF ChannelType
    <3>1. tries' = tries \/ tries' = [tries EXCEPT ![e] = @ + 1]
      BY <1>3 DEF VerifyPin
    <3>2. tries' \in [Ends -> Nat]
      BY <3>0, <3>1
    <3> QED
      BY <1>3, <1>c, <3>2, Hearing DEF VerifyPin, ChannelType
  <2> QED
    BY <2>1, <2>2 DEF TypeInv
<1>4. CASE EnterPin(e)
  <2>u. UNCHANGED fileVars
    BY <1>4 DEF EnterPin
  <2>1. ASSUME NEW pin \in {"wrong", "right"}, PinEntered(e, pin),
               Say(e, <<Text("pin", pin)>>, IF e = "sender" THEN "pinResponse" ELSE "list")
        PROVE  ControlType' /\ DataType' /\ typed' \in [Ends -> {"no", "wrong", "right"}]
    <3>1. <<Text("pin", pin)>> \in Seq(Messages)
      BY MessageFacts
    <3>2. (IF e = "sender" THEN "pinResponse" ELSE "list") \in Pcs(e) \ {"stream", "result", "header"}
      BY <1>p
    <3>3. typed' \in [Ends -> {"no", "wrong", "right"}]
      BY <2>1, <1>c DEF PinEntered, ChannelType
    <3> QED
      BY <1>m, <2>1, <2>u, <3>1, <3>2, <3>3
  <2>2. ASSUME Fail(e, "user"), UNCHANGED typed
        PROVE  ControlType' /\ DataType' /\ typed' \in [Ends -> {"no", "wrong", "right"}]
    BY <1>m, <1>p, <1>e, <1>c, <2>2, <2>u DEF ChannelType
  <2>3. ControlType' /\ DataType' /\ typed' \in [Ends -> {"no", "wrong", "right"}]
    BY <1>4, <2>1, <2>2 DEF EnterPin
  <2>4. ChannelType'
    BY <1>4, <1>c, <2>3 DEF EnterPin, ChannelType
  <2> QED
    BY <2>3, <2>4 DEF TypeInv
<1>5. CASE SendFails(e)
  <2>1. ControlType' /\ DataType'
    BY <1>5, <1>m, <1>p, <1>e DEF SendFails
  <2>2. ChannelType'
    BY <1>5, <1>c DEF SendFails, ChannelType, pinVars
  <2> QED
    BY <2>1, <2>2 DEF TypeInv
<1> QED
  BY <1>1, <1>2, <1>3, <1>4, <1>5

\* The other steps of the conversation.
LEMMA TypeTalks ==
  ASSUME TypeInv,
         \/ ReceiveToken \/ ReceiveTokenResponse \/ ReceivePinResponse
         \/ Collect("sender", "selection") \/ Collect("receiver", "list")
         \/ ReceiveList \/ ReceiveSelection \/ SendDelimiter \/ ReceiveLast \/ Flush
         \/ Select
  PROVE  TypeInv'
<1>p. /\ {"enter", "verify", "selection", "next", "last", "done", "failed"}
             \subseteq Pcs("sender") \ {"stream", "result", "header"}
      /\ {"enter", "verify", "list", "select", "files", "done", "failed"}
             \subseteq Pcs("receiver") \ {"stream", "result", "header"}
      /\ "sender" \in Ends /\ "receiver" \in Ends
  BY DEF Pcs, SenderPcs, ReceiverPcs, Ends
<1>e. {"send", "unexpected", "signature", "user", "tooMany"} \subseteq Errors
  BY DEF Errors
<1>c. ControlType /\ ChannelType /\ DataType
  BY DEF TypeInv
<1>w. /\ \A x \in {"pin", "ok", "invalid"} : <<Text("tokenResponse", x)>> \in Seq(Messages)
      /\ \A t \in {"pinRequired", "list", "selection", "declined"} : InChunks(t, None) \in Seq(Messages)
      /\ <<Delimiter>> \in Seq(Messages)
  BY MessageFacts DEF Long
<1>m. ASSUME NEW e \in Ends, NEW p \in Pcs(e) \ {"stream", "result", "header"}, UNCHANGED fileVars,
             Moves(e, p)
      PROVE  ControlType' /\ DataType'
  BY <1>m, DataKept, Moved
<1> USE DEF Moves
<1>k. ASSUME NEW e \in Ends, NEW p, Receives(e, p), UNCHANGED pinVars,
             \/ chunks' = chunks
             \/ chunks' = [chunks EXCEPT ![e] = <<>>]
             \/ chunks' = [chunks EXCEPT ![e] = Append(@, Message(e))]
      PROVE  ChannelType'
  <2>1. inbox' \in [Ends -> Seq(Messages)] /\ Message(e) \in Messages
    BY <1>k, Hearing
  <2>0. chunks \in [Ends -> Seq(Messages)] /\ chunks[e] \in Seq(Messages)
    BY <1>k, <1>c DEF ChannelType
  <2>a. Append(chunks[e], Message(e)) \in Seq(Messages) /\ <<>> \in Seq(Messages)
    BY <2>0, <2>1
  <2>2. chunks' \in [Ends -> Seq(Messages)]
    BY <1>k, <2>0, <2>a
  <2> QED
    BY <1>k, <1>c, <2>1, <2>2 DEF ChannelType, pinVars
<1>1. CASE ReceiveToken
  <2>0. UNCHANGED fileVars
    BY <1>1 DEF ReceiveToken
  <2>1. \/ Fail("receiver", "unexpected")
        \/ Say("receiver", <<Text("tokenResponse", "pin")>>, "verify")
        \/ Say("receiver", <<Text("tokenResponse", "ok")>>, "list")
        \/ LastWords("receiver", <<Text("tokenResponse", "invalid")>>, "signature")
    BY <1>1 DEF ReceiveToken
  <2>2. ControlType' /\ DataType'
    BY <1>m, <1>p, <1>e, <1>w, <2>0, <2>1
  <2>3. ChannelType'
    BY <1>1, <1>k, <1>p DEF ReceiveToken
  <2> QED
    BY <2>2, <2>3 DEF TypeInv
<1>2. CASE ReceiveTokenResponse \/ ReceivePinResponse
  <2>0. UNCHANGED fileVars
    BY <1>2 DEF ReceiveTokenResponse, ReceivePinResponse
  <2>1. \/ \E why \in Errors : Fail("sender", why)
        \/ Quietly("sender", "enter")
        \/ Say("sender", InChunks("pinRequired", None), "verify")
        \/ Say("sender", InChunks("list", None), "selection")
    BY <1>2, <1>e DEF ReceiveTokenResponse, ReceivePinResponse, SenderVerifies
  <2>2. ControlType' /\ DataType'
    BY <1>m, <1>p, <1>w, <2>0, <2>1
  <2>3. ChannelType'
    BY <1>2, <1>k, <1>p DEF ReceiveTokenResponse, ReceivePinResponse
  <2> QED
    BY <2>2, <2>3 DEF TypeInv
<1>3. CASE Collect("sender", "selection") \/ Collect("receiver", "list")
  <2>1. ControlType' /\ DataType'
    BY <1>3, <1>m, <1>p DEF Collect
  <2>2. ChannelType'
    BY <1>3, <1>k, <1>p DEF Collect
  <2> QED
    BY <2>1, <2>2 DEF TypeInv
<1>4. CASE ReceiveList
  <2>0. UNCHANGED fileVars
    BY <1>4 DEF ReceiveList
  <2>1. \/ Quietly("receiver", "select")
        \/ Quietly("receiver", "enter")
        \/ \E why \in Errors : Fail("receiver", why)
    BY <1>4, <1>e DEF ReceiveList
  <2>2. ControlType' /\ DataType'
    BY <1>m, <1>p, <2>0, <2>1
  <2>3. ChannelType'
    BY <1>4, <1>k, <1>p DEF ReceiveList, StringEnds
  <2> QED
    BY <2>2, <2>3 DEF TypeInv
<1>5. CASE ReceiveSelection
  <2>0. UNCHANGED fileVars
    BY <1>5 DEF ReceiveSelection
  <2>1. \/ Quietly("sender", "next")
        \/ Done("sender") /\ wire' = wire
        \/ \E why \in Errors : Fail("sender", why)
    BY <1>5, <1>e DEF ReceiveSelection, PublishSelection
  <2>2. ControlType' /\ DataType'
    BY <1>m, <1>p, <2>0, <2>1
  <2>3. ChannelType'
    BY <1>5, <1>k, <1>p DEF ReceiveSelection, StringEnds
  <2> QED
    BY <2>2, <2>3 DEF TypeInv
<1>6. CASE SendDelimiter
  <2>1. ControlType' /\ DataType'
    BY <1>6, <1>m, <1>p, <1>w DEF SendDelimiter
  <2>2. ChannelType'
    BY <1>6, <1>c DEF SendDelimiter, ChannelType, pinVars
  <2> QED
    BY <2>1, <2>2 DEF TypeInv
<1>7. CASE ReceiveLast
  <2>1. ControlType' /\ DataType'
    BY <1>7, <1>m, <1>p DEF ReceiveLast
  <2>2. ChannelType'
    BY <1>7, <1>k, <1>p DEF ReceiveLast
  <2> QED
    BY <2>1, <2>2 DEF TypeInv
<1>8. CASE Flush
  <2>1. ControlType' /\ DataType'
    BY <1>8, <1>m, <1>p DEF Flush
  <2>2. ChannelType'
    BY <1>8, <1>c DEF Flush, ChannelType, pinVars
  <2> QED
    BY <2>1, <2>2 DEF TypeInv
<1>9. CASE Select
  <2>0. /\ UNCHANGED <<inbox, chunks, pinVars>>
        /\ UNCHANGED <<given, out, file, held, app, alive, results, told, cut>>
    BY <1>9 DEF Select
  <2>1. \/ \E s \in SUBSET Files : selected' = s /\ Say("receiver", InChunks("selection", None), "files")
        \/ /\ wire' = [wire EXCEPT !["receiver"] = @ \o InChunks("declined", None)]
           /\ Done("receiver") /\ selected' = selected
        \/ Done("receiver") /\ wire' = wire /\ selected' = selected
    BY <1>9 DEF Select, SendSelection, Decline
  <2>2. \E p \in {"files", "done"} : Moves("receiver", p)
    BY <1>w, <2>1
  <2>3. /\ ControlType' /\ pc'["sender"] = pc["sender"] /\ pc'["receiver"] \in {"files", "done"}
    BY <1>p, <2>2, Moved, Ways
  <2>4. DataType' /\ ChannelType'
    BY <1>c, <2>0, <2>1, <2>3 DEF DataType, ChannelType, pinVars
  <2> QED
    BY <2>3, <2>4 DEF TypeInv
<1> QED
  BY <1>1, <1>2, <1>3, <1>4, <1>5, <1>6, <1>7, <1>8, <1>9

\* The steps of a file.
LEMMA TypeFiles ==
  ASSUME TypeInv,
         \/ \E f \in Files : \E n \in 0 .. Size[f] + 1 : SendFile(f, n)
         \/ SendChunk \/ ReceiveText \/ ReceiveResult \/ HandleHeader \/ ReceiveData
  PROVE  TypeInv'
<1>p. /\ {"next", "stream"} \subseteq Pcs("sender")
      /\ {"files", "result", "header", "flush", "failed"} \subseteq Pcs("receiver")
      /\ "sender" \in Ends /\ "receiver" \in Ends
      /\ {"noFile", "unexpected", "app"} \subseteq Errors
  BY DEF Pcs, SenderPcs, ReceiverPcs, Ends, Errors
<1>c. ControlType /\ ChannelType /\ DataType
  BY DEF TypeInv
<1>n. NoFile \in [id : Files \cup {None}, received : Nat] /\ NoOut \in [id : Files \cup {None}, left : Nat]
  BY DEF NoFile, NoOut
<1>o. ASSUME NEW m \in Messages, OpenFile(m)
      PROVE  /\ ControlType' /\ pc'["sender"] = pc["sender"] /\ pc'["receiver"] \in {"files", "failed"}
             /\ file' \in [id : Files \cup {None}, received : Nat]
             /\ app' \in [Files -> {"none", "open", "ended", "stopped"}]
  <2>1. CASE m.t # "header"
    <3>1. Moves("receiver", "failed") /\ UNCHANGED <<file, app>>
      BY <1>o, <1>p, <2>1 DEF OpenFile, Moves
    <3> QED
      BY <1>c, <1>p, <3>1, Moved, Ways DEF DataType
  <2>2. CASE m.t = "header"
    <3>0. m.x \in Files
      BY <2>2, MessageFacts
    <3>1. Moves("receiver", "files")
      BY <1>o, <2>2 DEF OpenFile, Moves
    <3>2. /\ file' = file \/ file' = [id |-> m.x, received |-> 0]
          /\ app' = app \/ app' = [app EXCEPT ![m.x] = IF alive THEN "open" ELSE "stopped"]
      BY <1>o, <2>2 DEF OpenFile, ListenReceiving
    <3>3. /\ file' \in [id : Files \cup {None}, received : Nat]
          /\ app' \in [Files -> {"none", "open", "ended", "stopped"}]
      BY <1>c, <3>0, <3>2 DEF DataType
    <3> QED
      BY <1>p, <3>1, <3>3, Moved, Ways
  <2> QED
    BY <2>1, <2>2
<1>r. ASSUME NEW p, Receives("receiver", p), UNCHANGED <<chunks, pinVars>>
      PROVE  ChannelType' /\ Message("receiver") \in Messages
  BY <1>r, <1>c, <1>p, Hearing DEF ChannelType, pinVars
<1>q. ASSUME UNCHANGED <<inbox, chunks, pinVars>>
      PROVE  ChannelType'
  BY <1>q, <1>c DEF ChannelType, pinVars
<1>a. ASSUME NEW f PROVE Ended(f) \in [Files -> {"none", "open", "ended", "stopped"}]
  BY <1>c DEF Ended, DataType
<1>1. ASSUME NEW f \in Files, NEW n \in 0 .. Size[f] + 1, SendFile(f, n) PROVE TypeInv'
  <2>0. Size[f] \in Nat /\ n \in Nat /\ <<Text("header", f)>> \in Seq(Messages)
    BY ConstantsAssumption, MessageFacts
  <2>1. /\ UNCHANGED <<inbox, chunks, pinVars>>
        /\ UNCHANGED <<selected, file, held, app, alive, results, told, cut>>
        /\ given' = given \cup {f}
        /\ \/ Say("sender", <<Text("header", f)>>, "stream") /\ out' = [id |-> f, left |-> n]
           \/ Quietly("sender", "next") /\ out' = out
    BY <1>1 DEF SendFile, HandOver
  <2>2. \/ Moves("sender", "stream") /\ out' = [id |-> f, left |-> n]
        \/ Moves("sender", "next") /\ out' = out
    BY <2>0, <2>1 DEF Moves
  <2>3. /\ ControlType' /\ pc'["receiver"] = pc["receiver"]
        /\ \/ pc'["sender"] = "stream" /\ out' = [id |-> f, left |-> n]
           \/ pc'["sender"] = "next" /\ out' = out
    BY <1>p, <2>2, Moved, Ways
  <2>4. DataType'
    BY <1>c, <2>0, <2>1, <2>3 DEF DataType
  <2> QED
    BY <1>q, <2>1, <2>3, <2>4 DEF TypeInv
<1>2. CASE SendChunk
  <2>1. /\ UNCHANGED <<inbox, chunks, pinVars>>
        /\ UNCHANGED <<selected, given, file, held, app, alive, results, told, cut>>
        /\ out.id \in Files /\ out.left \in Nat
        /\ \/ /\ out.left > 0 /\ Say("sender", <<Binary("data", out.id)>>, "stream")
              /\ out' = [out EXCEPT !.left = @ - 1]
           \/ Quietly("sender", "next") /\ out' = NoOut
    BY <1>2, <1>c DEF SendChunk, DataType
  <2>2. \/ Moves("sender", "stream") /\ out.left > 0 /\ out' = [out EXCEPT !.left = @ - 1]
        \/ Moves("sender", "next") /\ out' = NoOut
    BY <2>1, MessageFacts DEF Moves
  <2>3. /\ ControlType' /\ pc'["receiver"] = pc["receiver"]
        /\ \/ pc'["sender"] = "stream" /\ out.left > 0 /\ out' = [out EXCEPT !.left = @ - 1]
           \/ pc'["sender"] = "next" /\ out' = NoOut
    BY <1>p, <2>2, Moved, Ways
  <2>4. /\ out' \in [id : Files \cup {None}, left : Nat]
        /\ pc'["sender"] = "stream" => out'.id \in Files
    BY <1>c, <1>n, <2>1, <2>3 DEF DataType
  <2>5. DataType'
    BY <1>c, <2>1, <2>3, <2>4 DEF DataType
  <2> QED
    BY <1>q, <2>1, <2>3, <2>5 DEF TypeInv
<1>3. CASE ReceiveText
  <2>1. /\ ChannelType' /\ Message("receiver") \in Messages
        /\ UNCHANGED <<selected, given, out, alive, results, told, cut>>
    BY <1>3, <1>r DEF ReceiveText
  <2>2. CASE file.id = None
    <3>1. OpenFile(Message("receiver")) /\ held' = held
      BY <1>3, <2>2 DEF ReceiveText
    <3> QED
      BY <1>c, <1>o, <2>1, <3>1 DEF TypeInv, DataType
  <2>3. CASE file.id # None
    <3>1. /\ app' = Ended(file.id) /\ held' = Message("receiver") /\ file' = file
          /\ Moves("receiver", "result")
      BY <1>3, <2>3 DEF ReceiveText, Moves
    <3>2. ControlType' /\ pc'["sender"] = pc["sender"] /\ pc'["receiver"] = "result"
      BY <1>p, <3>1, Moved, Ways
    <3>3. file.id \in Files
      BY <1>c, <2>3 DEF DataType
    <3> QED
      BY <1>c, <1>a, <2>1, <3>1, <3>2, <3>3 DEF TypeInv, DataType
  <2> QED
    BY <2>2, <2>3
<1>4. CASE ReceiveResult
  <2>1. /\ UNCHANGED <<inbox, chunks, pinVars>>
        /\ UNCHANGED <<selected, given, out, held, app, alive, cut>>
        /\ file' = NoFile /\ pc["receiver"] = "result"
        /\ Say("receiver", <<Text("result", file.id)>>, IF held = Delimiter THEN "flush" ELSE "header")
        /\ \/ /\ results # <<>> /\ results' = Tail(results)
              /\ told' = [told EXCEPT ![file.id] = Head(results)]
           \/ results' = results /\ told' = told
    BY <1>4 DEF ReceiveResult
  <2>2. file.id \in Files /\ held \in Messages
    BY <1>c, <2>1 DEF DataType
  <2>3. <<Text("result", file.id)>> \in Seq(Messages)
    BY <2>2, MessageFacts
  <2>4. ControlType' /\ pc'["sender"] = pc["sender"] /\ pc'["receiver"] \in {"flush", "header"}
    <3>1. \E p \in {"flush", "header"} : Moves("receiver", p)
      BY <2>1, <2>3 DEF Moves
    <3> QED
      BY <1>p, <3>1, Moved, Ways
  <2>5. results' \in Seq(Files) /\ told' \in [Files -> Files \cup {None}]
    <3>1. CASE results # <<>> /\ results' = Tail(results) /\ told' = [told EXCEPT ![file.id] = Head(results)]
      <4>1. Tail(results) \in Seq(Files) /\ Head(results) \in Files
        BY <1>c, <3>1 DEF DataType
      <4> QED
        BY <1>c, <3>1, <4>1 DEF DataType
    <3> QED
      BY <1>c, <2>1, <3>1 DEF DataType
  <2>6. DataType'
    BY <1>c, <1>n, <2>1, <2>2, <2>4, <2>5 DEF DataType
  <2> QED
    BY <1>q, <2>1, <2>4, <2>6 DEF TypeInv
<1>5. CASE HandleHeader
  <2>1. /\ UNCHANGED <<inbox, chunks, pinVars>>
        /\ UNCHANGED <<selected, given, out, alive, results, told, cut>>
        /\ OpenFile(held) /\ held' = None /\ held \in Messages
    BY <1>5, <1>c DEF HandleHeader, DataType
  <2>2. DataType' /\ ControlType'
    BY <1>c, <1>o, <2>1 DEF DataType
  <2> QED
    BY <1>q, <2>1, <2>2 DEF TypeInv
<1>6. CASE ReceiveData
  <2>1. /\ ChannelType'
        /\ UNCHANGED <<selected, given, out, held, alive, results, told>>
    BY <1>6, <1>r DEF ReceiveData
  <2>2. /\ \/ UNCHANGED <<file, app, cut>>
           \/ file.id # None /\ app' = Ended(file.id) /\ cut' = cut \cup {file.id} /\ file' = NoFile
           \/ file' = [file EXCEPT !.received = @ + 1] /\ UNCHANGED <<app, cut>>
        /\ Quietly("receiver", "files") \/ Fail("receiver", "app")
    BY <1>6 DEF ReceiveData
  <2>3. \E p \in {"files", "failed"} : Moves("receiver", p)
    BY <1>p, <2>2 DEF Moves
  <2>4. ControlType' /\ pc'["sender"] = pc["sender"] /\ pc'["receiver"] \in {"files", "failed"}
    BY <1>p, <2>3, Moved, Ways
  <2>5. /\ file' \in [id : Files \cup {None}, received : Nat] /\ cut' \subseteq Files
        /\ app' \in [Files -> {"none", "open", "ended", "stopped"}]
    BY <1>c, <1>n, <1>a, <2>2 DEF DataType
  <2> QED
    BY <1>c, <2>1, <2>4, <2>5 DEF TypeInv, DataType
<1> QED
  BY <1>1, <1>2, <1>3, <1>4, <1>5, <1>6

\* Signaling, the connection, the applications and the main functions.
LEMMA TypeRest ==
  ASSUME TypeInv,
         \/ Signal \/ ConnectionLost \/ AppGone
         \/ \E e \in Ends : Deliver(e) \/ Close(e) \/ Disconnected(e)
         \/ \E f \in Files : AppReports(f)
         \/ UNCHANGED vars
  PROVE  TypeInv'
<1>c. ControlType /\ ChannelType /\ DataType
  BY DEF TypeInv
<1>e. "sender" \in Ends /\ "receiver" \in Ends
  BY DEF Ends
<1>0. ASSUME UNCHANGED <<pc, inbox, chunks, pinVars, fileVars>>, UNCHANGED err,
             main' \in [Ends -> {"signal", "register", "answer", "run", "closing", "finished", "error"}],
             offer' \in {"none", "offered", "answered", "taken", "lost"},
             conn' \in {"none", "up", "lost"},
             wire' \in [Ends -> Seq(Messages)]
      PROVE  TypeInv'
  BY <1>0, <1>c DEF TypeInv, ControlType, ChannelType, DataType, pinVars, fileVars
<1>t. /\ main \in [Ends -> {"signal", "register", "answer", "run", "closing", "finished", "error"}]
      /\ offer \in {"none", "offered", "answered", "taken", "lost"}
      /\ conn \in {"none", "up", "lost"}
      /\ wire \in [Ends -> Seq(Messages)]
      /\ [d \in Ends |-> <<>>] \in [Ends -> Seq(Messages)]
  BY <1>c DEF ControlType
<1>1. CASE Signal
  <2>1. UNCHANGED <<pc, inbox, chunks, pinVars, fileVars>> /\ UNCHANGED <<err, wire>>
    BY <1>1 DEF Signal, SendOffer, OnAnswer, SendAnswer, ListenerTakesAnswer, ChannelOpens,
         signalUnchanged, pinVars, fileVars
  <2>2. /\ main' \in [Ends -> {"signal", "register", "answer", "run", "closing", "finished", "error"}]
        /\ offer' \in {"none", "offered", "answered", "taken", "lost"}
        /\ conn' \in {"none", "up", "lost"}
    BY <1>1, <1>t DEF Signal, SendOffer, OnAnswer, SendAnswer, ListenerTakesAnswer, ChannelOpens,
         SendSdp
  <2> QED
    BY <1>0, <1>t, <2>1, <2>2
<1>2. CASE ConnectionLost
  BY <1>0, <1>2, <1>t DEF ConnectionLost, pinVars, fileVars
<1>3. ASSUME NEW e \in Ends, Close(e) \/ Disconnected(e) PROVE TypeInv'
  BY <1>0, <1>3, <1>t DEF Close, Disconnected
<1>4. ASSUME NEW e \in Ends, Deliver(e) PROVE TypeInv'
  <2>1. /\ wire[e] \in Seq(Messages) /\ wire[e] # <<>> /\ inbox[Peer(e)] \in Seq(Messages)
        /\ inbox' = [inbox EXCEPT ![Peer(e)] = Append(@, Head(wire[e]))]
        /\ wire' = [wire EXCEPT ![e] = Tail(@)]
        /\ inbox \in [Ends -> Seq(Messages)]
    BY <1>4, <1>c, <1>t, Ways DEF Deliver, ChannelType
  <2>2. Head(wire[e]) \in Messages /\ Tail(wire[e]) \in Seq(Messages)
    BY <2>1
  <2>3. Append(inbox[Peer(e)], Head(wire[e])) \in Seq(Messages)
    BY <2>1, <2>2
  <2>4. inbox' \in [Ends -> Seq(Messages)] /\ wire' \in [Ends -> Seq(Messages)]
    BY <1>t, <2>1, <2>2, <2>3
  <2> QED
    BY <1>4, <1>c, <2>4 DEF Deliver, TypeInv, ControlType, ChannelType, DataType
<1>5. CASE AppGone
  BY <1>5, <1>c DEF AppGone, TypeInv, ControlType, ChannelType, DataType, pinVars
<1>6. ASSUME NEW f \in Files, AppReports(f) PROVE TypeInv'
  <2>1. Append(results, f) \in Seq(Files)
    BY <1>c DEF DataType
  <2>2. app' \in [Files -> {"none", "open", "ended", "stopped"}]
    BY <1>6, <1>c DEF AppReports, DataType
  <2> QED
    BY <1>6, <1>c, <2>1, <2>2 DEF AppReports, TypeInv, ControlType, ChannelType, DataType, pinVars
<1>7. CASE UNCHANGED vars
  BY <1>0, <1>7, <1>t DEF vars, pinVars, fileVars
<1> QED
  BY <1>1, <1>2, <1>3, <1>4, <1>5, <1>6, <1>7

\* Every step keeps the types.
LEMMA TypeStep ==
  ASSUME TypeInv, [Next]_vars
  PROVE  TypeInv'
BY TypeTalk, TypeTalks, TypeFiles, TypeRest
   DEF Next, SenderTask, ReceiverTask, Task

-----------------------------------------------------------------------------
(* The conversation up to the files.                                       *)

Nonce == Text("nonce", None)
Token == Text("token", None)
Over == {"done", "failed"}

\* A string of one of these kinds is coming or partly read.
Chunked(C, c, kinds) ==
  \/ c = <<>> /\ C = <<>>
  \/ \E t \in kinds : \/ c = <<>> /\ C = <<Binary(t, None)>>
                      \/ c = <<>> /\ C = InChunks(t, None)
                      \/ c = <<Binary(t, None)>> /\ C = <<>>
                      \/ c = <<Binary(t, None)>> /\ C = <<Delimiter>>

\* What can come to an end that waits at p and has read the chunks c.
Expect(p, C, c) ==
  /\ p \in {"channel", "nonce"} => C = <<>> \/ C = <<Nonce>>
  /\ p = "token" => C = <<>> \/ C = <<Token>>
  /\ p = "tokenResponse" =>
       C = <<>> \/ \E x \in {"ok", "pin", "invalid"} : C = <<Text("tokenResponse", x)>>
  /\ p = "pinResponse" =>
       C = <<>> \/ \E t \in {"pinOk", "pinRequired", "tooMany"} : C = <<Text(t, None)>>
  /\ p = "verify" => C = <<>> \/ \E x \in {"wrong", "right"} : C = <<Text("pin", x)>>
  /\ p \in {"enter", "select"} => C = <<>>
  /\ p = "list" => Chunked(C, c, {"list", "pinRequired", "tooMany"})
  /\ p = "selection" => Chunked(C, c, {"selection", "declined"})
  /\ p \notin {"list", "selection"} \cup Over => c = <<>>

\* A whole string of this kind is coming or partly read.
Pending(C, c, t) ==
  \/ c = <<>> /\ C = InChunks(t, None)
  \/ c = <<Binary(t, None)>> /\ C = <<Delimiter>>

\* Where two live ends stand to each other: one of them is to act, and what
\* comes to it, if anything, is what makes it act.
Turn(ps, pr, S, R, cs, cr) ==
  \/ ps = "channel" /\ pr \in {"channel", "nonce"} /\ S = <<>> /\ R = <<>>
  \/ ps = "nonce" /\ pr \in {"channel", "nonce"} /\ S = <<>> /\ R = <<Nonce>>
  \/ ps = "nonce" /\ pr = "token" /\ S = <<Nonce>> /\ R = <<>>
  \/ ps = "tokenResponse" /\ pr = "token" /\ S = <<>> /\ R = <<Token>>
  \/ ps = "tokenResponse" /\ pr = "verify" /\ S = <<Text("tokenResponse", "pin")>> /\ R = <<>>
  \/ /\ ps = "tokenResponse" /\ pr = "list" /\ S = <<Text("tokenResponse", "ok")>>
     /\ R = <<>> /\ cr = <<>>
  \/ ps = "enter" /\ pr = "verify" /\ S = <<>> /\ R = <<>>
  \/ /\ ps = "pinResponse" /\ pr = "verify" /\ S = <<>>
     /\ \E x \in {"wrong", "right"} : R = <<Text("pin", x)>>
  \/ ps = "pinResponse" /\ pr = "verify" /\ S = <<Text("pinRequired", None)>> /\ R = <<>>
  \/ ps = "pinResponse" /\ pr = "list" /\ S = <<Text("pinOk", None)>> /\ R = <<>> /\ cr = <<>>
  \/ ps = "verify" /\ pr = "list" /\ S = <<>> /\ Pending(R, cr, "pinRequired")
  \/ ps = "verify" /\ pr = "enter" /\ S = <<>> /\ R = <<>>
  \/ /\ ps = "verify" /\ pr = "list" /\ R = <<>> /\ cr = <<>>
     /\ \E x \in {"wrong", "right"} : S = <<Text("pin", x)>>
  \/ ps = "selection" /\ pr = "list" /\ S = <<>> /\ cs = <<>> /\ Pending(R, cr, "list")
  \/ ps = "selection" /\ pr = "select" /\ S = <<>> /\ cs = <<>> /\ R = <<>>
  \/ ps = "selection" /\ pr = "files" /\ Pending(S, cs, "selection") /\ R = <<>>
  \/ ps \in {"next", "stream", "last"} /\ pr \in {"files", "result", "header", "flush"}

InTurn == Turn(pc["sender"], pc["receiver"], Coming("sender"), Coming("receiver"),
               chunks["sender"], chunks["receiver"])

TalkInv ==
  /\ \A e \in Ends : Expect(pc[e], Coming(e), chunks[e])
  /\ conn = "lost" \/ pc["sender"] \in Over \/ pc["receiver"] \in Over \/ InTurn

\* What is said to a peer that hears nothing is all it will hear.
LEMMA Speak ==
  /\ \A ms \in Seq(Messages) : <<>> \o ms = ms
  /\ \A a : Tail(<<a>>) = <<>> /\ Head(<<a>>) = a /\ <<a>> # <<>>
  /\ \A a, b : Tail(<<a, b>>) = <<b>> /\ Head(<<a, b>>) = a /\ <<a, b>> # <<>>
<1>1. ASSUME NEW ms \in Seq(Messages) PROVE <<>> \o ms = ms
  BY Queues
<1> QED
  BY <1>1, Tuples

\* A step of e to p, its peer staying where it is.
LEMMA Talks ==
  ASSUME TypeInv, TalkInv, NEW e \in Ends, NEW p \in Pcs(e), Moves(e, p),
         chunks'[Peer(e)] = chunks[Peer(e)],
         Expect(p, Coming(e)', chunks'[e]),
         Expect(pc[Peer(e)], Coming(Peer(e))', chunks[Peer(e)]),
         conn # "lost" /\ p \notin Over /\ pc[Peer(e)] \notin Over => InTurn'
  PROVE  TalkInv'
<1>1. pc'[e] = p /\ pc'[Peer(e)] = pc[Peer(e)] /\ conn' = conn
  BY Moved
<1>2. \/ e = "sender" /\ Peer(e) = "receiver"
      \/ e = "receiver" /\ Peer(e) = "sender"
  BY Ways
<1>3. \A d \in Ends : d = e \/ d = Peer(e)
  BY Ways
<1>4. ASSUME NEW d \in Ends PROVE Expect(pc'[d], Coming(d)', chunks'[d])
  <2>1. CASE d = e
    BY <1>1, <2>1
  <2>2. CASE d = Peer(e)
    BY <1>1, <2>2
  <2> QED
    BY <1>3, <2>1, <2>2
<1>5. conn' = "lost" \/ pc'["sender"] \in Over \/ pc'["receiver"] \in Over \/ InTurn'
  BY <1>1, <1>2
<1> QED
  BY <1>4, <1>5 DEF TalkInv

\* A prefix of what could come can come.
LEMMA ExpectPrefix ==
  ASSUME NEW p, NEW s \in Seq(Messages), NEW t \in Seq(Messages), NEW c, Expect(p, s \o t, c)
  PROVE  Expect(p, s, c)
<1>1. /\ s \o t = <<>> => s = <<>>
      /\ \A a : s \o t = <<a>> => s = <<>> \/ s = <<a>>
      /\ \A a, b : s \o t = <<a, b>> => s = <<>> \/ s = <<a>> \/ s = <<a, b>>
  BY Prefixes
<1>2. ASSUME NEW kinds, Chunked(s \o t, c, kinds) PROVE Chunked(s, c, kinds)
  BY <1>1, <1>2 DEF Chunked, InChunks
<1> QED
  BY <1>1, <1>2 DEF Expect

\* The only message that comes is read, and the reader replies.
LEMMA Reply ==
  ASSUME TypeInv, NEW e \in Ends, NEW p, Receives(e, p), NEW a, Coming(e) = <<a>>
  PROVE  /\ Message(e) = a
         /\ \A ms \in Seq(Messages) :
              wire' = [wire EXCEPT ![e] = @ \o ms] =>
                 Coming(e)' = <<>> /\ Coming(Peer(e))' = Coming(Peer(e)) \o ms
         /\ wire' = wire => Coming(e)' = <<>> /\ Coming(Peer(e))' = Coming(Peer(e))
<1>1. Tail(Coming(e)) = <<>> /\ Head(Coming(e)) = a
  BY Tuples
<1>2. Message(e) = a
  BY <1>1, Hearing
<1>3. ASSUME NEW ms \in Seq(Messages), wire' = [wire EXCEPT ![e] = @ \o ms]
      PROVE  Coming(e)' = <<>> /\ Coming(Peer(e))' = Coming(Peer(e)) \o ms
  BY <1>1, <1>3, Comes
<1>4. ASSUME wire' = wire
      PROVE  Coming(e)' = <<>> /\ Coming(Peer(e))' = Coming(Peer(e))
  BY <1>1, <1>4, Comes
<1> QED
  BY <1>2, <1>3, <1>4

\* An end that stops without a word.
LEMMA TalkStops ==
  ASSUME TypeInv, TalkInv, NEW e \in Ends, NEW p \in Over, Moves(e, p), wire' = wire,
         inbox' = inbox \/ \E q : Receives(e, q), chunks'[Peer(e)] = chunks[Peer(e)]
  PROVE  TalkInv'
<1>1. Coming(Peer(e))' = Coming(Peer(e))
  BY Comes
<1>2. p \in Pcs(e)
  BY DEF Over, Pcs, SenderPcs, ReceiverPcs
<1>3. Expect(p, Coming(e)', chunks'[e])
  BY DEF Over, Expect
<1>4. Expect(pc[Peer(e)], Coming(Peer(e)), chunks[Peer(e)])
  BY Ways DEF TalkInv
<1> QED
  BY <1>1, <1>2, <1>3, <1>4, Talks

\* The channel opens and the nonces are exchanged.
LEMMA TalkNonce ==
  ASSUME TypeInv, TalkInv, NEW e \in Ends, StartTask(e) \/ ReceiveNonce(e)
  PROVE  TalkInv'
<1>p. /\ {"nonce", "tokenResponse", "failed"} \subseteq Pcs("sender")
      /\ {"nonce", "token", "failed"} \subseteq Pcs("receiver")
      /\ "unexpected" \in Errors
      /\ e = "sender" \/ e = "receiver"
      /\ Peer("sender") = "receiver" /\ Peer("receiver") = "sender"
      /\ "sender" \in Ends /\ "receiver" \in Ends
  BY DEF Pcs, SenderPcs, ReceiverPcs, Ends, Errors, Peer
<1>w. <<Nonce>> \in Seq(Messages) /\ <<Token>> \in Seq(Messages) /\ Nonce.t = "nonce"
  BY MessageFacts DEF Nonce, Token, Plain, Text
<1>i. /\ Expect(pc["sender"], Coming("sender"), chunks["sender"])
      /\ Expect(pc["receiver"], Coming("receiver"), chunks["receiver"])
      /\ conn = "lost" \/ pc["sender"] \in Over \/ pc["receiver"] \in Over \/ InTurn
  BY DEF TalkInv, Ends
<1>c. chunks' = chunks
  BY DEF StartTask, ReceiveNonce
<1>1. CASE StartTask(e) /\ e = "sender"
  <2>1. /\ Say("sender", <<Nonce>>, "nonce") /\ conn = "up" /\ pc["sender"] = "channel" /\ inbox' = inbox
        /\ wire' = [wire EXCEPT !["sender"] = @ \o <<Nonce>>]
    BY <1>1 DEF StartTask, Nonce, Say
  <2>2. Coming("sender")' = Coming("sender") /\ Coming("receiver")' = Coming("receiver") \o <<Nonce>>
    BY <1>p, <1>w, <2>1, Comes
  <2>3. \/ pc["receiver"] \in Over
        \/ /\ pc["receiver"] \in {"channel", "nonce"} /\ Coming("sender") = <<>>
           /\ Coming("receiver")' = <<Nonce>>
    BY <1>i, <1>w, <2>1, <2>2, Speak DEF InTurn, Turn, Over
  <2>4. Expect("nonce", Coming("sender")', chunks'["sender"])
    BY <1>i, <1>c, <2>1, <2>2 DEF Expect, Over
  <2>5. Expect(pc["receiver"], Coming("receiver")', chunks["receiver"])
    BY <1>i, <2>3 DEF Expect, Over
  <2>6. Moves("sender", "nonce")
    BY <1>w, <2>1 DEF Moves
  <2>7. pc'["sender"] = "nonce" /\ pc'["receiver"] = pc["receiver"]
    BY <1>p, <2>6, Moved
  <2>8. pc["receiver"] \notin Over => InTurn'
    BY <2>2, <2>3, <2>7 DEF InTurn, Turn
  <2> QED
    BY <1>p, <1>c, <2>4, <2>5, <2>6, <2>8, Talks
<1>2. CASE StartTask(e) /\ e = "receiver"
  <2>1. /\ Quietly("receiver", "nonce") /\ pc["receiver"] = "channel" /\ inbox' = inbox /\ wire' = wire
    BY <1>2 DEF StartTask, Quietly
  <2>2. Coming("sender")' = Coming("sender") /\ Coming("receiver")' = Coming("receiver")
    BY <1>p, <2>1, Comes
  <2>4. Expect("nonce", Coming("receiver")', chunks'["receiver"])
    BY <1>i, <1>c, <2>1, <2>2 DEF Expect, Over
  <2>6. Moves("receiver", "nonce")
    BY <2>1 DEF Moves
  <2>7. pc'["receiver"] = "nonce" /\ pc'["sender"] = pc["sender"]
    BY <1>p, <2>6, Moved
  <2>8. conn # "lost" /\ pc["sender"] \notin Over => InTurn'
    BY <1>i, <2>1, <2>2, <2>7 DEF InTurn, Turn, Over
  <2> QED
    BY <1>p, <1>i, <1>c, <2>2, <2>4, <2>6, <2>8, Talks
<1>3. CASE ReceiveNonce(e) /\ e = "sender"
  <2>0. /\ pc["sender"] = "nonce" /\ Receives("sender", "nonce")
        /\ Coming("sender") # <<>> /\ Head(Coming("sender")) = Message("sender")
    BY <1>3, Hearing DEF ReceiveNonce, Receives
  <2>a. Coming("sender") = <<Nonce>> /\ Message("sender").t = "nonce"
    BY <1>i, <1>w, <2>0, Speak DEF Expect
  <2>1. /\ Say("sender", <<Token>>, "tokenResponse") /\ conn = "up"
        /\ wire' = [wire EXCEPT !["sender"] = @ \o <<Token>>]
    BY <1>3, <2>a DEF ReceiveNonce, Say, Token
  <2>2. Coming("sender")' = <<>> /\ Coming("receiver")' = Coming("receiver") \o <<Token>>
    BY <1>p, <1>w, <2>0, <2>1, <2>a, Reply
  <2>3. \/ pc["receiver"] \in Over
        \/ pc["receiver"] = "token" /\ Coming("receiver")' = <<Token>>
    BY <1>i, <1>w, <2>0, <2>1, <2>a, <2>2, Speak DEF InTurn, Turn, Over
  <2>4. Expect("tokenResponse", Coming("sender")', chunks'["sender"])
    BY <1>i, <1>c, <2>0, <2>2 DEF Expect, Over
  <2>5. Expect(pc["receiver"], Coming("receiver")', chunks["receiver"])
    BY <1>i, <2>3 DEF Expect, Over
  <2>6. Moves("sender", "tokenResponse")
    BY <1>w, <2>1 DEF Moves
  <2>7. pc'["sender"] = "tokenResponse" /\ pc'["receiver"] = pc["receiver"]
    BY <1>p, <2>6, Moved
  <2>8. pc["receiver"] \notin Over => InTurn'
    BY <2>2, <2>3, <2>7 DEF InTurn, Turn
  <2> QED
    BY <1>p, <1>c, <2>4, <2>5, <2>6, <2>8, Talks
<1>4. CASE ReceiveNonce(e) /\ e = "receiver"
  <2>0. /\ pc["receiver"] = "nonce" /\ Receives("receiver", "nonce")
        /\ Coming("receiver") # <<>> /\ Head(Coming("receiver")) = Message("receiver")
    BY <1>4, Hearing DEF ReceiveNonce, Receives
  <2>a. Coming("receiver") = <<Nonce>> /\ Message("receiver").t = "nonce"
    BY <1>i, <1>w, <2>0, Speak DEF Expect
  <2>1. /\ Say("receiver", <<Nonce>>, "token") /\ conn = "up"
        /\ wire' = [wire EXCEPT !["receiver"] = @ \o <<Nonce>>]
    BY <1>4, <2>a DEF ReceiveNonce, Say, Nonce
  <2>2. Coming("receiver")' = <<>> /\ Coming("sender")' = Coming("sender") \o <<Nonce>>
    BY <1>p, <1>w, <2>0, <2>1, <2>a, Reply
  <2>3. \/ pc["sender"] \in Over
        \/ pc["sender"] = "nonce" /\ Coming("sender")' = <<Nonce>>
    BY <1>i, <1>w, <2>0, <2>1, <2>a, <2>2, Speak DEF InTurn, Turn, Over
  <2>4. Expect("token", Coming("receiver")', chunks'["receiver"])
    BY <1>i, <1>c, <2>0, <2>2 DEF Expect, Over
  <2>5. Expect(pc["sender"], Coming("sender")', chunks["sender"])
    BY <1>i, <2>3 DEF Expect, Over
  <2>6. Moves("receiver", "token")
    BY <1>w, <2>1 DEF Moves
  <2>7. pc'["receiver"] = "token" /\ pc'["sender"] = pc["sender"]
    BY <1>p, <2>6, Moved
  <2>8. pc["sender"] \notin Over => InTurn'
    BY <2>2, <2>3, <2>7 DEF InTurn, Turn
  <2> QED
    BY <1>p, <1>c, <2>4, <2>5, <2>6, <2>8, Talks
<1> QED
  BY <1>1, <1>2, <1>3, <1>4, <1>p

\* The tokens.
LEMMA TalkToken ==
  ASSUME TypeInv, TalkInv, ReceiveToken
  PROVE  TalkInv'
<1>p. /\ {"verify", "list", "failed"} \subseteq Pcs("receiver")
      /\ {"unexpected", "signature"} \subseteq Errors
      /\ Peer("sender") = "receiver" /\ Peer("receiver") = "sender"
      /\ "sender" \in Ends /\ "receiver" \in Ends
  BY DEF Pcs, SenderPcs, ReceiverPcs, Ends, Errors, Peer
<1>w. \A x \in {"ok", "pin", "invalid"} : <<Text("tokenResponse", x)>> \in Seq(Messages)
  BY MessageFacts
<1>i. /\ Expect(pc["sender"], Coming("sender"), chunks["sender"])
      /\ Expect(pc["receiver"], Coming("receiver"), chunks["receiver"])
      /\ conn = "lost" \/ pc["sender"] \in Over \/ pc["receiver"] \in Over \/ InTurn
  BY DEF TalkInv, Ends
<1>1. /\ pc["receiver"] = "token" /\ Receives("receiver", "token") /\ chunks' = chunks
      /\ Coming("receiver") # <<>>
  BY <1>p, Hearing DEF ReceiveToken, Receives
<1>2. Coming("receiver") = <<Token>> /\ chunks["receiver"] = <<>>
  BY <1>i, <1>1 DEF Expect, Over
<1>3. Message("receiver").t = "token"
  BY <1>p, <1>1, <1>2, Reply DEF Token, Text
<1>4. conn = "up" => \/ pc["sender"] \in Over
                     \/ pc["sender"] = "tokenResponse" /\ Coming("sender") = <<>>
  BY <1>i, <1>1, <1>2 DEF InTurn, Turn, Over
<1>5. ASSUME NEW x \in {"ok", "pin", "invalid"}, NEW p \in {"verify", "list", "failed"},
             Moves("receiver", p), conn = "up",
             wire' = [wire EXCEPT !["receiver"] = @ \o <<Text("tokenResponse", x)>>],
             x = "ok" \/ p # "list", x = "pin" \/ p # "verify"
      PROVE  TalkInv'
  <2>1. /\ Coming("receiver")' = <<>>
        /\ Coming("sender")' = Coming("sender") \o <<Text("tokenResponse", x)>>
    BY <1>p, <1>w, <1>1, <1>2, <1>5, Reply
  <2>2. \/ pc["sender"] \in Over
        \/ pc["sender"] = "tokenResponse" /\ Coming("sender")' = <<Text("tokenResponse", x)>>
    BY <1>4, <1>5, <1>w, <2>1, Speak
  <2>3. Expect(p, Coming("receiver")', chunks'["receiver"])
    BY <1>1, <1>2, <1>5, <2>1 DEF Expect, Chunked
  <2>4. Expect(pc["sender"], Coming("sender")', chunks["sender"])
    BY <1>i, <2>2 DEF Expect, Over
  <2>5. pc'["receiver"] = p /\ pc'["sender"] = pc["sender"]
    BY <1>p, <1>5, Moved
  <2>6. p \notin Over /\ pc["sender"] \notin Over => InTurn'
    BY <1>1, <1>2, <1>5, <2>1, <2>2, <2>5 DEF InTurn, Turn, Over
  <2> QED
    BY <1>p, <1>1, <1>5, <2>3, <2>4, <2>6, Talks
<1>6. \/ Say("receiver", <<Text("tokenResponse", "pin")>>, "verify")
      \/ Say("receiver", <<Text("tokenResponse", "ok")>>, "list")
      \/ LastWords("receiver", <<Text("tokenResponse", "invalid")>>, "signature")
  BY <1>3 DEF ReceiveToken
<1>7. CASE Say("receiver", <<Text("tokenResponse", "pin")>>, "verify")
  <2>1. Moves("receiver", "verify")
    BY <1>7, <1>w DEF Moves
  <2> QED
    BY <1>5, <1>7, <2>1 DEF Say
<1>8. CASE Say("receiver", <<Text("tokenResponse", "ok")>>, "list")
  <2>1. Moves("receiver", "list")
    BY <1>8, <1>w DEF Moves
  <2> QED
    BY <1>5, <1>8, <2>1 DEF Say
<1>9. CASE LastWords("receiver", <<Text("tokenResponse", "invalid")>>, "signature")
  <2>1. Moves("receiver", "failed")
    BY <1>9, <1>w, <1>p DEF Moves
  <2> QED
    BY <1>5, <1>9, <2>1 DEF LastWords
<1> QED
  BY <1>6, <1>7, <1>8, <1>9

\* The sender reads the response to its token, or to its PIN.
LEMMA TalkResponse ==
  ASSUME TypeInv, TalkInv, ReceiveTokenResponse \/ ReceivePinResponse
  PROVE  TalkInv'
<1>p. /\ {"enter", "verify", "selection", "failed"} \subseteq Pcs("sender")
      /\ {"unexpected", "signature", "tooMany"} \subseteq Errors
      /\ Peer("sender") = "receiver" /\ Peer("receiver") = "sender"
      /\ "sender" \in Ends /\ "receiver" \in Ends
  BY DEF Pcs, SenderPcs, ReceiverPcs, Ends, Errors, Peer
<1>w. /\ \A t \in {"pinRequired", "list"} : InChunks(t, None) \in Seq(Messages)
      /\ \A a, b : <<a>> = <<b>> => a = b
  BY MessageFacts, Tuples DEF Long
<1>i. /\ Expect(pc["sender"], Coming("sender"), chunks["sender"])
      /\ Expect(pc["receiver"], Coming("receiver"), chunks["receiver"])
      /\ conn = "lost" \/ pc["sender"] \in Over \/ pc["receiver"] \in Over \/ InTurn
  BY DEF TalkInv, Ends
<1>1. /\ pc["sender"] \in {"tokenResponse", "pinResponse"} /\ Receives("sender", pc["sender"])
      /\ chunks' = chunks /\ Coming("sender") # <<>>
  BY <1>p, Hearing DEF ReceiveTokenResponse, ReceivePinResponse, Receives
<1>2. PICK m : Coming("sender") = <<m>>
  BY <1>i, <1>1 DEF Expect
<1>3. Message("sender") = m /\ chunks["sender"] = <<>>
  BY <1>p, <1>i, <1>1, <1>2, Reply DEF Expect, Over
<1>4. \/ \E why \in Errors : Fail("sender", why)
      \/ /\ Quietly("sender", "enter")
         /\ \/ pc["sender"] = "tokenResponse" /\ m.x = "pin"
            \/ pc["sender"] = "pinResponse" /\ m = Text("pinRequired", None)
      \/ /\ SenderVerifies
         /\ \/ pc["sender"] = "tokenResponse" /\ m.x = "ok"
            \/ pc["sender"] = "pinResponse" /\ m = Text("pinOk", None)
  <2>1. CASE ReceiveTokenResponse
    BY <1>3, <1>p, <2>1 DEF ReceiveTokenResponse, Receives
  <2>2. CASE ReceivePinResponse
    BY <1>3, <1>p, <2>2 DEF ReceivePinResponse, Receives
  <2> QED
    BY <2>1, <2>2
<1>5. CASE \E why \in Errors : Fail("sender", why)
  <2>1. Moves("sender", "failed") /\ wire' = wire
    BY <1>5 DEF Moves, Fail
  <2> QED
    BY <1>p, <1>1, <2>1, TalkStops DEF Over
<1>6. CASE /\ Quietly("sender", "enter")
           /\ \/ pc["sender"] = "tokenResponse" /\ m.x = "pin"
              \/ pc["sender"] = "pinResponse" /\ m = Text("pinRequired", None)
  <2>1. Moves("sender", "enter") /\ wire' = wire
    BY <1>6 DEF Moves, Quietly
  <2>2. Coming("sender")' = <<>> /\ Coming("receiver")' = Coming("receiver")
    BY <1>p, <1>1, <1>2, <2>1, Reply
  <2>3. conn # "lost" => \/ pc["receiver"] \in Over
                         \/ pc["receiver"] = "verify" /\ Coming("receiver") = <<>>
    <3>1. Text("tokenResponse", "ok").x # "pin" /\ Text("pinOk", None) # Text("pinRequired", None)
      BY DEF Text
    <3> QED
      BY <1>i, <1>1, <1>2, <1>6, <1>w, <3>1, Speak DEF InTurn, Turn, Over
  <2>4. Expect("enter", Coming("sender")', chunks'["sender"])
    BY <1>1, <1>3, <2>2 DEF Expect
  <2>5. pc'["sender"] = "enter" /\ pc'["receiver"] = pc["receiver"]
    BY <1>p, <2>1, Moved
  <2>6. conn # "lost" /\ pc["receiver"] \notin Over => InTurn'
    BY <2>2, <2>3, <2>5 DEF InTurn, Turn
  <2> QED
    BY <1>p, <1>i, <1>1, <2>1, <2>2, <2>4, <2>6, Talks
<1>7. CASE /\ SenderVerifies
           /\ \/ pc["sender"] = "tokenResponse" /\ m.x = "ok"
              \/ pc["sender"] = "pinResponse" /\ m = Text("pinOk", None)
  <2>1. PICK t \in {"pinRequired", "list"}, p \in {"verify", "selection"} :
          /\ Say("sender", InChunks(t, None), p)
          /\ t = "pinRequired" <=> p = "verify"
          /\ t = "list" <=> p = "selection"
    BY <1>7 DEF SenderVerifies
  <2>2. Moves("sender", p) /\ wire' = [wire EXCEPT !["sender"] = @ \o InChunks(t, None)] /\ conn = "up"
    BY <1>w, <2>1 DEF Moves, Say
  <2>3. Coming("sender")' = <<>> /\ Coming("receiver")' = Coming("receiver") \o InChunks(t, None)
    BY <1>p, <1>w, <1>1, <1>2, <2>2, Reply
  <2>4. \/ pc["receiver"] \in Over
        \/ pc["receiver"] = "list" /\ Coming("receiver") = <<>> /\ chunks["receiver"] = <<>>
    <3>1. Text("tokenResponse", "pin").x # "ok" /\ Text("pinOk", None) # Text("pinRequired", None)
      BY DEF Text
    <3> QED
      BY <1>i, <1>1, <1>2, <1>7, <1>w, <2>2, <3>1, Speak DEF InTurn, Turn, Over
  <2>5. \/ pc["receiver"] \in Over
        \/ /\ pc["receiver"] = "list" /\ Coming("receiver")' = InChunks(t, None)
           /\ chunks["receiver"] = <<>>
    BY <1>w, <2>3, <2>4, Speak
  <2>6. Expect(p, Coming("sender")', chunks'["sender"])
    BY <1>1, <1>3, <2>1, <2>3 DEF Expect, Chunked
  <2>7. Expect(pc["receiver"], Coming("receiver")', chunks["receiver"])
    BY <2>1, <2>5 DEF Expect, Chunked, Over
  <2>8. pc'["sender"] = p /\ pc'["receiver"] = pc["receiver"]
    BY <1>p, <2>2, Moved
  <2>9. pc["receiver"] \notin Over => InTurn'
    BY <1>1, <1>3, <2>1, <2>3, <2>5, <2>8 DEF InTurn, Turn, Pending
  <2> QED
    BY <1>p, <1>1, <2>2, <2>6, <2>7, <2>9, Talks
<1> QED
  BY <1>4, <1>5, <1>6, <1>7

\* A PIN is entered, at either end.
LEMMA TalkEnter ==
  ASSUME TypeInv, TalkInv, NEW e \in Ends, EnterPin(e)
  PROVE  TalkInv'
<1>p. /\ {"pinResponse", "failed"} \subseteq Pcs("sender") /\ "list" \in Pcs("receiver")
      /\ "user" \in Errors
      /\ Peer("sender") = "receiver" /\ Peer("receiver") = "sender"
      /\ "sender" \in Ends /\ "receiver" \in Ends
      /\ e = "sender" \/ e = "receiver"
  BY DEF Pcs, SenderPcs, ReceiverPcs, Ends, Errors, Peer
<1>w. \A x \in {"wrong", "right"} : <<Text("pin", x)>> \in Seq(Messages)
  BY MessageFacts
<1>i. /\ Expect(pc["sender"], Coming("sender"), chunks["sender"])
      /\ Expect(pc["receiver"], Coming("receiver"), chunks["receiver"])
      /\ conn = "lost" \/ pc["sender"] \in Over \/ pc["receiver"] \in Over \/ InTurn
  BY DEF TalkInv, Ends
<1>1. pc[e] = "enter" /\ UNCHANGED <<inbox, chunks>>
  BY DEF EnterPin
<1>2. Coming(e) = <<>> /\ chunks[e] = <<>>
  BY <1>1 DEF TalkInv, Expect, Over
<1>3. CASE Fail(e, "user")
  <2>1. Moves(e, "failed") /\ wire' = wire
    BY <1>3, <1>p DEF Moves, Fail
  <2> QED
    BY <1>1, <2>1, TalkStops DEF Over
<1>4. ASSUME NEW x \in {"wrong", "right"}, e = "sender", Say("sender", <<Text("pin", x)>>, "pinResponse")
      PROVE  TalkInv'
  <2>1. /\ Moves("sender", "pinResponse") /\ conn = "up"
        /\ wire' = [wire EXCEPT !["sender"] = @ \o <<Text("pin", x)>>]
    BY <1>4, <1>w DEF Moves, Say
  <2>2. Coming("sender")' = <<>> /\ Coming("receiver")' = Coming("receiver") \o <<Text("pin", x)>>
    BY <1>p, <1>w, <1>1, <1>2, <1>4, <2>1, Comes
  <2>3. \/ pc["receiver"] \in Over
        \/ pc["receiver"] = "verify" /\ Coming("receiver")' = <<Text("pin", x)>>
    BY <1>i, <1>w, <1>1, <1>4, <2>1, <2>2, Speak DEF InTurn, Turn, Over
  <2>4. Expect("pinResponse", Coming("sender")', chunks'["sender"])
    BY <1>1, <1>2, <1>4, <2>2 DEF Expect
  <2>5. Expect(pc["receiver"], Coming("receiver")', chunks["receiver"])
    BY <1>i, <2>3 DEF Expect, Over
  <2>6. pc'["sender"] = "pinResponse" /\ pc'["receiver"] = pc["receiver"]
    BY <1>p, <2>1, Moved
  <2>7. pc["receiver"] \notin Over => InTurn'
    BY <2>2, <2>3, <2>6 DEF InTurn, Turn
  <2> QED
    BY <1>p, <1>1, <2>1, <2>4, <2>5, <2>7, Talks
<1>5. ASSUME NEW x \in {"wrong", "right"}, e = "receiver", Say("receiver", <<Text("pin", x)>>, "list")
      PROVE  TalkInv'
  <2>1. /\ Moves("receiver", "list") /\ conn = "up"
        /\ wire' = [wire EXCEPT !["receiver"] = @ \o <<Text("pin", x)>>]
    BY <1>5, <1>w DEF Moves, Say
  <2>2. Coming("receiver")' = <<>> /\ Coming("sender")' = Coming("sender") \o <<Text("pin", x)>>
    BY <1>p, <1>w, <1>1, <1>2, <1>5, <2>1, Comes
  <2>3. \/ pc["sender"] \in Over
        \/ pc["sender"] = "verify" /\ Coming("sender")' = <<Text("pin", x)>>
    BY <1>i, <1>w, <1>1, <1>5, <2>1, <2>2, Speak DEF InTurn, Turn, Over
  <2>4. Expect("list", Coming("receiver")', chunks'["receiver"])
    BY <1>1, <1>2, <1>5, <2>2 DEF Expect, Chunked
  <2>5. Expect(pc["sender"], Coming("sender")', chunks["sender"])
    BY <1>i, <2>3 DEF Expect, Over
  <2>6. pc'["receiver"] = "list" /\ pc'["sender"] = pc["sender"]
    BY <1>p, <2>1, Moved
  <2>7. pc["sender"] \notin Over => InTurn'
    BY <1>1, <1>2, <1>5, <2>2, <2>3, <2>6 DEF InTurn, Turn
  <2> QED
    BY <1>p, <1>1, <2>1, <2>4, <2>5, <2>7, Talks
<1> QED
  BY <1>3, <1>4, <1>5, <1>p DEF EnterPin

\* A PIN is verified, at either end.
LEMMA TalkVerify ==
  ASSUME TypeInv, TalkInv, NEW e \in Ends, VerifyPin(e)
  PROVE  TalkInv'
<1>p. /\ {"verify", "selection", "failed"} \subseteq Pcs("sender")
      /\ {"verify", "list", "failed"} \subseteq Pcs("receiver")
      /\ {"tooMany", "unexpected"} \subseteq Errors
      /\ Peer("sender") = "receiver" /\ Peer("receiver") = "sender"
      /\ "sender" \in Ends /\ "receiver" \in Ends
      /\ e = "sender" \/ e = "receiver"
  BY DEF Pcs, SenderPcs, ReceiverPcs, Ends, Errors, Peer
<1>w. /\ \A t \in {"pinOk", "pinRequired", "tooMany"} : <<Text(t, None)>> \in Seq(Messages)
      /\ \A t \in {"list", "pinRequired", "tooMany"} : InChunks(t, None) \in Seq(Messages)
      /\ \A a, b : <<a>> = <<b>> => a = b
  BY MessageFacts, Tuples DEF Plain, Long
<1>i. /\ Expect(pc["sender"], Coming("sender"), chunks["sender"])
      /\ Expect(pc["receiver"], Coming("receiver"), chunks["receiver"])
      /\ conn = "lost" \/ pc["sender"] \in Over \/ pc["receiver"] \in Over \/ InTurn
  BY DEF TalkInv, Ends
<1>1. pc[e] = "verify" /\ Receives(e, "verify") /\ chunks' = chunks /\ Coming(e) # <<>>
  BY Hearing DEF VerifyPin, Receives
<1>2. PICK x \in {"wrong", "right"} : Coming(e) = <<Text("pin", x)>>
  BY <1>1 DEF TalkInv, Expect
<1>3. Message(e) = Text("pin", x) /\ chunks[e] = <<>>
  BY <1>1, <1>2, Reply DEF TalkInv, Expect, Over
<1>4. Message(e).t = "pin" /\ Message(e).x = x
  BY <1>3 DEF Text
<1>5. \/ e = "receiver" /\ Say(e, Verdict(e, "pinOk"), "list")
      \/ e # "receiver" /\ Say(e, InChunks("list", None), "selection")
      \/ Say(e, Verdict(e, "pinRequired"), "verify")
      \/ LastWords(e, Verdict(e, "tooMany"), "tooMany")
  <2>1. tries[e] + 1 < MaxTries \/ tries[e] + 1 >= MaxTries
    BY ConstantsAssumption DEF TypeInv, ChannelType
  <2> QED
    BY <1>4, <2>1 DEF VerifyPin
<1>6. ASSUME e = "receiver", NEW t \in {"pinOk", "pinRequired", "tooMany"},
             NEW p \in {"list", "verify", "failed"}, Moves("receiver", p), conn = "up",
             wire' = [wire EXCEPT !["receiver"] = @ \o <<Text(t, None)>>],
             t = "pinOk" \/ p # "list", t = "pinRequired" \/ p # "verify"
      PROVE  TalkInv'
  <2>1. Coming("receiver")' = <<>> /\ Coming("sender")' = Coming("sender") \o <<Text(t, None)>>
    BY <1>p, <1>w, <1>1, <1>2, <1>6, Reply
  <2>2. \/ pc["sender"] \in Over
        \/ pc["sender"] = "pinResponse" /\ Coming("sender")' = <<Text(t, None)>>
    <3>1. <<Text("pin", x)>> # <<>>
      BY Tuples
    <3> QED
      BY <1>i, <1>w, <1>1, <1>2, <1>6, <2>1, <3>1, Speak DEF InTurn, Turn, Over
  <2>3. Expect(p, Coming("receiver")', chunks'["receiver"])
    BY <1>1, <1>3, <1>6, <2>1 DEF Expect, Chunked
  <2>4. Expect(pc["sender"], Coming("sender")', chunks["sender"])
    BY <1>i, <2>2 DEF Expect, Over
  <2>5. pc'["receiver"] = p /\ pc'["sender"] = pc["sender"]
    BY <1>p, <1>6, Moved
  <2>6. p \notin Over /\ pc["sender"] \notin Over => InTurn'
    BY <1>1, <1>3, <1>6, <2>1, <2>2, <2>5 DEF InTurn, Turn, Over
  <2> QED
    BY <1>p, <1>1, <1>6, <2>3, <2>4, <2>6, Talks
<1>7. ASSUME e = "sender", NEW t \in {"list", "pinRequired", "tooMany"},
             NEW p \in {"selection", "verify", "failed"}, Moves("sender", p), conn = "up",
             wire' = [wire EXCEPT !["sender"] = @ \o InChunks(t, None)],
             t = "list" \/ p # "selection", t = "pinRequired" \/ p # "verify"
      PROVE  TalkInv'
  <2>1. Coming("sender")' = <<>> /\ Coming("receiver")' = Coming("receiver") \o InChunks(t, None)
    BY <1>p, <1>w, <1>1, <1>2, <1>7, Reply
  <2>2. \/ pc["receiver"] \in Over
        \/ /\ pc["receiver"] = "list" /\ Coming("receiver")' = InChunks(t, None)
           /\ chunks["receiver"] = <<>>
    <3>1. <<Text("pin", x)>> # <<>>
      BY Tuples
    <3> QED
      BY <1>i, <1>w, <1>1, <1>2, <1>7, <2>1, <3>1, Speak DEF InTurn, Turn, Over
  <2>3. Expect(p, Coming("sender")', chunks'["sender"])
    BY <1>1, <1>3, <1>7, <2>1 DEF Expect, Chunked
  <2>4. Expect(pc["receiver"], Coming("receiver")', chunks["receiver"])
    BY <1>i, <2>2 DEF Expect, Chunked, Over
  <2>5. pc'["sender"] = p /\ pc'["receiver"] = pc["receiver"]
    BY <1>p, <1>7, Moved
  <2>6. p \notin Over /\ pc["receiver"] \notin Over => InTurn'
    BY <1>1, <1>3, <1>7, <2>1, <2>2, <2>5 DEF InTurn, Turn, Over, Pending
  <2> QED
    BY <1>p, <1>1, <1>7, <2>3, <2>4, <2>6, Talks
<1>8. CASE e = "receiver"
  <2>1. \E t \in {"pinOk", "pinRequired", "tooMany"}, p \in {"list", "verify", "failed"} :
          /\ Moves("receiver", p) /\ conn = "up"
          /\ wire' = [wire EXCEPT !["receiver"] = @ \o <<Text(t, None)>>]
          /\ t = "pinOk" \/ p # "list"
          /\ t = "pinRequired" \/ p # "verify"
    <3>1. CASE Say(e, <<Text("pinOk", None)>>, "list")
      BY <1>8, <1>w, <3>1 DEF Moves, Say
    <3>2. CASE Say(e, <<Text("pinRequired", None)>>, "verify")
      BY <1>8, <1>w, <3>2 DEF Moves, Say
    <3>3. CASE LastWords(e, <<Text("tooMany", None)>>, "tooMany")
      BY <1>8, <1>p, <1>w, <3>3 DEF Moves, LastWords
    <3> QED
      BY <1>5, <1>8, <3>1, <3>2, <3>3 DEF Verdict
  <2> QED
    BY <1>6, <1>8, <2>1
<1>9. CASE e = "sender"
  <2>1. \E t \in {"list", "pinRequired", "tooMany"}, p \in {"selection", "verify", "failed"} :
          /\ Moves("sender", p) /\ conn = "up"
          /\ wire' = [wire EXCEPT !["sender"] = @ \o InChunks(t, None)]
          /\ t = "list" \/ p # "selection"
          /\ t = "pinRequired" \/ p # "verify"
    <3>1. CASE Say(e, InChunks("list", None), "selection")
      BY <1>9, <1>w, <3>1 DEF Moves, Say
    <3>2. CASE Say(e, InChunks("pinRequired", None), "verify")
      BY <1>9, <1>w, <3>2 DEF Moves, Say
    <3>3. CASE LastWords(e, InChunks("tooMany", None), "tooMany")
      BY <1>9, <1>p, <1>w, <3>3 DEF Moves, LastWords
    <3> QED
      BY <1>5, <1>9, <3>1, <3>2, <3>3 DEF Verdict
  <2> QED
    BY <1>7, <1>9, <2>1
<1> QED
  BY <1>p, <1>8, <1>9

\* Strings are read in chunks.
LEMMA Reading ==
  ASSUME TypeInv, NEW e \in Ends, NEW p, Receives(e, p), NEW kinds,
         Chunked(Coming(e), chunks[e], kinds)
  PROVE  /\ Message(e).bin => \E t \in kinds :
              /\ Message(e) = Binary(t, None) /\ chunks[e] = <<>>
              /\ \/ Coming(e) = <<Binary(t, None)>> /\ Tail(Coming(e)) = <<>>
                 \/ Coming(e) = InChunks(t, None) /\ Tail(Coming(e)) = <<Delimiter>>
         /\ ~Message(e).bin => \E t \in kinds :
              /\ chunks[e] = <<Binary(t, None)>> /\ Coming(e) = <<Delimiter>>
              /\ Tail(Coming(e)) = <<>> /\ Parsed(e) = t
<1>1. Coming(e) # <<>> /\ Head(Coming(e)) = Message(e)
  BY Hearing
<1>2. /\ \A t : Binary(t, None).bin = TRUE /\ Binary(t, None).t = t
      /\ Delimiter.bin = FALSE
  BY DEF Binary, Delimiter, Text
<1>3. PICK t \in kinds :
        \/ chunks[e] = <<>> /\ Coming(e) = <<Binary(t, None)>>
        \/ chunks[e] = <<>> /\ Coming(e) = <<Binary(t, None), Delimiter>>
        \/ chunks[e] = <<Binary(t, None)>> /\ Coming(e) = <<Delimiter>>
  BY <1>1 DEF Chunked, InChunks
<1>4. CASE chunks[e] = <<>> /\ Coming(e) = <<Binary(t, None)>>
  <2>1. Message(e) = Binary(t, None) /\ Tail(Coming(e)) = <<>>
    BY <1>1, <1>4, Tuples
  <2> QED
    BY <1>2, <1>4, <2>1
<1>5. CASE chunks[e] = <<>> /\ Coming(e) = <<Binary(t, None), Delimiter>>
  <2>1. Message(e) = Binary(t, None) /\ Tail(Coming(e)) = <<Delimiter>>
    BY <1>1, <1>5, Tuples
  <2> QED
    BY <1>2, <1>5, <2>1 DEF InChunks
<1>6. CASE chunks[e] = <<Binary(t, None)>> /\ Coming(e) = <<Delimiter>>
  <2>1. Message(e) = Delimiter /\ Tail(Coming(e)) = <<>>
    BY <1>1, <1>6, Tuples
  <2>2. Len(chunks[e]) = 1 /\ chunks[e][1] = Binary(t, None)
    BY <1>6, Tuples
  <2>3. Parsed(e) = t
    BY <1>2, <2>2 DEF Parsed
  <2> QED
    BY <1>2, <1>6, <2>1, <2>3
<1> QED
  BY <1>3, <1>4, <1>5, <1>6

\* A chunk of a string is collected.
LEMMA TalkCollect ==
  ASSUME TypeInv, TalkInv, Collect("sender", "selection") \/ Collect("receiver", "list")
  PROVE  TalkInv'
<1>p. /\ "selection" \in Pcs("sender") /\ "list" \in Pcs("receiver")
      /\ Peer("sender") = "receiver" /\ Peer("receiver") = "sender"
      /\ "sender" \in Ends /\ "receiver" \in Ends
  BY DEF Pcs, SenderPcs, ReceiverPcs, Ends, Errors, Peer
<1>w. /\ \A a : Append(<<>>, a) = <<a>> /\ <<a>> # <<>>
      /\ \A a, b : <<a>> = <<b>> => a = b
      /\ \A a, b, c : <<a, b>> # <<c>>
      /\ \A a, b, c, d : <<a, b>> = <<c, d>> => a = c
      /\ \A t : Binary(t, None) # Delimiter /\ Binary(t, None).t = t
  BY Tuples DEF Binary, Delimiter, Text
<1>i. /\ Expect(pc["sender"], Coming("sender"), chunks["sender"])
      /\ Expect(pc["receiver"], Coming("receiver"), chunks["receiver"])
      /\ conn = "lost" \/ pc["sender"] \in Over \/ pc["receiver"] \in Over \/ InTurn
  BY DEF TalkInv, Ends
<1>1. CASE Collect("sender", "selection")
  <2>1. /\ pc["sender"] = "selection" /\ Receives("sender", "selection") /\ Message("sender").bin
        /\ Moves("sender", "selection") /\ wire' = wire
        /\ chunks' = [chunks EXCEPT !["sender"] = Append(@, Message("sender"))]
    BY <1>1 DEF Collect, Receives, Moves, Quietly
  <2>2. Chunked(Coming("sender"), chunks["sender"], {"selection", "declined"})
    BY <1>i, <2>1 DEF Expect
  <2>3. PICK t \in {"selection", "declined"} :
              /\ Message("sender") = Binary(t, None) /\ chunks["sender"] = <<>>
              /\ \/ Coming("sender") = <<Binary(t, None)>> /\ Tail(Coming("sender")) = <<>>
                 \/ Coming("sender") = InChunks(t, None) /\ Tail(Coming("sender")) = <<Delimiter>>
    BY <1>p, <2>1, <2>2, Reading
  <2>4. Coming("sender")' = Tail(Coming("sender")) /\ Coming("receiver")' = Coming("receiver")
    BY <1>p, <2>1, Comes
  <2>5. chunks'["sender"] = <<Binary(t, None)>> /\ chunks'["receiver"] = chunks["receiver"]
    BY <1>p, <1>w, <2>1, <2>3 DEF TypeInv, ChannelType
  <2>6. Expect("selection", Coming("sender")', chunks'["sender"])
    BY <2>3, <2>4, <2>5 DEF Expect, Chunked, Over
  <2>7. pc'["sender"] = "selection" /\ pc'["receiver"] = pc["receiver"]
    BY <1>p, <2>1, Moved
  <2>8. conn # "lost" /\ pc["receiver"] \notin Over => InTurn'
    <3>1. SUFFICES ASSUME conn # "lost", pc["receiver"] \notin Over PROVE InTurn'
      OBVIOUS
    <3>2. /\ pc["receiver"] = "files" /\ Coming("receiver") = <<>>
          /\ Coming("sender") = InChunks("selection", None)
      <4>1. Coming("sender") # <<>>
        BY <1>w, <2>3, Tuples DEF InChunks
      <4> QED
        BY <1>i, <1>w, <2>1, <2>3, <3>1, <4>1 DEF InTurn, Turn, Over, Pending
    <3>3. t = "selection" /\ Coming("sender")' = <<Delimiter>>
      <4>1. Coming("sender") # <<Binary(t, None)>>
        BY <1>w, <3>2 DEF InChunks
      <4>2. Coming("sender") = InChunks(t, None) /\ Tail(Coming("sender")) = <<Delimiter>>
        BY <2>3, <4>1
      <4>3. Binary(t, None) = Binary("selection", None)
        BY <1>w, <3>2, <4>2 DEF InChunks
      <4>4. t = "selection"
        BY <4>3 DEF Binary
      <4> QED
        BY <2>4, <4>2, <4>4
    <3> QED
      BY <2>4, <2>5, <2>7, <3>2, <3>3 DEF InTurn, Turn, Pending
  <2> QED
    BY <1>p, <1>i, <2>1, <2>4, <2>5, <2>6, <2>8, Talks
<1>2. CASE Collect("receiver", "list")
  <2>1. /\ pc["receiver"] = "list" /\ Receives("receiver", "list") /\ Message("receiver").bin
        /\ Moves("receiver", "list") /\ wire' = wire
        /\ chunks' = [chunks EXCEPT !["receiver"] = Append(@, Message("receiver"))]
    BY <1>2 DEF Collect, Receives, Moves, Quietly
  <2>2. Chunked(Coming("receiver"), chunks["receiver"], {"list", "pinRequired", "tooMany"})
    BY <1>i, <2>1 DEF Expect
  <2>3. PICK t \in {"list", "pinRequired", "tooMany"} :
              /\ Message("receiver") = Binary(t, None) /\ chunks["receiver"] = <<>>
              /\ \/ Coming("receiver") = <<Binary(t, None)>> /\ Tail(Coming("receiver")) = <<>>
                 \/ Coming("receiver") = InChunks(t, None) /\ Tail(Coming("receiver")) = <<Delimiter>>
    BY <1>p, <2>1, <2>2, Reading
  <2>4. Coming("receiver")' = Tail(Coming("receiver")) /\ Coming("sender")' = Coming("sender")
    BY <1>p, <2>1, Comes
  <2>5. chunks'["receiver"] = <<Binary(t, None)>> /\ chunks'["sender"] = chunks["sender"]
    BY <1>p, <1>w, <2>1, <2>3 DEF TypeInv, ChannelType
  <2>6. Expect("list", Coming("receiver")', chunks'["receiver"])
    BY <2>3, <2>4, <2>5 DEF Expect, Chunked, Over
  <2>7. pc'["receiver"] = "list" /\ pc'["sender"] = pc["sender"]
    BY <1>p, <2>1, Moved
  <2>8. conn # "lost" /\ pc["sender"] \notin Over => InTurn'
    <3>1. SUFFICES ASSUME conn # "lost", pc["sender"] \notin Over PROVE InTurn'
      OBVIOUS
    <3>2. /\ Coming("sender") = <<>>
          /\ \/ pc["sender"] = "verify" /\ Coming("receiver") = InChunks("pinRequired", None)
             \/ /\ pc["sender"] = "selection" /\ Coming("receiver") = InChunks("list", None)
                /\ chunks["sender"] = <<>>
      <4>1. Coming("receiver") # <<>>
        BY <1>w, <2>3, Tuples DEF InChunks
      <4> QED
        BY <1>i, <1>w, <2>1, <2>3, <3>1, <4>1 DEF InTurn, Turn, Over, Pending
    <3>3. /\ Coming("receiver")' = <<Delimiter>>
          /\ Coming("receiver") = InChunks(t, None)
      <4>1. Coming("receiver") # <<Binary(t, None)>>
        BY <1>w, <3>2 DEF InChunks
      <4> QED
        BY <2>3, <2>4, <4>1
    <3>4. \/ pc["sender"] = "verify" /\ t = "pinRequired"
          \/ pc["sender"] = "selection" /\ t = "list" /\ chunks["sender"] = <<>>
      BY <1>w, <3>2, <3>3 DEF InChunks
    <3> QED
      BY <2>4, <2>5, <2>7, <3>2, <3>3, <3>4 DEF InTurn, Turn, Pending
  <2> QED
    BY <1>p, <1>i, <2>1, <2>4, <2>5, <2>6, <2>8, Talks
<1> QED
  BY <1>1, <1>2
\* A string is complete: the file list or a notice, and the selection.
LEMMA TalkList ==
  ASSUME TypeInv, TalkInv, ReceiveList
  PROVE  TalkInv'
<1>p. /\ {"select", "enter", "failed"} \subseteq Pcs("receiver")
      /\ {"tooMany", "unexpected"} \subseteq Errors
      /\ Peer("sender") = "receiver" /\ Peer("receiver") = "sender"
      /\ "sender" \in Ends /\ "receiver" \in Ends
  BY DEF Pcs, SenderPcs, ReceiverPcs, Ends, Errors, Peer
<1>w. /\ \A a : <<a>> # <<>>
      /\ \A a, b : <<a>> = <<b>> => a = b
      /\ \A a, b, c : <<a, b>> # <<c>>
      /\ \A t : Binary(t, None).t = t
  BY Tuples DEF Binary
<1>i. /\ Expect(pc["sender"], Coming("sender"), chunks["sender"])
      /\ Expect(pc["receiver"], Coming("receiver"), chunks["receiver"])
      /\ conn = "lost" \/ pc["sender"] \in Over \/ pc["receiver"] \in Over \/ InTurn
  BY DEF TalkInv, Ends
<1>1. /\ pc["receiver"] = "list" /\ Receives("receiver", "list") /\ ~Message("receiver").bin
      /\ chunks' = [chunks EXCEPT !["receiver"] = <<>>]
  BY DEF ReceiveList, StringEnds, Receives
<1>2. PICK t \in {"list", "pinRequired", "tooMany"} :
        /\ chunks["receiver"] = <<Binary(t, None)>> /\ Coming("receiver") = <<Delimiter>>
        /\ Tail(Coming("receiver")) = <<>> /\ Parsed("receiver") = t
  <2>1. Chunked(Coming("receiver"), chunks["receiver"], {"list", "pinRequired", "tooMany"})
    BY <1>i, <1>1 DEF Expect
  <2>2. ASSUME NEW kinds, Chunked(Coming("receiver"), chunks["receiver"], kinds)
        PROVE  \E t \in kinds :
                 /\ chunks["receiver"] = <<Binary(t, None)>> /\ Coming("receiver") = <<Delimiter>>
                 /\ Tail(Coming("receiver")) = <<>> /\ Parsed("receiver") = t
    BY <1>p, <1>1, <2>2, Reading
  <2> QED
    BY <2>1, <2>2
<1>3. chunks'["receiver"] = <<>> /\ chunks'["sender"] = chunks["sender"]
  BY <1>p, <1>1 DEF TypeInv, ChannelType
<1>4. \/ t = "list" /\ Quietly("receiver", "select")
      \/ t = "pinRequired" /\ Quietly("receiver", "enter")
      \/ \E why \in Errors : Fail("receiver", why)
  BY <1>2, <1>p DEF ReceiveList
<1>5. CASE \E why \in Errors : Fail("receiver", why)
  <2>1. Moves("receiver", "failed") /\ wire' = wire
    BY <1>5 DEF Moves, Fail
  <2> QED
    BY <1>p, <1>1, <1>3, <2>1, TalkStops DEF Over
<1>6. ASSUME NEW p \in {"select", "enter"}, Quietly("receiver", p),
             t = "list" \/ p # "select", t = "pinRequired" \/ p # "enter"
      PROVE  TalkInv'
  <2>1. Moves("receiver", p) /\ wire' = wire
    BY <1>6 DEF Moves, Quietly
  <2>2. Coming("receiver")' = <<>> /\ Coming("sender")' = Coming("sender")
    BY <1>p, <1>1, <1>2, <2>1, Comes
  <2>3. Expect(p, Coming("receiver")', chunks'["receiver"])
    BY <1>3, <1>6, <2>2 DEF Expect
  <2>4. pc'["receiver"] = p /\ pc'["sender"] = pc["sender"]
    BY <1>p, <1>6, <2>1, Moved
  <2>5. conn # "lost" /\ pc["sender"] \notin Over => InTurn'
    <3>1. SUFFICES ASSUME conn # "lost", pc["sender"] \notin Over PROVE InTurn'
      OBVIOUS
    <3>2. /\ Coming("sender") = <<>>
          /\ \/ pc["sender"] = "verify" /\ chunks["receiver"] = <<Binary("pinRequired", None)>>
             \/ /\ pc["sender"] = "selection" /\ chunks["receiver"] = <<Binary("list", None)>>
                /\ chunks["sender"] = <<>>
      <4>1. Coming("receiver") # <<>> /\ chunks["receiver"] # <<>>
        BY <1>w, <1>2
      <4> QED
        BY <1>i, <1>1, <3>1, <4>1 DEF InTurn, Turn, Over, Pending
    <3>3. \/ pc["sender"] = "verify" /\ t = "pinRequired"
          \/ pc["sender"] = "selection" /\ t = "list" /\ chunks["sender"] = <<>>
      BY <1>w, <1>2, <3>2
    <3> QED
      BY <1>3, <1>6, <2>2, <2>4, <3>2, <3>3 DEF InTurn, Turn
  <2> QED
    BY <1>p, <1>i, <1>3, <1>6, <2>1, <2>2, <2>3, <2>5, Talks
<1> QED
  BY <1>4, <1>5, <1>6

\* The sender reads the selection.
LEMMA TalkSelection ==
  ASSUME TypeInv, TalkInv, ReceiveSelection
  PROVE  TalkInv'
<1>p. /\ {"next", "done", "failed"} \subseteq Pcs("sender")
      /\ {"user", "unexpected"} \subseteq Errors
      /\ Peer("sender") = "receiver" /\ Peer("receiver") = "sender"
      /\ "sender" \in Ends /\ "receiver" \in Ends
  BY DEF Pcs, SenderPcs, ReceiverPcs, Ends, Errors, Peer
<1>i. /\ Expect(pc["sender"], Coming("sender"), chunks["sender"])
      /\ Expect(pc["receiver"], Coming("receiver"), chunks["receiver"])
      /\ conn = "lost" \/ pc["sender"] \in Over \/ pc["receiver"] \in Over \/ InTurn
  BY DEF TalkInv, Ends
<1>1. /\ pc["sender"] = "selection" /\ Receives("sender", "selection") /\ ~Message("sender").bin
      /\ chunks' = [chunks EXCEPT !["sender"] = <<>>]
  BY DEF ReceiveSelection, StringEnds, Receives
<1>2. PICK t \in {"selection", "declined"} :
        /\ chunks["sender"] = <<Binary(t, None)>> /\ Coming("sender") = <<Delimiter>>
        /\ Tail(Coming("sender")) = <<>> /\ Parsed("sender") = t
  BY <1>i, <1>p, <1>1, Reading DEF Expect
<1>3. chunks'["sender"] = <<>> /\ chunks'["receiver"] = chunks["receiver"]
  BY <1>p, <1>1 DEF TypeInv, ChannelType
<1>4. \/ Quietly("sender", "next")
      \/ Done("sender") /\ wire' = wire
      \/ \E why \in Errors : Fail("sender", why)
  BY <1>2, <1>p DEF ReceiveSelection, PublishSelection
<1>5. CASE \/ Done("sender") /\ wire' = wire
           \/ \E why \in Errors : Fail("sender", why)
  <2>1. wire' = wire /\ \E p \in Over : Moves("sender", p)
    BY <1>5 DEF Moves, Fail, Over
  <2> QED
    BY <1>p, <1>1, <1>3, <2>1, TalkStops
<1>6. CASE Quietly("sender", "next")
  <2>1. Moves("sender", "next") /\ wire' = wire
    BY <1>6 DEF Moves, Quietly
  <2>2. Coming("sender")' = <<>> /\ Coming("receiver")' = Coming("receiver")
    BY <1>p, <1>1, <1>2, <2>1, Comes
  <2>3. Expect("next", Coming("sender")', chunks'["sender"])
    BY <1>3, <2>2 DEF Expect
  <2>4. pc'["sender"] = "next" /\ pc'["receiver"] = pc["receiver"]
    BY <1>p, <2>1, Moved
  <2>5. conn # "lost" /\ pc["receiver"] \notin Over => InTurn'
    <3>1. chunks["sender"] # <<>>
      BY <1>2, Tuples
    <3> QED
      BY <1>i, <1>1, <2>4, <3>1 DEF InTurn, Turn, Over, Pending
  <2> QED
    BY <1>p, <1>i, <1>3, <2>1, <2>2, <2>3, <2>5, Talks
<1> QED
  BY <1>4, <1>5, <1>6

\* The selection is made or declined.
LEMMA TalkSelect ==
  ASSUME TypeInv, TalkInv, Select
  PROVE  TalkInv'
<1>p. /\ {"files", "done"} \subseteq Pcs("receiver")
      /\ Peer("sender") = "receiver" /\ Peer("receiver") = "sender"
      /\ "sender" \in Ends /\ "receiver" \in Ends
  BY DEF Pcs, SenderPcs, ReceiverPcs, Ends, Peer
<1>w. \A t \in {"selection", "declined"} : InChunks(t, None) \in Seq(Messages)
  BY MessageFacts DEF Long
<1>i. /\ Expect(pc["sender"], Coming("sender"), chunks["sender"])
      /\ Expect(pc["receiver"], Coming("receiver"), chunks["receiver"])
      /\ conn = "lost" \/ pc["sender"] \in Over \/ pc["receiver"] \in Over \/ InTurn
  BY DEF TalkInv, Ends
<1>1. pc["receiver"] = "select" /\ inbox' = inbox /\ chunks' = chunks
  BY DEF Select
<1>2. Coming("receiver") = <<>> /\ chunks["receiver"] = <<>>
  BY <1>i, <1>1 DEF Expect, Over
<1>3. \/ Say("receiver", InChunks("selection", None), "files")
      \/ /\ conn = "up" /\ Done("receiver")
         /\ wire' = [wire EXCEPT !["receiver"] = @ \o InChunks("declined", None)]
      \/ Done("receiver") /\ wire' = wire
  BY DEF Select, SendSelection, Decline
<1>4. CASE Done("receiver") /\ wire' = wire
  <2>1. Moves("receiver", "done") /\ "done" \in Over
    BY <1>4 DEF Moves, Over
  <2> QED
    BY <1>p, <1>1, <1>4, <2>1, TalkStops
<1>5. ASSUME NEW t \in {"selection", "declined"}, NEW p \in {"files", "done"}, conn = "up",
             Moves("receiver", p), t = "selection" \/ p # "files",
             wire' = [wire EXCEPT !["receiver"] = @ \o InChunks(t, None)]
      PROVE  TalkInv'
  <2>1. Coming("receiver")' = <<>> /\ Coming("sender")' = Coming("sender") \o InChunks(t, None)
    BY <1>p, <1>w, <1>1, <1>2, <1>5, Comes
  <2>2. \/ pc["sender"] \in Over
        \/ /\ pc["sender"] = "selection" /\ Coming("sender")' = InChunks(t, None)
           /\ chunks["sender"] = <<>>
    BY <1>i, <1>w, <1>1, <1>5, <2>1, Speak DEF InTurn, Turn, Over
  <2>3. Expect(p, Coming("receiver")', chunks'["receiver"])
    BY <1>1, <1>2, <1>5, <2>1 DEF Expect
  <2>4. Expect(pc["sender"], Coming("sender")', chunks["sender"])
    BY <2>2 DEF Expect, Chunked, Over
  <2>5. pc'["receiver"] = p /\ pc'["sender"] = pc["sender"]
    BY <1>p, <1>5, Moved
  <2>6. p \notin Over /\ pc["sender"] \notin Over => InTurn'
    BY <1>1, <1>5, <2>1, <2>2, <2>5 DEF InTurn, Turn, Over, Pending
  <2> QED
    BY <1>p, <1>1, <1>5, <2>3, <2>4, <2>6, Talks
<1>6. CASE Say("receiver", InChunks("selection", None), "files")
  <2>1. Moves("receiver", "files")
    BY <1>6, <1>w DEF Moves
  <2> QED
    BY <1>5, <1>6, <2>1 DEF Say
<1>7. CASE /\ conn = "up" /\ Done("receiver")
           /\ wire' = [wire EXCEPT !["receiver"] = @ \o InChunks("declined", None)]
  <2>1. Moves("receiver", "done")
    BY <1>7, <1>w DEF Moves
  <2> QED
    BY <1>5, <1>7, <2>1
<1> QED
  BY <1>3, <1>4, <1>6, <1>7
\* The steps of the files keep both ends among the files.
LEMMA TalkFiles ==
  ASSUME TypeInv, TalkInv, NEW e \in Ends, NEW p \in Pcs(e), Moves(e, p), chunks' = chunks,
         \/ e = "sender" /\ pc[e] \in {"next", "stream"} /\ p \in {"next", "stream", "last"}
         \/ /\ e = "receiver" /\ p \in {"files", "result", "header", "flush"}
            /\ \/ pc[e] \in {"result", "header"}
               \/ pc[e] = "files" /\ Coming(e) # <<>>,
         \/ conn = "up"
         \/ wire' = wire /\ (inbox' = inbox \/ \E q : Receives(e, q))
  PROVE  TalkInv'
<1>i. /\ Expect(pc["sender"], Coming("sender"), chunks["sender"])
      /\ Expect(pc["receiver"], Coming("receiver"), chunks["receiver"])
      /\ conn = "lost" \/ pc["sender"] \in Over \/ pc["receiver"] \in Over \/ InTurn
  BY DEF TalkInv, Ends
<1>p. Peer("sender") = "receiver" /\ Peer("receiver") = "sender"
  BY DEF Peer
<1>1. conn # "lost" =>
        \/ pc[Peer(e)] \in Over
        \/ e = "sender" /\ pc[Peer(e)] \in {"files", "result", "header", "flush"}
        \/ e = "receiver" /\ pc[Peer(e)] \in {"next", "stream", "last"}
  BY <1>i, <1>p DEF InTurn, Turn, Over
<1>2. Expect(p, Coming(e)', chunks'[e])
  BY DEF TalkInv, Expect, Over
<1>3. Expect(pc[Peer(e)], Coming(Peer(e))', chunks[Peer(e)])
  <2>1. Expect(pc[Peer(e)], Coming(Peer(e)), chunks[Peer(e)])
    BY Ways DEF TalkInv
  <2>2. CASE conn = "up"
    BY <1>1, <2>1, <2>2 DEF Expect, Over
  <2>3. CASE wire' = wire /\ (inbox' = inbox \/ \E q : Receives(e, q))
    BY <2>1, <2>3, Comes
  <2> QED
    BY <2>2, <2>3
<1>4. pc'[e] = p /\ pc'[Peer(e)] = pc[Peer(e)]
  BY Moved
<1>5. conn # "lost" /\ p \notin Over /\ pc[Peer(e)] \notin Over => InTurn'
  BY <1>1, <1>4, <1>p DEF InTurn, Turn, Over
<1> QED
  BY <1>2, <1>3, <1>5, Talks

\* Which end takes which of the steps of a file.
LEMMA FileSteps ==
  ASSUME TypeInv
  PROVE  /\ \A f \in Files : \A n : SendFile(f, n) =>
              \E p \in {"next", "stream"} :
                 /\ Moves("sender", p) /\ pc["sender"] = "next" /\ UNCHANGED <<inbox, chunks>>
                 /\ conn = "up" \/ wire' = wire
         /\ SendChunk => \E p \in {"next", "stream"} :
                 /\ Moves("sender", p) /\ pc["sender"] = "stream" /\ UNCHANGED <<inbox, chunks>>
                 /\ conn = "up" \/ wire' = wire
         /\ SendDelimiter =>
                 /\ Moves("sender", "last") /\ pc["sender"] = "next" /\ UNCHANGED <<inbox, chunks>>
                 /\ conn = "up"
         /\ ReceiveResult => \E p \in {"header", "flush"} :
                 /\ Moves("receiver", p) /\ pc["receiver"] = "result" /\ UNCHANGED <<inbox, chunks>>
                 /\ conn = "up"
         /\ HandleHeader => \E p \in {"files", "failed"} :
                 /\ Moves("receiver", p) /\ pc["receiver"] = "header" /\ UNCHANGED <<inbox, chunks>>
                 /\ wire' = wire
         /\ ReceiveText => \E p \in {"files", "result", "failed"} :
                 /\ Moves("receiver", p) /\ pc["receiver"] = "files" /\ Receives("receiver", "files")
                 /\ chunks' = chunks /\ wire' = wire /\ Coming("receiver") # <<>>
         /\ ReceiveData => \E p \in {"files", "failed"} :
                 /\ Moves("receiver", p) /\ pc["receiver"] = "files" /\ Receives("receiver", "files")
                 /\ chunks' = chunks /\ wire' = wire /\ Coming("receiver") # <<>>
<1>e. /\ {"noFile", "unexpected", "app"} \subseteq Errors
      /\ "sender" \in Ends /\ "receiver" \in Ends
  BY DEF Errors, Ends
<1>o. ASSUME NEW m, OpenFile(m) PROVE wire' = wire /\ \E p \in {"files", "failed"} : Moves("receiver", p)
  BY <1>e, <1>o DEF OpenFile, Moves, Quietly, Fail
<1>1. ASSUME NEW f \in Files, NEW n, SendFile(f, n)
      PROVE  \E p \in {"next", "stream"} :
                 /\ Moves("sender", p) /\ pc["sender"] = "next" /\ UNCHANGED <<inbox, chunks>>
                 /\ conn = "up" \/ wire' = wire
  <2>1. \/ Say("sender", <<Text("header", f)>>, "stream")
        \/ Quietly("sender", "next")
    BY <1>1 DEF SendFile
  <2>2. \E p \in {"next", "stream"} : Moves("sender", p) /\ (conn = "up" \/ wire' = wire)
    BY <2>1, MessageFacts DEF Moves, Say, Quietly
  <2> QED
    BY <1>1, <2>2 DEF SendFile
<1>2. ASSUME SendChunk
      PROVE  \E p \in {"next", "stream"} :
                 /\ Moves("sender", p) /\ pc["sender"] = "stream" /\ UNCHANGED <<inbox, chunks>>
                 /\ conn = "up" \/ wire' = wire
  <2>1. \/ Say("sender", <<Binary("data", out.id)>>, "stream")
        \/ Quietly("sender", "next")
    BY <1>2 DEF SendChunk
  <2>2. <<Binary("data", out.id)>> \in Seq(Messages)
    BY <1>2, MessageFacts DEF SendChunk, TypeInv, DataType
  <2>3. \E p \in {"next", "stream"} : Moves("sender", p) /\ (conn = "up" \/ wire' = wire)
    BY <2>1, <2>2 DEF Moves, Say, Quietly
  <2> QED
    BY <1>2, <2>3 DEF SendChunk
<1>3. ASSUME SendDelimiter
      PROVE  /\ Moves("sender", "last") /\ pc["sender"] = "next" /\ UNCHANGED <<inbox, chunks>>
             /\ conn = "up"
  <2>1. Moves("sender", "last") /\ conn = "up"
    BY <1>3, MessageFacts DEF SendDelimiter, Moves, Say
  <2> QED
    BY <1>3, <2>1 DEF SendDelimiter
<1>4. ASSUME ReceiveResult
      PROVE  \E p \in {"header", "flush"} :
                 /\ Moves("receiver", p) /\ pc["receiver"] = "result" /\ UNCHANGED <<inbox, chunks>>
                 /\ conn = "up"
  <2>1. <<Text("result", file.id)>> \in Seq(Messages)
    BY <1>4, MessageFacts DEF ReceiveResult, TypeInv, DataType
  <2>2. \E p \in {"header", "flush"} : Say("receiver", <<Text("result", file.id)>>, p)
    BY <1>4 DEF ReceiveResult
  <2>3. \E p \in {"header", "flush"} : Moves("receiver", p) /\ conn = "up"
    BY <2>1, <2>2 DEF Moves, Say
  <2> QED
    BY <1>4, <2>3 DEF ReceiveResult
<1>5. ASSUME HandleHeader
      PROVE  \E p \in {"files", "failed"} :
                 /\ Moves("receiver", p) /\ pc["receiver"] = "header" /\ UNCHANGED <<inbox, chunks>>
                 /\ wire' = wire
  BY <1>5, <1>o DEF HandleHeader
<1>6. ASSUME ReceiveText
      PROVE  \E p \in {"files", "result", "failed"} :
                 /\ Moves("receiver", p) /\ pc["receiver"] = "files" /\ Receives("receiver", "files")
                 /\ chunks' = chunks /\ wire' = wire /\ Coming("receiver") # <<>>
  <2>1. /\ pc["receiver"] = "files" /\ Receives("receiver", "files") /\ chunks' = chunks
        /\ Coming("receiver") # <<>>
    BY <1>6, <1>e, Hearing DEF ReceiveText, Receives
  <2>2. OpenFile(Message("receiver")) \/ Quietly("receiver", "result")
    BY <1>6 DEF ReceiveText
  <2>3. \E p \in {"files", "result", "failed"} : Moves("receiver", p) /\ wire' = wire
    BY <1>o, <2>2 DEF Moves, Quietly
  <2> QED
    BY <2>1, <2>3
<1>7. ASSUME ReceiveData
      PROVE  \E p \in {"files", "failed"} :
                 /\ Moves("receiver", p) /\ pc["receiver"] = "files" /\ Receives("receiver", "files")
                 /\ chunks' = chunks /\ wire' = wire /\ Coming("receiver") # <<>>
  <2>1. /\ pc["receiver"] = "files" /\ Receives("receiver", "files") /\ chunks' = chunks
        /\ Coming("receiver") # <<>>
    BY <1>7, <1>e, Hearing DEF ReceiveData, Receives
  <2>2. Quietly("receiver", "files") \/ Fail("receiver", "app")
    BY <1>7 DEF ReceiveData
  <2>3. \E p \in {"files", "failed"} : Moves("receiver", p) /\ wire' = wire
    BY <1>e, <2>2 DEF Moves, Quietly, Fail
  <2> QED
    BY <2>1, <2>3
<1> QED
  BY <1>1, <1>2, <1>3, <1>4, <1>5, <1>6, <1>7

\* While files are sent, both ends are at the files.
LEMMA TalkFile ==
  ASSUME TypeInv, TalkInv,
         \/ \E f \in Files : \E n \in 0 .. Size[f] + 1 : SendFile(f, n)
         \/ SendChunk \/ SendDelimiter \/ ReceiveText \/ ReceiveResult \/ HandleHeader
         \/ ReceiveData
  PROVE  TalkInv'
<1>p. /\ {"next", "stream", "last"} \subseteq Pcs("sender")
      /\ {"files", "result", "header", "flush", "failed"} \subseteq Pcs("receiver")
      /\ "sender" \in Ends /\ "receiver" \in Ends
  BY DEF Pcs, SenderPcs, ReceiverPcs, Ends
<1>1. ASSUME \/ \E f \in Files : \E n \in 0 .. Size[f] + 1 : SendFile(f, n)
             \/ SendChunk \/ SendDelimiter
      PROVE  TalkInv'
  <2>1. \E p \in {"next", "stream", "last"} :
           /\ Moves("sender", p) /\ pc["sender"] \in {"next", "stream"} /\ UNCHANGED <<inbox, chunks>>
           /\ conn = "up" \/ wire' = wire
    BY <1>1, FileSteps
  <2> QED
    BY <1>p, <2>1, TalkFiles
<1>2. ASSUME ReceiveResult \/ HandleHeader
      PROVE  TalkInv'
  <2>1. PICK p \in {"header", "flush", "files", "failed"} :
           /\ Moves("receiver", p) /\ pc["receiver"] \in {"result", "header"}
           /\ UNCHANGED <<inbox, chunks>>
           /\ conn = "up" \/ wire' = wire
           /\ p = "failed" => wire' = wire
    BY <1>2, FileSteps
  <2>2. CASE p = "failed"
    BY <1>p, <2>1, <2>2, TalkStops DEF Over
  <2>3. CASE p # "failed"
    BY <1>p, <2>1, <2>3, TalkFiles
  <2> QED
    BY <2>2, <2>3
<1>3. ASSUME ReceiveText \/ ReceiveData
      PROVE  TalkInv'
  <2>1. PICK p \in {"files", "result", "failed"} :
           /\ Moves("receiver", p) /\ pc["receiver"] = "files" /\ Receives("receiver", "files")
           /\ chunks' = chunks /\ wire' = wire /\ Coming("receiver") # <<>>
    BY <1>3, FileSteps
  <2>2. CASE p = "failed"
    BY <1>p, <2>1, <2>2, TalkStops DEF Over
  <2>3. CASE p # "failed"
    BY <1>p, <2>1, <2>3, TalkFiles
  <2> QED
    BY <2>2, <2>3
<1> QED
  BY <1>1, <1>2, <1>3

\* Messages are delivered, or lost with the connection.
LEMMA Delivered ==
  ASSUME TypeInv, NEW e \in Ends, Deliver(e)
  PROVE  \A d \in Ends : Coming(d)' = Coming(d)
<1>1. /\ wire[e] \in Seq(Messages) /\ wire[e] # <<>> /\ inbox[Peer(e)] \in Seq(Messages)
      /\ inbox' = [inbox EXCEPT ![Peer(e)] = Append(@, Head(wire[e]))]
      /\ wire' = [wire EXCEPT ![e] = Tail(@)]
      /\ inbox \in [Ends -> Seq(Messages)] /\ wire \in [Ends -> Seq(Messages)]
  BY Ways DEF Deliver, TypeInv, ControlType, ChannelType
<1>2. Append(inbox[Peer(e)], Head(wire[e])) \o Tail(wire[e]) = inbox[Peer(e)] \o wire[e]
  BY <1>1, Queues
<1>3. /\ inbox'[Peer(e)] = Append(inbox[Peer(e)], Head(wire[e])) /\ inbox'[e] = inbox[e]
      /\ wire'[e] = Tail(wire[e]) /\ wire'[Peer(e)] = wire[Peer(e)]
  BY <1>1, Ways
<1>4. Coming(Peer(e))' = Coming(Peer(e)) /\ Coming(e)' = Coming(e)
  BY <1>2, <1>3, Ways DEF Coming
<1> QED
  BY <1>4, Ways

\* Of what comes to an end, the loss of the connection leaves its channel.
LEMMA Lost ==
  ASSUME TypeInv, wire' = [e \in Ends |-> <<>>], inbox' = inbox
  PROVE  \A e \in Ends : /\ Coming(e)' = inbox[e] /\ inbox[e] \in Seq(Messages)
                         /\ wire[Peer(e)] \in Seq(Messages) /\ Coming(e) = inbox[e] \o wire[Peer(e)]
<1>1. ASSUME NEW e \in Ends
      PROVE  /\ Coming(e)' = inbox[e] /\ inbox[e] \in Seq(Messages)
             /\ wire[Peer(e)] \in Seq(Messages) /\ Coming(e) = inbox[e] \o wire[Peer(e)]
  <2>1. inbox[e] \in Seq(Messages) /\ wire[Peer(e)] \in Seq(Messages) /\ wire'[Peer(e)] = <<>>
    BY Ways DEF TypeInv, ControlType, ChannelType
  <2>2. inbox[e] \o <<>> = inbox[e]
    BY <2>1, Queues
  <2> QED
    BY <2>1, <2>2 DEF Coming
<1> QED
  BY <1>1

\* The signaling, the connection and the application.
LEMMA TalkRest ==
  ASSUME TypeInv, TalkInv,
         \/ Signal \/ ConnectionLost \/ AppGone
         \/ \E e \in Ends : Deliver(e) \/ Close(e) \/ Disconnected(e)
         \/ \E f \in Files : AppReports(f)
         \/ UNCHANGED vars
  PROVE  TalkInv'
<1>e. "sender" \in Ends /\ "receiver" \in Ends
  BY DEF Ends
<1>0. ASSUME \A e \in Ends : Coming(e)' = Coming(e), UNCHANGED <<pc, chunks>>,
             conn = "lost" => conn' = "lost"
      PROVE  TalkInv'
  BY <1>0, <1>e DEF TalkInv, InTurn
<1>1. ASSUME UNCHANGED <<pc, chunks, inbox, wire>>, conn = "lost" => conn' = "lost"
      PROVE  TalkInv'
  BY <1>0, <1>1 DEF Coming
<1>2. CASE Signal
  BY <1>1, <1>2 DEF Signal, SendOffer, OnAnswer, SendAnswer, ListenerTakesAnswer, ChannelOpens,
       signalUnchanged
<1>3. ASSUME wire' = [e \in Ends |-> <<>>], inbox' = inbox, UNCHANGED <<pc, chunks>>, conn' = "lost"
      PROVE  TalkInv'
  <2>1. ASSUME NEW e \in Ends PROVE Expect(pc[e], Coming(e)', chunks[e])
    <3>1. /\ Coming(e)' = inbox[e] /\ inbox[e] \in Seq(Messages)
          /\ wire[Peer(e)] \in Seq(Messages) /\ Coming(e) = inbox[e] \o wire[Peer(e)]
      BY <1>3, Lost
    <3>2. Expect(pc[e], inbox[e] \o wire[Peer(e)], chunks[e])
      BY <3>1 DEF TalkInv
    <3> QED
      BY <3>1, <3>2, ExpectPrefix
  <2> QED
    BY <1>3, <2>1 DEF TalkInv
<1>4. CASE ConnectionLost
  BY <1>3, <1>4 DEF ConnectionLost
<1>5. ASSUME NEW e \in Ends, Close(e) PROVE TalkInv'
  BY <1>3, <1>5 DEF Close
<1>6. ASSUME NEW e \in Ends, Deliver(e) PROVE TalkInv'
  BY <1>0, <1>6, Delivered DEF Deliver
<1>7. CASE \/ AppGone \/ UNCHANGED vars
           \/ \E e \in Ends : Disconnected(e)
           \/ \E f \in Files : AppReports(f)
  BY <1>1, <1>7 DEF AppGone, AppReports, Disconnected, vars
<1> QED
  BY <1>2, <1>4, <1>5, <1>6, <1>7

\* Every step keeps to the conversation.
LEMMA TalkStep ==
  ASSUME TypeInv, TalkInv, [Next]_vars
  PROVE  TalkInv'
<1>e. /\ "send" \in Errors /\ "sender" \in Ends /\ "receiver" \in Ends
      /\ "failed" \in Over /\ "done" \in Over
  BY DEF Errors, Ends, Over
<1>1. ASSUME NEW e \in Ends, SendFails(e) PROVE TalkInv'
  <2>1. Moves(e, "failed") /\ wire' = wire /\ UNCHANGED <<inbox, chunks>>
    BY <1>e, <1>1 DEF SendFails, Moves, Fail
  <2> QED
    BY <1>e, <2>1, TalkStops
<1>2. CASE ReceiveLast
  <2>1. Moves("sender", "done") /\ wire' = wire /\ Receives("sender", "last") /\ chunks' = chunks
    BY <1>2 DEF ReceiveLast, Moves
  <2> QED
    BY <1>e, <2>1, TalkStops
<1>3. CASE Flush
  <2>1. Moves("receiver", "done") /\ wire' = wire /\ UNCHANGED <<inbox, chunks>>
    BY <1>3 DEF Flush, Moves
  <2> QED
    BY <1>e, <2>1, TalkStops
<1> QED
  BY <1>1, <1>2, <1>3, TalkNonce, TalkToken, TalkResponse, TalkEnter, TalkVerify, TalkCollect,
     TalkList, TalkSelection, TalkSelect, TalkFile, TalkRest
     DEF Next, SenderTask, ReceiverTask, Task
-----------------------------------------------------------------------------
(* The PINs.                                                               *)

Listed == {"selection", "next", "stream", "last"}

\* The user of the other end has entered the PIN of e.
Settled(e) == typed[Peer(e)] = "right" /\ tries[e] >= 1

TriesInv(e) ==
  /\ tries[e] \in 0 .. MaxTries
  /\ pc[e] = "verify" => tries[e] < MaxTries
  /\ pc[e] \in {"channel", "nonce", "token", "tokenResponse", "pinResponse"} => tries[e] = 0
  /\ e = "sender" /\ pc[e] = "enter" => tries[e] = 0

\* The PIN that comes is the one that was typed last.
TypedInv(e) ==
  pc[e] = "verify" =>
    \A x \in {"wrong", "right"} : Coming(e) = <<Text("pin", x)>> => typed[Peer(e)] = x

\* The sender only gets on once the receiver has said Ok.
ReceiverPin ==
  "receiver" \in pins =>
    /\ pc["sender"] = "tokenResponse" => Coming("sender") # <<Text("tokenResponse", "ok")>>
    /\ pc["sender"] = "pinResponse" /\ Coming("sender") = <<Text("pinOk", None)>> => Settled("receiver")
    /\ pc["sender"] \in Listed \cup {"verify"} => Settled("receiver")

SenderPin == "sender" \in pins /\ pc["sender"] \in Listed => Settled("sender")

\* That there were too many attempts is only said to who has made one.
TooManyInv ==
  pc["receiver"] = "list" =>
    \/ typed["receiver"] # "no"
    \/ /\ chunks["receiver"] # <<Binary("tooMany", None)>>
       /\ Coming("receiver") # <<Binary("tooMany", None)>>
       /\ Coming("receiver") # InChunks("tooMany", None)

PinInv ==
  /\ \A e \in Ends : TriesInv(e) /\ TypedInv(e)
  /\ ReceiverPin /\ SenderPin /\ TooManyInv

\* Whom a live end talks to.
LEMMA Audience ==
  ASSUME TalkInv, conn = "up"
  PROVE  /\ pc["sender"] = "channel" => pc["receiver"] \in Over \cup {"channel", "nonce"}
         /\ pc["sender"] = "nonce" /\ Coming("sender") # <<>> =>
              pc["receiver"] \in Over \cup {"token"}
         /\ pc["receiver"] = "nonce" /\ Coming("receiver") # <<>> =>
              pc["sender"] \in Over \cup {"nonce"}
         /\ pc["receiver"] = "token" /\ Coming("receiver") # <<>> =>
              \/ pc["sender"] \in Over
              \/ pc["sender"] = "tokenResponse" /\ Coming("sender") = <<>>
         /\ \/ pc["sender"] = "tokenResponse" /\ Coming("sender") = <<Text("tokenResponse", "ok")>>
            \/ pc["sender"] = "pinResponse" /\ Coming("sender") = <<Text("pinOk", None)>>
            => \/ pc["receiver"] \in Over
               \/ pc["receiver"] = "list" /\ Coming("receiver") = <<>> /\ chunks["receiver"] = <<>>
         /\ pc["sender"] = "enter" =>
              \/ pc["receiver"] \in Over
              \/ pc["receiver"] = "verify" /\ Coming("receiver") = <<>>
         /\ pc["receiver"] = "enter" =>
              \/ pc["sender"] \in Over
              \/ pc["sender"] = "verify" /\ Coming("sender") = <<>>
         /\ pc["receiver"] = "verify" /\ Coming("receiver") # <<>> =>
              \/ pc["sender"] \in Over
              \/ pc["sender"] = "pinResponse" /\ Coming("sender") = <<>>
         /\ pc["sender"] = "verify" /\ Coming("sender") # <<>> =>
              \/ pc["receiver"] \in Over
              \/ pc["receiver"] = "list" /\ Coming("receiver") = <<>> /\ chunks["receiver"] = <<>>
         /\ pc["receiver"] = "select" =>
              \/ pc["sender"] \in Over
              \/ pc["sender"] = "selection" /\ Coming("sender") = <<>>
         /\ pc["sender"] \in {"next", "stream"} =>
              pc["receiver"] \in Over \cup {"files", "result", "header", "flush"}
         /\ pc["receiver"] \in {"result", "header"} =>
              pc["sender"] \in Over \cup {"next", "stream", "last"}
<1>1. pc["sender"] \in Over \/ pc["receiver"] \in Over \/ InTurn
  BY DEF TalkInv
<1>2. /\ <<Text("tokenResponse", "ok")>> # <<>> /\ <<Text("pinOk", None)>> # <<>>
      /\ <<Text("tokenResponse", "ok")>> # <<Text("tokenResponse", "pin")>>
      /\ <<Text("pinOk", None)>> # <<Text("pinRequired", None)>>
  <2>1. /\ Text("tokenResponse", "ok") # Text("tokenResponse", "pin")
        /\ Text("pinOk", None) # Text("pinRequired", None)
    BY DEF Text
  <2> QED
    BY <2>1, Tuples
<1>3. CASE pc["sender"] \in Over \/ pc["receiver"] \in Over
  BY <1>3 DEF Over
<1>4. CASE InTurn
  BY <1>2, <1>4 DEF InTurn, Turn, Over
<1> QED
  BY <1>1, <1>3, <1>4

\* A step that neither enters nor verifies a PIN.
LEMMA PinStays ==
  ASSUME TypeInv, PinInv, NEW e \in Ends, NEW p \in Pcs(e), Moves(e, p), UNCHANGED pinVars,
         p = "verify" => tries[e] < MaxTries /\ Coming(e)' = <<>>,
         p \in {"nonce", "token", "tokenResponse", "pinResponse"} => tries[e] = 0,
         p = "enter" /\ e = "sender" => tries[e] = 0,
         p # "channel",
         pc[Peer(e)] = "verify" => Coming(Peer(e))' = Coming(Peer(e)),
         ReceiverPin', SenderPin', TooManyInv'
  PROVE  PinInv'
<1>1. pc'[e] = p /\ pc'[Peer(e)] = pc[Peer(e)]
  BY Moved
<1>2. \A d \in Ends : d = e \/ d = Peer(e)
  BY Ways
<1>3. tries' = tries /\ typed' = typed
  BY DEF pinVars
<1>4. \A x : <<Text("pin", x)>> # <<>>
  BY Tuples
<1>5. TriesInv(e)' /\ TypedInv(e)'
  <2>1. TriesInv(e)
    BY DEF PinInv
  <2> QED
    BY <1>1, <1>3, <1>4, <2>1 DEF TriesInv, TypedInv
<1>6. TriesInv(Peer(e))' /\ TypedInv(Peer(e))'
  <2>1. TriesInv(Peer(e)) /\ TypedInv(Peer(e))
    BY Ways DEF PinInv
  <2> QED
    BY <1>1, <1>3, <2>1 DEF TriesInv, TypedInv
<1>7. ASSUME NEW d \in Ends PROVE TriesInv(d)' /\ TypedInv(d)'
  BY <1>2, <1>5, <1>6
<1> QED
  BY <1>7 DEF PinInv

\* An end that stops takes nothing back.
LEMMA PinStops ==
  ASSUME TypeInv, PinInv, NEW e \in Ends, NEW p \in Over, Moves(e, p), UNCHANGED pinVars,
         wire' = wire, inbox' = inbox \/ \E q : Receives(e, q),
         chunks'[Peer(e)] = chunks[Peer(e)]
  PROVE  PinInv'
<1>1. Coming(Peer(e))' = Coming(Peer(e))
  BY Comes
<1>2. p \in Pcs(e) /\ p \notin {"verify", "nonce", "token", "tokenResponse", "pinResponse", "enter", "channel"}
  BY DEF Over, Pcs, SenderPcs, ReceiverPcs
<1>3. pc'[e] = p /\ pc'[Peer(e)] = pc[Peer(e)]
  BY <1>2, Moved
<1>4. \/ e = "sender" /\ Peer(e) = "receiver"
      \/ e = "receiver" /\ Peer(e) = "sender"
  BY Ways
<1>5. ReceiverPin /\ SenderPin /\ TooManyInv
  BY DEF PinInv
<1>6. ReceiverPin' /\ SenderPin'
  BY <1>1, <1>3, <1>4, <1>5 DEF ReceiverPin, SenderPin, Settled, Listed, Over, pinVars
<1>7. TooManyInv'
  BY <1>1, <1>3, <1>4, <1>5 DEF TooManyInv, Over, pinVars
<1> QED
  BY <1>1, <1>2, <1>6, <1>7, PinStays
\* Before the tokens no PIN is in play.
LEMMA PinNonce ==
  ASSUME TypeInv, TalkInv, PinInv, NEW e \in Ends, StartTask(e) \/ ReceiveNonce(e)
  PROVE  PinInv'
<1>p. /\ {"nonce", "tokenResponse", "failed"} \subseteq Pcs("sender")
      /\ {"nonce", "token", "failed"} \subseteq Pcs("receiver")
      /\ "unexpected" \in Errors
      /\ e = "sender" \/ e = "receiver"
      /\ Peer("sender") = "receiver" /\ Peer("receiver") = "sender"
      /\ "sender" \in Ends /\ "receiver" \in Ends
  BY DEF Pcs, SenderPcs, ReceiverPcs, Ends, Errors, Peer
<1>w. <<Nonce>> \in Seq(Messages) /\ <<Token>> \in Seq(Messages)
  BY MessageFacts DEF Nonce, Token, Plain
<1>u. UNCHANGED pinVars /\ chunks' = chunks
  BY DEF StartTask, ReceiveNonce
<1>i. TriesInv("sender") /\ TriesInv("receiver") /\ ReceiverPin /\ SenderPin /\ TooManyInv
  BY <1>p DEF PinInv
<1>1. CASE Fail(e, "unexpected") /\ \E q : Receives(e, q)
  <2>1. Moves(e, "failed") /\ wire' = wire
    BY <1>1, <1>p DEF Moves, Fail
  <2> QED
    BY <1>1, <1>u, <2>1, PinStops DEF Over
<1>2. CASE e = "sender" /\ ~(Fail(e, "unexpected") /\ \E q : Receives(e, q))
  <2>1. \E p \in {"nonce", "tokenResponse"} :
          /\ Moves("sender", p) /\ conn = "up"
          /\ p = "nonce" => pc["sender"] = "channel"
          /\ p = "tokenResponse" => /\ pc["sender"] = "nonce" /\ Receives("sender", "nonce")
                                    /\ wire' = [wire EXCEPT !["sender"] = @ \o <<Token>>]
    <3>1. CASE StartTask("sender")
      BY <1>w, <3>1 DEF StartTask, Moves, Say, Nonce
    <3>2. CASE ReceiveNonce("sender")
      BY <1>w, <1>2, <3>2 DEF ReceiveNonce, Moves, Say, Token, Receives
    <3> QED
      BY <1>2, <3>1, <3>2
  <2>2. PICK p \in {"nonce", "tokenResponse"} :
          /\ Moves("sender", p) /\ conn = "up"
          /\ p = "nonce" => pc["sender"] = "channel"
          /\ p = "tokenResponse" => /\ pc["sender"] = "nonce" /\ Receives("sender", "nonce")
                                    /\ wire' = [wire EXCEPT !["sender"] = @ \o <<Token>>]
    BY <2>1
  <2>3. pc'["sender"] = p /\ pc'["receiver"] = pc["receiver"] /\ tries["sender"] = 0
    BY <1>p, <1>i, <2>2, Moved DEF TriesInv
  <2>4. p = "tokenResponse" => Coming("sender") # <<>> /\ Coming("sender")' = <<>>
    <3>1. SUFFICES ASSUME p = "tokenResponse" PROVE Coming("sender") # <<>> /\ Coming("sender")' = <<>>
      OBVIOUS
    <3>2. Coming("sender") # <<>>
      BY <1>p, <2>2, <3>1, Hearing
    <3>3. Coming("sender") = <<Nonce>>
      BY <1>p, <2>2, <3>1, <3>2 DEF TalkInv, Expect
    <3> QED
      BY <1>p, <1>w, <2>2, <3>1, <3>2, <3>3, Reply
  <2>5. pc["receiver"] \in Over \cup {"channel", "nonce", "token"}
    BY <2>2, <2>4, Audience
  <2>6. ReceiverPin' /\ SenderPin' /\ TooManyInv'
    <3>1. <<Text("tokenResponse", "ok")>> # <<>>
      BY Tuples
    <3> QED
      BY <2>2, <2>3, <2>4, <2>5, <3>1 DEF ReceiverPin, SenderPin, TooManyInv, Listed, Over
  <2> QED
    BY <1>p, <1>u, <2>2, <2>3, <2>5, <2>6, PinStays DEF Over
<1>3. CASE e = "receiver" /\ ~(Fail(e, "unexpected") /\ \E q : Receives(e, q))
  <2>2. PICK p \in {"nonce", "token"} :
          /\ Moves("receiver", p) /\ pc["receiver"] \in {"channel", "nonce"}
          /\ \/ wire' = wire /\ inbox' = inbox
             \/ conn = "up" /\ pc["receiver"] = "nonce" /\ Coming("receiver") # <<>>
    <3>1. CASE StartTask("receiver")
      BY <3>1 DEF StartTask, Moves, Quietly
    <3>2. CASE ReceiveNonce("receiver")
      <4>1. Coming("receiver") # <<>>
        BY <1>p, <3>2, Hearing DEF ReceiveNonce
      <4> QED
        BY <1>w, <1>3, <3>2, <4>1 DEF ReceiveNonce, Moves, Say, Nonce, Receives
    <3> QED
      BY <1>3, <3>1, <3>2
  <2>3. pc'["receiver"] = p /\ pc'["sender"] = pc["sender"] /\ tries["receiver"] = 0
    BY <1>p, <1>i, <2>2, Moved DEF TriesInv
  <2>4. Coming("sender")' = Coming("sender") \/ pc["sender"] \in Over \cup {"nonce"}
    BY <1>p, <2>2, Audience, Comes
  <2>6. ReceiverPin' /\ SenderPin' /\ TooManyInv'
    BY <1>i, <1>u, <2>2, <2>3, <2>4
       DEF ReceiverPin, SenderPin, TooManyInv, Listed, Over, Settled, pinVars
  <2> QED
    BY <1>p, <1>u, <2>2, <2>3, <2>4, <2>6, PinStays DEF Over
<1> QED
  BY <1>p, <1>1, <1>2, <1>3

\* The receiver says Ok to a token only if it wants no PIN.
LEMMA PinToken ==
  ASSUME TypeInv, TalkInv, PinInv, ReceiveToken
  PROVE  PinInv'
<1>p. /\ {"verify", "list", "failed"} \subseteq Pcs("receiver")
      /\ {"unexpected", "signature"} \subseteq Errors
      /\ Peer("sender") = "receiver" /\ Peer("receiver") = "sender"
      /\ "sender" \in Ends /\ "receiver" \in Ends
  BY DEF Pcs, SenderPcs, ReceiverPcs, Ends, Errors, Peer
<1>w. /\ \A x \in {"ok", "pin", "invalid"} : <<Text("tokenResponse", x)>> \in Seq(Messages)
      /\ \A x, y : <<Text("tokenResponse", x)>> = <<Text("tokenResponse", y)>> => x = y
  <2>1. \A x, y : Text("tokenResponse", x) = Text("tokenResponse", y) => x = y
    BY DEF Text
  <2> QED
    BY <2>1, MessageFacts, Tuples
<1>i. TriesInv("receiver") /\ ReceiverPin /\ SenderPin /\ TooManyInv
  BY <1>p DEF PinInv
<1>1. /\ pc["receiver"] = "token" /\ Receives("receiver", "token") /\ chunks' = chunks
      /\ Coming("receiver") # <<>> /\ UNCHANGED pinVars
  BY <1>p, Hearing DEF ReceiveToken, Receives
<1>2. Coming("receiver") = <<Token>> /\ chunks["receiver"] = <<>>
  BY <1>p, <1>1 DEF TalkInv, Expect, Over
<1>3. CASE Fail("receiver", "unexpected")
  <2>1. Moves("receiver", "failed") /\ wire' = wire
    BY <1>3, <1>p DEF Moves, Fail
  <2> QED
    BY <1>p, <1>1, <2>1, PinStops DEF Over
<1>4. ASSUME NEW x \in {"ok", "pin", "invalid"}, NEW p \in {"verify", "list", "failed"},
             Moves("receiver", p), conn = "up", x = "ok" => "receiver" \notin pins,
             wire' = [wire EXCEPT !["receiver"] = @ \o <<Text("tokenResponse", x)>>]
      PROVE  PinInv'
  <2>1. /\ Coming("receiver")' = <<>>
        /\ Coming("sender")' = Coming("sender") \o <<Text("tokenResponse", x)>>
    BY <1>p, <1>w, <1>1, <1>2, <1>4, Reply
  <2>2. \/ pc["sender"] \in Over
        \/ pc["sender"] = "tokenResponse" /\ Coming("sender")' = <<Text("tokenResponse", x)>>
    BY <1>1, <1>4, <1>w, <2>1, Speak, Audience
  <2>3. pc'["receiver"] = p /\ pc'["sender"] = pc["sender"] /\ tries["receiver"] = 0
    BY <1>p, <1>i, <1>1, <1>4, Moved DEF TriesInv
  <2>4. ReceiverPin' /\ SenderPin'
    BY <1>i, <1>1, <1>4, <1>w, <2>2, <2>3 DEF ReceiverPin, SenderPin, Listed, Over, Settled, pinVars
  <2>5. TooManyInv'
    <3>1. <<Binary("tooMany", None)>> # <<>> /\ InChunks("tooMany", None) # <<>>
      BY Tuples DEF InChunks
    <3> QED
      BY <1>1, <1>2, <2>1, <3>1 DEF TooManyInv
  <2> QED
    BY <1>p, <1>1, <1>4, <2>1, <2>2, <2>3, <2>4, <2>5, PinStays, ConstantsAssumption DEF Over
<1>5. CASE "receiver" \in pins /\ Say("receiver", <<Text("tokenResponse", "pin")>>, "verify")
  <2>1. Moves("receiver", "verify")
    BY <1>5, <1>w DEF Moves
  <2> QED
    BY <1>4, <1>5, <2>1 DEF Say
<1>6. CASE "receiver" \notin pins /\ Say("receiver", <<Text("tokenResponse", "ok")>>, "list")
  <2>1. Moves("receiver", "list")
    BY <1>6, <1>w DEF Moves
  <2> QED
    BY <1>4, <1>6, <2>1 DEF Say
<1>7. CASE LastWords("receiver", <<Text("tokenResponse", "invalid")>>, "signature")
  <2>1. Moves("receiver", "failed")
    BY <1>7, <1>w, <1>p DEF Moves
  <2> QED
    BY <1>4, <1>7, <2>1 DEF LastWords
<1> QED
  BY <1>3, <1>5, <1>6, <1>7 DEF ReceiveToken

\* The sender goes on only after an Ok.
LEMMA PinResponse ==
  ASSUME TypeInv, TalkInv, PinInv, ReceiveTokenResponse \/ ReceivePinResponse
  PROVE  PinInv'
<1>p. /\ {"enter", "verify", "selection", "failed"} \subseteq Pcs("sender")
      /\ {"unexpected", "signature", "tooMany"} \subseteq Errors
      /\ Peer("sender") = "receiver" /\ Peer("receiver") = "sender"
      /\ "sender" \in Ends /\ "receiver" \in Ends
  BY DEF Pcs, SenderPcs, ReceiverPcs, Ends, Errors, Peer
<1>w. \A t \in {"pinRequired", "list"} : InChunks(t, None) \in Seq(Messages)
  BY MessageFacts DEF Long
<1>i. TriesInv("sender") /\ ReceiverPin /\ SenderPin /\ TooManyInv
  BY <1>p DEF PinInv
<1>1. /\ pc["sender"] \in {"tokenResponse", "pinResponse"} /\ Receives("sender", pc["sender"])
      /\ chunks' = chunks /\ Coming("sender") # <<>> /\ UNCHANGED pinVars
  BY <1>p, Hearing DEF ReceiveTokenResponse, ReceivePinResponse, Receives
<1>2. PICK m : Coming("sender") = <<m>> /\ (pc["sender"] = "tokenResponse" => m = Text("tokenResponse", m.x))
  <2>1. \A x : Text("tokenResponse", x).x = x
    BY DEF Text
  <2> QED
    BY <1>p, <1>1, <2>1 DEF TalkInv, Expect
<1>3. Message("sender") = m /\ tries["sender"] = 0
  BY <1>p, <1>i, <1>1, <1>2, Reply DEF TriesInv
<1>4. \/ \E why \in Errors : Fail("sender", why)
      \/ Quietly("sender", "enter")
      \/ /\ SenderVerifies
         /\ \/ pc["sender"] = "tokenResponse" /\ m.x = "ok"
            \/ pc["sender"] = "pinResponse" /\ m = Text("pinOk", None)
  <2>1. CASE ReceiveTokenResponse
    BY <1>3, <1>p, <2>1 DEF ReceiveTokenResponse, Receives
  <2>2. CASE ReceivePinResponse
    BY <1>3, <1>p, <2>2 DEF ReceivePinResponse, Receives
  <2> QED
    BY <2>1, <2>2
<1>5. CASE \E why \in Errors : Fail("sender", why)
  <2>1. Moves("sender", "failed") /\ wire' = wire
    BY <1>5 DEF Moves, Fail
  <2> QED
    BY <1>p, <1>1, <2>1, PinStops DEF Over
<1>6. CASE Quietly("sender", "enter")
  <2>1. Moves("sender", "enter") /\ wire' = wire
    BY <1>6 DEF Moves, Quietly
  <2>2. Coming("receiver")' = Coming("receiver")
    BY <1>p, <1>1, <1>2, <2>1, Reply
  <2>3. pc'["sender"] = "enter" /\ pc'["receiver"] = pc["receiver"]
    BY <1>p, <2>1, Moved
  <2>4. ReceiverPin' /\ SenderPin' /\ TooManyInv'
    BY <1>i, <1>1, <2>2, <2>3 DEF ReceiverPin, SenderPin, TooManyInv, Listed, pinVars
  <2> QED
    BY <1>p, <1>1, <1>3, <2>1, <2>2, <2>4, PinStays
<1>7. CASE /\ SenderVerifies
           /\ \/ pc["sender"] = "tokenResponse" /\ m.x = "ok"
              \/ pc["sender"] = "pinResponse" /\ m = Text("pinOk", None)
  <2>1. PICK t \in {"pinRequired", "list"}, p \in {"verify", "selection"} :
          /\ Say("sender", InChunks(t, None), p)
          /\ p = "selection" => "sender" \notin pins
    BY <1>7 DEF SenderVerifies
  <2>2. Moves("sender", p) /\ wire' = [wire EXCEPT !["sender"] = @ \o InChunks(t, None)] /\ conn = "up"
    BY <1>w, <2>1 DEF Moves, Say
  <2>3. Coming("sender")' = <<>> /\ Coming("receiver")' = Coming("receiver") \o InChunks(t, None)
    BY <1>p, <1>w, <1>1, <1>2, <2>2, Reply
  <2>4. \/ pc["sender"] = "tokenResponse" /\ Coming("sender") = <<Text("tokenResponse", "ok")>>
        \/ pc["sender"] = "pinResponse" /\ Coming("sender") = <<Text("pinOk", None)>>
    BY <1>2, <1>7
  <2>5. \/ pc["receiver"] \in Over
        \/ pc["receiver"] = "list" /\ Coming("receiver") = <<>> /\ chunks["receiver"] = <<>>
    BY <2>2, <2>4, Audience
  <2>6. \/ pc["receiver"] \in Over
        \/ /\ pc["receiver"] = "list" /\ Coming("receiver")' = InChunks(t, None)
           /\ chunks["receiver"] = <<>>
    BY <1>w, <2>3, <2>5, Speak
  <2>7. pc'["sender"] = p /\ pc'["receiver"] = pc["receiver"]
    BY <1>p, <2>2, Moved
  <2>8. ReceiverPin' /\ SenderPin'
    BY <1>i, <1>1, <2>1, <2>4, <2>7 DEF ReceiverPin, SenderPin, Settled, pinVars, Listed
  <2>9. TooManyInv'
    <3>1. /\ <<Binary("tooMany", None)>> # <<>> /\ <<Binary("tooMany", None)>> # InChunks(t, None)
          /\ InChunks("tooMany", None) # InChunks(t, None)
      <4>1. Binary("tooMany", None) # Binary(t, None)
        BY DEF Binary
      <4> QED
        BY <4>1, Tuples DEF InChunks
    <3> QED
      BY <1>1, <2>6, <2>7, <3>1 DEF TooManyInv, Over
  <2>10. p = "verify" => tries["sender"] < MaxTries
    BY <1>3, ConstantsAssumption
  <2>11. pc["receiver"] # "verify"
    BY <2>5 DEF Over
  <2> QED
    BY <1>p, <1>1, <1>3, <2>2, <2>3, <2>8, <2>9, <2>10, <2>11, PinStays
<1> QED
  BY <1>4, <1>5, <1>6, <1>7
\* The PIN that is sent is the one that was typed.
LEMMA PinEnter ==
  ASSUME TypeInv, TalkInv, PinInv, NEW e \in Ends, EnterPin(e)
  PROVE  PinInv'
<1>p. /\ {"pinResponse", "failed"} \subseteq Pcs("sender") /\ "list" \in Pcs("receiver")
      /\ "user" \in Errors
      /\ Peer("sender") = "receiver" /\ Peer("receiver") = "sender"
      /\ "sender" \in Ends /\ "receiver" \in Ends
      /\ e = "sender" \/ e = "receiver"
      /\ \A d \in Ends : d = "sender" \/ d = "receiver"
  BY DEF Pcs, SenderPcs, ReceiverPcs, Ends, Errors, Peer
<1>w. /\ \A x \in {"wrong", "right"} : <<Text("pin", x)>> \in Seq(Messages)
      /\ \A x, y : <<Text("pin", x)>> = <<Text("pin", y)>> => x = y
  <2>1. \A x, y : Text("pin", x) = Text("pin", y) => x = y
    BY DEF Text
  <2> QED
    BY <2>1, MessageFacts, Tuples
<1>i. /\ TriesInv("sender") /\ TypedInv("sender") /\ TriesInv("receiver") /\ TypedInv("receiver")
      /\ ReceiverPin /\ SenderPin /\ TooManyInv
  BY <1>p DEF PinInv
<1>1. pc[e] = "enter" /\ UNCHANGED <<inbox, chunks, pins, tries>>
  BY DEF EnterPin
<1>2. Coming(e) = <<>>
  BY <1>1 DEF TalkInv, Expect
<1>t. typed \in [Ends -> {"no", "wrong", "right"}]
  BY DEF TypeInv, ChannelType
<1>3. CASE Fail(e, "user") /\ typed' = typed
  <2>1. Moves(e, "failed") /\ wire' = wire /\ UNCHANGED pinVars
    BY <1>1, <1>3, <1>p DEF Moves, Fail, pinVars
  <2> QED
    BY <1>1, <2>1, PinStops DEF Over
<1>4. ASSUME NEW x \in {"wrong", "right"}, e = "sender", PinEntered("sender", x),
             Say("sender", <<Text("pin", x)>>, "pinResponse")
      PROVE  PinInv'
  <2>1. /\ Moves("sender", "pinResponse") /\ conn = "up"
        /\ wire' = [wire EXCEPT !["sender"] = @ \o <<Text("pin", x)>>]
    BY <1>4, <1>w DEF Moves, Say
  <2>2. Coming("sender")' = <<>> /\ Coming("receiver")' = Coming("receiver") \o <<Text("pin", x)>>
    BY <1>p, <1>w, <1>1, <1>2, <1>4, <2>1, Comes
  <2>3. \/ pc["receiver"] \in Over
        \/ pc["receiver"] = "verify" /\ Coming("receiver")' = <<Text("pin", x)>>
    BY <1>w, <1>1, <1>4, <2>1, <2>2, Speak, Audience
  <2>4. pc'["sender"] = "pinResponse" /\ pc'["receiver"] = pc["receiver"]
    BY <1>p, <2>1, Moved
  <2>5. typed'["sender"] = x /\ typed'["receiver"] = typed["receiver"]
    BY <1>p, <1>t, <1>4 DEF PinEntered
  <2>6. TriesInv("sender")' /\ TriesInv("receiver")'
    BY <1>i, <1>1, <1>4, <2>4 DEF TriesInv
  <2>7. TypedInv("sender")' /\ TypedInv("receiver")'
    BY <1>p, <1>w, <2>3, <2>4, <2>5 DEF TypedInv, Over
  <2>8. ReceiverPin' /\ SenderPin' /\ TooManyInv'
    <3>1. <<Text("pinOk", None)>> # <<>>
      BY Tuples
    <3> QED
      BY <2>2, <2>3, <2>4, <3>1 DEF ReceiverPin, SenderPin, TooManyInv, Listed, Over
  <2> QED
    BY <1>p, <2>6, <2>7, <2>8 DEF PinInv
<1>5. ASSUME NEW x \in {"wrong", "right"}, e = "receiver", PinEntered("receiver", x),
             Say("receiver", <<Text("pin", x)>>, "list")
      PROVE  PinInv'
  <2>1. /\ Moves("receiver", "list") /\ conn = "up"
        /\ wire' = [wire EXCEPT !["receiver"] = @ \o <<Text("pin", x)>>]
    BY <1>5, <1>w DEF Moves, Say
  <2>2. Coming("sender")' = Coming("sender") \o <<Text("pin", x)>>
    BY <1>p, <1>w, <1>1, <1>5, <2>1, Comes
  <2>3. \/ pc["sender"] \in Over
        \/ pc["sender"] = "verify" /\ Coming("sender")' = <<Text("pin", x)>>
    BY <1>w, <1>1, <1>5, <2>1, <2>2, Speak, Audience
  <2>4. pc'["receiver"] = "list" /\ pc'["sender"] = pc["sender"]
    BY <1>p, <2>1, Moved
  <2>5. typed'["receiver"] = x /\ typed'["sender"] = typed["sender"]
    BY <1>p, <1>t, <1>5 DEF PinEntered
  <2>6. TriesInv("sender")' /\ TriesInv("receiver")'
    BY <1>i, <1>1, <1>5, <2>4 DEF TriesInv
  <2>7. TypedInv("sender")' /\ TypedInv("receiver")'
    BY <1>p, <1>w, <2>3, <2>4, <2>5 DEF TypedInv, Over
  <2>8. ReceiverPin' /\ SenderPin' /\ TooManyInv'
    BY <1>p, <1>i, <1>1, <2>3, <2>4, <2>5
       DEF ReceiverPin, SenderPin, TooManyInv, Listed, Over, Settled
  <2> QED
    BY <1>p, <2>6, <2>7, <2>8 DEF PinInv
<1> QED
  BY <1>3, <1>4, <1>5, <1>p DEF EnterPin

\* The right PIN settles it, a wrong one counts.
LEMMA PinVerify ==
  ASSUME TypeInv, TalkInv, PinInv, NEW e \in Ends, VerifyPin(e)
  PROVE  PinInv'
<1>p. /\ {"verify", "selection", "failed"} \subseteq Pcs("sender")
      /\ {"verify", "list", "failed"} \subseteq Pcs("receiver")
      /\ {"tooMany", "unexpected"} \subseteq Errors
      /\ Peer("sender") = "receiver" /\ Peer("receiver") = "sender"
      /\ "sender" \in Ends /\ "receiver" \in Ends
      /\ e = "sender" \/ e = "receiver"
      /\ \A d \in Ends : d = "sender" \/ d = "receiver"
  BY DEF Pcs, SenderPcs, ReceiverPcs, Ends, Errors, Peer
<1>w. /\ \A t \in {"pinOk", "pinRequired", "tooMany"} : <<Text(t, None)>> \in Seq(Messages)
      /\ \A t \in {"list", "pinRequired", "tooMany"} : InChunks(t, None) \in Seq(Messages)
      /\ \A t, u : <<Text(t, None)>> = <<Text(u, None)>> => t = u
  <2>1. \A t, u : Text(t, None) = Text(u, None) => t = u
    BY DEF Text
  <2> QED
    BY <2>1, MessageFacts, Tuples DEF Plain, Long
<1>i. /\ TriesInv("sender") /\ TypedInv("sender") /\ TriesInv("receiver") /\ TypedInv("receiver")
      /\ ReceiverPin /\ SenderPin /\ TooManyInv
  BY <1>p DEF PinInv
<1>1. /\ pc[e] = "verify" /\ Receives(e, "verify") /\ chunks' = chunks /\ Coming(e) # <<>>
      /\ UNCHANGED <<pins, typed>>
  BY Hearing DEF VerifyPin, Receives
<1>2. PICK x \in {"wrong", "right"} : Coming(e) = <<Text("pin", x)>>
  BY <1>1 DEF TalkInv, Expect
<1>3. Message(e) = Text("pin", x) /\ chunks[e] = <<>> /\ typed[Peer(e)] = x
  BY <1>1, <1>2, Reply DEF TalkInv, Expect, Over, PinInv, TypedInv
<1>4. Message(e).t = "pin" /\ Message(e).x = x
  BY <1>3 DEF Text
<1>5. /\ tries' = [tries EXCEPT ![e] = @ + 1] /\ tries \in [Ends -> Nat]
      /\ tries[e] + 1 \in 0 .. MaxTries /\ MaxTries \in Nat
  <2>1. tries' = [tries EXCEPT ![e] = @ + 1]
    BY <1>4 DEF VerifyPin
  <2>2. tries \in [Ends -> Nat] /\ MaxTries \in Nat
    BY ConstantsAssumption DEF TypeInv, ChannelType
  <2>3. tries[e] < MaxTries /\ tries[e] \in Nat
    BY <1>1, <2>2 DEF PinInv, TriesInv
  <2> QED
    BY <2>1, <2>2, <2>3
<1>6. \/ x = "right" /\ e = "receiver" /\ Say(e, Verdict(e, "pinOk"), "list")
      \/ x = "right" /\ e # "receiver" /\ Say(e, InChunks("list", None), "selection")
      \/ tries[e] + 1 < MaxTries /\ Say(e, Verdict(e, "pinRequired"), "verify")
      \/ LastWords(e, Verdict(e, "tooMany"), "tooMany")
  <2>1. tries[e] + 1 < MaxTries \/ tries[e] + 1 >= MaxTries
    BY <1>5
  <2>2. x = "right" => \/ e = "receiver" /\ Say(e, Verdict(e, "pinOk"), "list")
                       \/ e # "receiver" /\ Say(e, InChunks("list", None), "selection")
    BY <1>4 DEF VerifyPin
  <2>3. x = "wrong" => \/ tries[e] + 1 < MaxTries /\ Say(e, Verdict(e, "pinRequired"), "verify")
                       \/ LastWords(e, Verdict(e, "tooMany"), "tooMany")
    BY <1>4, <2>1 DEF VerifyPin
  <2> QED
    BY <2>2, <2>3
<1>7. ASSUME e = "receiver", NEW t \in {"pinOk", "pinRequired", "tooMany"},
             NEW p \in {"list", "verify", "failed"}, Moves("receiver", p), conn = "up",
             wire' = [wire EXCEPT !["receiver"] = @ \o <<Text(t, None)>>],
             t = "pinOk" => x = "right", p = "verify" => tries[e] + 1 < MaxTries
      PROVE  PinInv'
  <2>1. Coming("receiver")' = <<>> /\ Coming("sender")' = Coming("sender") \o <<Text(t, None)>>
    BY <1>p, <1>w, <1>1, <1>2, <1>7, Reply
  <2>2. \/ pc["sender"] \in Over
        \/ pc["sender"] = "pinResponse" /\ Coming("sender")' = <<Text(t, None)>>
    BY <1>w, <1>1, <1>7, <2>1, Speak, Audience
  <2>3. pc'["receiver"] = p /\ pc'["sender"] = pc["sender"]
    BY <1>p, <1>7, Moved
  <2>4. tries'["receiver"] = tries["receiver"] + 1 /\ tries'["sender"] = tries["sender"]
    BY <1>p, <1>5, <1>7
  <2>5. tries["receiver"] \in Nat /\ tries["sender"] \in Nat
    BY <1>p, <1>5
  <2>6. TriesInv("sender")' /\ TriesInv("receiver")'
    BY <1>i, <1>5, <1>7, <2>3, <2>4 DEF TriesInv
  <2>7. TypedInv("sender")' /\ TypedInv("receiver")'
    <3>1. \A y : <<Text("pin", y)>> # <<>>
      BY Tuples
    <3> QED
      BY <2>1, <2>2, <2>3, <3>1 DEF TypedInv, Over
  <2>8. ReceiverPin'
    <3>1. t = "pinOk" => Settled("receiver")'
      <4>1. t = "pinOk" => typed'["sender"] = "right"
        BY <1>1, <1>3, <1>7, <1>p
      <4>2. tries'["receiver"] >= 1
        BY <2>4, <2>5
      <4> QED
        BY <1>p, <4>1, <4>2 DEF Settled
    <3> QED
      BY <1>w, <2>2, <2>3, <3>1 DEF ReceiverPin, Listed, Over
  <2>9. SenderPin'
    BY <2>2, <2>3 DEF SenderPin, Listed, Over
  <2>10. TooManyInv'
    <3>1. <<Binary("tooMany", None)>> # <<>> /\ InChunks("tooMany", None) # <<>>
      BY Tuples DEF InChunks
    <3> QED
      BY <1>1, <1>3, <1>7, <2>1, <3>1 DEF TooManyInv
  <2> QED
    BY <1>p, <2>6, <2>7, <2>8, <2>9, <2>10 DEF PinInv
<1>8. ASSUME e = "sender", NEW t \in {"list", "pinRequired", "tooMany"},
             NEW p \in {"selection", "verify", "failed"}, Moves("sender", p), conn = "up",
             wire' = [wire EXCEPT !["sender"] = @ \o InChunks(t, None)],
             p = "selection" => x = "right", p = "verify" => tries[e] + 1 < MaxTries
      PROVE  PinInv'
  <2>1. Coming("sender")' = <<>>
    BY <1>p, <1>w, <1>1, <1>2, <1>8, Reply
  <2>2. pc["receiver"] \in Over \/ pc["receiver"] = "list"
    BY <1>1, <1>8, Audience
  <2>3. pc'["sender"] = p /\ pc'["receiver"] = pc["receiver"]
    BY <1>p, <1>8, Moved
  <2>4. tries'["sender"] = tries["sender"] + 1 /\ tries'["receiver"] = tries["receiver"]
    BY <1>p, <1>5, <1>8
  <2>5. tries["sender"] \in Nat
    BY <1>p, <1>5
  <2>6. TriesInv("sender")' /\ TriesInv("receiver")'
    BY <1>i, <1>5, <1>8, <2>3, <2>4 DEF TriesInv
  <2>7. TypedInv("sender")' /\ TypedInv("receiver")'
    <3>1. \A y : <<Text("pin", y)>> # <<>>
      BY Tuples
    <3> QED
      BY <2>1, <2>2, <2>3, <3>1 DEF TypedInv, Over
  <2>8. ReceiverPin'
    BY <1>i, <1>1, <1>8, <2>3, <2>4 DEF ReceiverPin, Listed, Settled
  <2>9. SenderPin'
    <3>1. p = "selection" => typed'["receiver"] = "right"
      BY <1>1, <1>3, <1>8, <1>p
    <3>2. tries'["sender"] >= 1
      BY <2>4, <2>5
    <3> QED
      BY <1>p, <1>8, <2>3, <3>1, <3>2 DEF SenderPin, Listed, Settled
  <2>10. TooManyInv'
    BY <1>1, <1>3, <1>8, <1>p DEF TooManyInv
  <2> QED
    BY <1>p, <2>6, <2>7, <2>8, <2>9, <2>10 DEF PinInv
<1>9. CASE e = "receiver"
  <2>1. \E t \in {"pinOk", "pinRequired", "tooMany"}, p \in {"list", "verify", "failed"} :
          /\ Moves("receiver", p) /\ conn = "up"
          /\ wire' = [wire EXCEPT !["receiver"] = @ \o <<Text(t, None)>>]
          /\ t = "pinOk" => x = "right"
          /\ p = "verify" => tries[e] + 1 < MaxTries
    <3>1. CASE x = "right" /\ Say(e, <<Text("pinOk", None)>>, "list")
      BY <1>9, <1>w, <3>1 DEF Moves, Say
    <3>2. CASE tries[e] + 1 < MaxTries /\ Say(e, <<Text("pinRequired", None)>>, "verify")
      BY <1>9, <1>w, <3>2 DEF Moves, Say
    <3>3. CASE LastWords(e, <<Text("tooMany", None)>>, "tooMany")
      BY <1>9, <1>p, <1>w, <3>3 DEF Moves, LastWords
    <3> QED
      BY <1>6, <1>9, <3>1, <3>2, <3>3 DEF Verdict
  <2> QED
    BY <1>7, <1>9, <2>1
<1>10. CASE e = "sender"
  <2>1. \E t \in {"list", "pinRequired", "tooMany"}, p \in {"selection", "verify", "failed"} :
          /\ Moves("sender", p) /\ conn = "up"
          /\ wire' = [wire EXCEPT !["sender"] = @ \o InChunks(t, None)]
          /\ p = "selection" => x = "right"
          /\ p = "verify" => tries[e] + 1 < MaxTries
    <3>1. CASE x = "right" /\ Say(e, InChunks("list", None), "selection")
      BY <1>10, <1>w, <3>1 DEF Moves, Say
    <3>2. CASE tries[e] + 1 < MaxTries /\ Say(e, InChunks("pinRequired", None), "verify")
      BY <1>10, <1>w, <3>2 DEF Moves, Say
    <3>3. CASE LastWords(e, InChunks("tooMany", None), "tooMany")
      BY <1>10, <1>p, <1>w, <3>3 DEF Moves, LastWords
    <3> QED
      BY <1>6, <1>10, <3>1, <3>2, <3>3 DEF Verdict
  <2> QED
    BY <1>8, <1>10, <2>1
<1> QED
  BY <1>p, <1>9, <1>10

\* Strings and files.
LEMMA PinStrings ==
  ASSUME TypeInv, TalkInv, PinInv,
         \/ Collect("sender", "selection") \/ Collect("receiver", "list")
         \/ ReceiveList \/ ReceiveSelection \/ Select
  PROVE  PinInv'
<1>p. /\ {"selection", "next", "done", "failed"} \subseteq Pcs("sender")
      /\ {"list", "select", "enter", "files", "done", "failed"} \subseteq Pcs("receiver")
      /\ {"tooMany", "unexpected", "user"} \subseteq Errors
      /\ Peer("sender") = "receiver" /\ Peer("receiver") = "sender"
      /\ "sender" \in Ends /\ "receiver" \in Ends
  BY DEF Pcs, SenderPcs, ReceiverPcs, Ends, Errors, Peer
<1>i. ReceiverPin /\ SenderPin /\ TooManyInv
  BY DEF PinInv
<1>1. CASE Collect("sender", "selection") \/ ReceiveSelection
  <2>1. PICK p \in {"selection", "next", "done", "failed"} :
          /\ pc["sender"] = "selection" /\ Moves("sender", p) /\ wire' = wire
          /\ Receives("sender", "selection") /\ UNCHANGED pinVars
          /\ chunks'["receiver"] = chunks["receiver"]
    <3>1. /\ pc["sender"] = "selection" /\ Receives("sender", "selection") /\ UNCHANGED pinVars
      BY <1>1 DEF Collect, ReceiveSelection, StringEnds, Receives
    <3>2. chunks'["receiver"] = chunks["receiver"]
      BY <1>1, <1>p DEF Collect, ReceiveSelection, StringEnds, TypeInv, ChannelType
    <3>3. \E p \in {"selection", "next", "done", "failed"} : Moves("sender", p) /\ wire' = wire
      BY <1>1, <1>p DEF Collect, ReceiveSelection, PublishSelection, Moves, Quietly, Fail
    <3> QED
      BY <3>1, <3>2, <3>3
  <2>2. Coming("receiver")' = Coming("receiver")
    BY <1>p, <2>1, Comes
  <2>3. pc'["sender"] = p /\ pc'["receiver"] = pc["receiver"]
    BY <1>p, <2>1, Moved
  <2>4. ReceiverPin' /\ SenderPin' /\ TooManyInv'
    BY <1>i, <2>1, <2>2, <2>3 DEF ReceiverPin, SenderPin, TooManyInv, Settled, Listed, pinVars
  <2> QED
    BY <1>p, <2>1, <2>2, <2>4, PinStays
<1>2. CASE Collect("receiver", "list")
  <2>1. /\ pc["receiver"] = "list" /\ Receives("receiver", "list") /\ Message("receiver").bin
        /\ Moves("receiver", "list") /\ wire' = wire /\ UNCHANGED pinVars
        /\ chunks' = [chunks EXCEPT !["receiver"] = Append(@, Message("receiver"))]
    BY <1>2 DEF Collect, Receives, Moves, Quietly
  <2>2. Chunked(Coming("receiver"), chunks["receiver"], {"list", "pinRequired", "tooMany"})
    BY <1>p, <2>1 DEF TalkInv, Expect
  <2>3. PICK t \in {"list", "pinRequired", "tooMany"} :
              /\ Message("receiver") = Binary(t, None) /\ chunks["receiver"] = <<>>
              /\ \/ Coming("receiver") = <<Binary(t, None)>> /\ Tail(Coming("receiver")) = <<>>
                 \/ Coming("receiver") = InChunks(t, None) /\ Tail(Coming("receiver")) = <<Delimiter>>
    BY <1>p, <2>1, <2>2, Reading
  <2>4. Coming("receiver")' = Tail(Coming("receiver")) /\ Coming("sender")' = Coming("sender")
    BY <1>p, <2>1, Comes
  <2>5. chunks'["receiver"] = <<Binary(t, None)>>
    BY <1>p, <2>1, <2>3 DEF TypeInv, ChannelType
  <2>6. pc'["receiver"] = "list" /\ pc'["sender"] = pc["sender"]
    BY <1>p, <2>1, Moved
  <2>7. ReceiverPin' /\ SenderPin'
    BY <1>i, <2>1, <2>4, <2>6 DEF ReceiverPin, SenderPin, Settled, pinVars
  <2>8. TooManyInv'
    <3>1. t = "tooMany" => typed["receiver"] # "no"
      BY <1>i, <2>1, <2>3 DEF TooManyInv
    <3>2. t # "tooMany" => chunks'["receiver"] # <<Binary("tooMany", None)>>
      <4>1. t # "tooMany" => Binary(t, None) # Binary("tooMany", None)
        BY DEF Binary
      <4> QED
        BY <2>5, <4>1, Tuples
    <3>3. /\ Coming("receiver")' # <<Binary("tooMany", None)>>
          /\ Coming("receiver")' # InChunks("tooMany", None)
      <4>1. Delimiter # Binary("tooMany", None)
        BY DEF Delimiter, Text, Binary
      <4>2. \A a, b, c : <<a, b>> # <<c>>
        BY Tuples
      <4> QED
        BY <2>3, <2>4, <4>1, <4>2, Tuples DEF InChunks
    <3> QED
      BY <2>1, <3>1, <3>2, <3>3 DEF TooManyInv, pinVars
  <2> QED
    BY <1>p, <2>1, <2>4, <2>7, <2>8, PinStays
<1>3. CASE ReceiveList \/ Select
  <2>1. PICK p \in {"select", "enter", "files", "done", "failed"} :
          /\ pc["receiver"] \in {"list", "select"} /\ Moves("receiver", p) /\ UNCHANGED pinVars
          /\ chunks'["sender"] = chunks["sender"]
          /\ \/ wire' = wire /\ (inbox' = inbox \/ \E q : Receives("receiver", q))
             \/ pc["receiver"] = "select" /\ conn = "up"
    <3>1. CASE ReceiveList
      <4>1. /\ pc["receiver"] = "list" /\ Receives("receiver", "list") /\ UNCHANGED pinVars
            /\ chunks'["sender"] = chunks["sender"]
        BY <3>1, <1>p DEF ReceiveList, StringEnds, Receives, TypeInv, ChannelType
      <4>2. \E p \in {"select", "enter", "failed"} : Moves("receiver", p) /\ wire' = wire
        BY <3>1, <1>p DEF ReceiveList, Moves, Quietly, Fail
      <4> QED
        BY <4>1, <4>2
    <3>2. CASE Select
      <4>1. /\ pc["receiver"] = "select" /\ inbox' = inbox /\ chunks' = chunks /\ UNCHANGED pinVars
        BY <3>2 DEF Select
      <4>2. \A t \in {"selection", "declined"} : InChunks(t, None) \in Seq(Messages)
        BY MessageFacts DEF Long
      <4>3. \E p \in {"files", "done"} : Moves("receiver", p) /\ (wire' = wire \/ conn = "up")
        BY <3>2, <4>2 DEF Select, SendSelection, Decline, Moves, Say
      <4> QED
        BY <4>1, <4>3
    <3> QED
      BY <1>3, <3>1, <3>2
  <2>2. Coming("sender")' = Coming("sender") \/ pc["sender"] \in Over \cup {"selection"}
    BY <1>p, <2>1, Audience, Comes
  <2>3. pc'["receiver"] = p /\ pc'["sender"] = pc["sender"]
    BY <1>p, <2>1, Moved
  <2>4. ReceiverPin' /\ SenderPin' /\ TooManyInv'
    BY <1>i, <2>1, <2>2, <2>3
       DEF ReceiverPin, SenderPin, TooManyInv, Settled, Listed, Over, pinVars
  <2> QED
    BY <1>p, <2>1, <2>2, <2>4, PinStays DEF Over
<1> QED
  BY <1>1, <1>2, <1>3

\* While files are sent, nothing is said about PINs.
LEMMA PinFiles ==
  ASSUME TypeInv, TalkInv, PinInv,
         \/ \E f \in Files : \E n \in 0 .. Size[f] + 1 : SendFile(f, n)
         \/ SendChunk \/ SendDelimiter \/ ReceiveText \/ ReceiveResult \/ HandleHeader
         \/ ReceiveData
  PROVE  PinInv'
<1>p. /\ {"next", "stream", "last"} \subseteq Pcs("sender")
      /\ {"files", "result", "header", "flush", "failed"} \subseteq Pcs("receiver")
      /\ Peer("sender") = "receiver" /\ Peer("receiver") = "sender"
      /\ "sender" \in Ends /\ "receiver" \in Ends
  BY DEF Pcs, SenderPcs, ReceiverPcs, Ends, Peer
<1>i. ReceiverPin /\ SenderPin /\ TooManyInv
  BY DEF PinInv
<1>u. UNCHANGED pinVars /\ chunks' = chunks
  BY DEF SendFile, SendChunk, SendDelimiter, ReceiveText, ReceiveResult, HandleHeader, ReceiveData
<1>1. ASSUME \/ \E f \in Files : \E n \in 0 .. Size[f] + 1 : SendFile(f, n)
             \/ SendChunk \/ SendDelimiter
      PROVE  PinInv'
  <2>1. PICK p \in {"next", "stream", "last"} :
           /\ Moves("sender", p) /\ pc["sender"] \in {"next", "stream"} /\ UNCHANGED <<inbox, chunks>>
           /\ conn = "up" \/ wire' = wire
    BY <1>1, FileSteps
  <2>2. \/ Coming("receiver")' = Coming("receiver")
        \/ pc["receiver"] \in Over \cup {"files", "result", "header", "flush"}
    BY <1>p, <2>1, Audience, Comes
  <2>3. pc'["sender"] = p /\ pc'["receiver"] = pc["receiver"]
    BY <1>p, <2>1, Moved
  <2>4. ReceiverPin' /\ SenderPin' /\ TooManyInv'
    BY <1>i, <1>u, <2>1, <2>2, <2>3
       DEF ReceiverPin, SenderPin, TooManyInv, Settled, Listed, Over, pinVars
  <2> QED
    BY <1>p, <1>u, <2>1, <2>2, <2>4, PinStays DEF Over
<1>2. ASSUME ReceiveText \/ ReceiveResult \/ HandleHeader \/ ReceiveData
      PROVE  PinInv'
  <2>1. PICK p \in {"files", "result", "header", "flush", "failed"} :
           /\ Moves("receiver", p) /\ pc["receiver"] \in {"files", "result", "header"}
           /\ \/ wire' = wire /\ (inbox' = inbox \/ \E q : Receives("receiver", q))
              \/ pc["receiver"] = "result" /\ conn = "up"
    BY <1>2, FileSteps
  <2>2. Coming("sender")' = Coming("sender") \/ pc["sender"] \in Over \cup {"next", "stream", "last"}
    BY <1>p, <2>1, Audience, Comes
  <2>3. pc'["receiver"] = p /\ pc'["sender"] = pc["sender"]
    BY <1>p, <2>1, Moved
  <2>4. ReceiverPin' /\ SenderPin' /\ TooManyInv'
    BY <1>i, <1>u, <2>1, <2>2, <2>3
       DEF ReceiverPin, SenderPin, TooManyInv, Settled, Listed, Over, pinVars
  <2> QED
    BY <1>p, <1>u, <2>1, <2>2, <2>4, PinStays DEF Over
<1> QED
  BY <1>1, <1>2

\* Nothing that is lost or delivered changes a PIN.
LEMMA PinRest ==
  ASSUME TypeInv, TalkInv, PinInv,
         \/ Signal \/ ConnectionLost \/ AppGone
         \/ \E e \in Ends : Deliver(e) \/ Close(e) \/ Disconnected(e)
         \/ \E f \in Files : AppReports(f)
         \/ UNCHANGED vars
  PROVE  PinInv'
<1>e. "sender" \in Ends /\ "receiver" \in Ends
  BY DEF Ends
<1>0. ASSUME \A e \in Ends : Coming(e)' = Coming(e), UNCHANGED <<pc, chunks, pinVars>>
      PROVE  PinInv'
  BY <1>0, <1>e DEF PinInv, TriesInv, TypedInv, ReceiverPin, SenderPin, TooManyInv, Settled, pinVars
<1>1. ASSUME UNCHANGED <<pc, chunks, pinVars, inbox, wire>>
      PROVE  PinInv'
  BY <1>0, <1>1 DEF Coming
<1>2. CASE Signal
  BY <1>1, <1>2 DEF Signal, SendOffer, OnAnswer, SendAnswer, ListenerTakesAnswer, ChannelOpens,
       signalUnchanged, pinVars
<1>3. ASSUME wire' = [e \in Ends |-> <<>>], inbox' = inbox, UNCHANGED <<pc, chunks, pinVars>>
      PROVE  PinInv'
  <2>1. ASSUME NEW e \in Ends
        PROVE  /\ Coming(e) = <<>> => Coming(e)' = <<>>
               /\ \A a : Coming(e) = <<a>> => Coming(e)' = <<>> \/ Coming(e)' = <<a>>
               /\ \A a, b : Coming(e) = <<a, b>> =>
                    Coming(e)' = <<>> \/ Coming(e)' = <<a>> \/ Coming(e)' = <<a, b>>
    <3>1. /\ Coming(e)' = inbox[e] /\ Coming(e) = inbox[e] \o wire[Peer(e)]
          /\ inbox[e] \in Seq(Messages) /\ wire[Peer(e)] \in Seq(Messages)
      BY <1>3, Lost
    <3>2. PICK s \in Seq(Messages), t \in Seq(Messages) : s = inbox[e] /\ t = wire[Peer(e)]
      BY <3>1
    <3>3. /\ s \o t = <<>> => s = <<>>
          /\ \A a : s \o t = <<a>> => s = <<>> \/ s = <<a>>
          /\ \A a, b : s \o t = <<a, b>> => s = <<>> \/ s = <<a>> \/ s = <<a, b>>
      BY Prefixes
    <3>4. Coming(e) = s \o t /\ Coming(e)' = s
      BY <3>1, <3>2
    <3>5. Coming(e) = <<>> => Coming(e)' = <<>>
      BY <3>3, <3>4
    <3>6. ASSUME NEW a, Coming(e) = <<a>> PROVE Coming(e)' = <<>> \/ Coming(e)' = <<a>>
      BY <3>3, <3>4, <3>6
    <3>7. ASSUME NEW a, NEW b, Coming(e) = <<a, b>>
          PROVE  Coming(e)' = <<>> \/ Coming(e)' = <<a>> \/ Coming(e)' = <<a, b>>
      BY <3>3, <3>4, <3>7
    <3> QED
      BY <3>5, <3>6, <3>7
  <2>2. \A e \in Ends : TriesInv(e)'
    BY <1>3 DEF PinInv, TriesInv, pinVars
  <2>3. ASSUME NEW e \in Ends PROVE TypedInv(e)'
    <3>1. pc[e] = "verify" => Coming(e)' = <<>> \/ Coming(e)' = Coming(e)
      BY <2>1 DEF TalkInv, Expect
    <3>2. \A x : <<Text("pin", x)>> # <<>>
      BY Tuples
    <3> QED
      BY <1>3, <3>1, <3>2 DEF PinInv, TypedInv, pinVars
  <2>4. ReceiverPin' /\ SenderPin'
    <3>1. pc["sender"] \in {"tokenResponse", "pinResponse"} =>
             Coming("sender")' = <<>> \/ Coming("sender")' = Coming("sender")
      BY <1>e, <2>1 DEF TalkInv, Expect
    <3>2. <<Text("tokenResponse", "ok")>> # <<>> /\ <<Text("pinOk", None)>> # <<>>
      BY Tuples
    <3> QED
      BY <1>3, <3>1, <3>2 DEF PinInv, ReceiverPin, SenderPin, Settled, pinVars
  <2>5. TooManyInv'
    <3>1. ASSUME pc["receiver"] = "list", typed["receiver"] = "no"
          PROVE  /\ Coming("receiver")' # <<Binary("tooMany", None)>>
                 /\ Coming("receiver")' # InChunks("tooMany", None)
                 /\ chunks["receiver"] # <<Binary("tooMany", None)>>
      <4>1. /\ chunks["receiver"] # <<Binary("tooMany", None)>>
            /\ Coming("receiver") # <<Binary("tooMany", None)>>
            /\ Coming("receiver") # InChunks("tooMany", None)
        BY <3>1 DEF PinInv, TooManyInv
      <4>2. Chunked(Coming("receiver"), chunks["receiver"], {"list", "pinRequired", "tooMany"})
        BY <1>e, <3>1 DEF TalkInv, Expect
      <4>3. /\ \A a : <<a>> # <<>>
            /\ \A a, b : <<a>> = <<b>> => a = b
            /\ \A a, b, c : <<a, b>> # <<c>> /\ <<a, b>> # <<>>
            /\ Delimiter # Binary("tooMany", None)
        BY Tuples DEF Delimiter, Binary, Text
      <4>4. PICK t \in {"list", "pinRequired", "tooMany"} :
              \/ Coming("receiver") = <<>>
              \/ Coming("receiver") = <<Binary(t, None)>> /\ t # "tooMany"
              \/ Coming("receiver") = InChunks(t, None) /\ t # "tooMany"
              \/ Coming("receiver") = <<Delimiter>>
        BY <4>1, <4>2 DEF Chunked
      <4>5. t # "tooMany" => Binary(t, None) # Binary("tooMany", None)
        BY DEF Binary
      <4>6. CASE Coming("receiver") = <<>> \/ Coming("receiver") = <<Delimiter>>
        <5>1. Coming("receiver")' = <<>> \/ Coming("receiver")' = <<Delimiter>>
          BY <1>e, <2>1, <4>6
        <5> QED
          BY <4>1, <4>3, <5>1 DEF InChunks
      <4>7. CASE Coming("receiver") = <<Binary(t, None)>> /\ t # "tooMany"
        <5>1. Coming("receiver")' = <<>> \/ Coming("receiver")' = <<Binary(t, None)>>
          BY <1>e, <2>1, <4>7
        <5> QED
          BY <4>1, <4>3, <4>5, <4>7, <5>1 DEF InChunks
      <4>8. CASE Coming("receiver") = InChunks(t, None) /\ t # "tooMany"
        <5>1. \/ Coming("receiver")' = <<>> \/ Coming("receiver")' = <<Binary(t, None)>>
              \/ Coming("receiver")' = Coming("receiver")
          BY <1>e, <2>1, <4>8 DEF InChunks
        <5>2. Coming("receiver") # <<Binary("tooMany", None)>>
          BY <4>1
        <5> QED
          BY <4>1, <4>3, <4>5, <4>8, <5>1, <5>2 DEF InChunks
      <4> QED
        BY <4>4, <4>6, <4>7, <4>8
    <3> QED
      BY <1>3, <3>1 DEF TooManyInv, pinVars
  <2> QED
    BY <2>2, <2>3, <2>4, <2>5 DEF PinInv
<1>4. CASE ConnectionLost
  BY <1>3, <1>4 DEF ConnectionLost, pinVars
<1>5. ASSUME NEW e \in Ends, Close(e) PROVE PinInv'
  BY <1>3, <1>5 DEF Close
<1>6. ASSUME NEW e \in Ends, Deliver(e) PROVE PinInv'
  BY <1>0, <1>6, Delivered DEF Deliver, pinVars
<1>7. CASE \/ AppGone \/ UNCHANGED vars
           \/ \E e \in Ends : Disconnected(e)
           \/ \E f \in Files : AppReports(f)
  BY <1>1, <1>7 DEF AppGone, AppReports, Disconnected, vars, pinVars
<1> QED
  BY <1>2, <1>4, <1>5, <1>6, <1>7

\* Every step keeps what is known about the PINs.
LEMMA PinStep ==
  ASSUME TypeInv, TalkInv, PinInv, [Next]_vars
  PROVE  PinInv'
<1>e. /\ "send" \in Errors /\ "sender" \in Ends /\ "receiver" \in Ends
      /\ "failed" \in Over /\ "done" \in Over
  BY DEF Errors, Ends, Over
<1>1. ASSUME NEW e \in Ends, SendFails(e) PROVE PinInv'
  <2>1. Moves(e, "failed") /\ wire' = wire /\ UNCHANGED <<inbox, chunks, pinVars>>
    BY <1>e, <1>1 DEF SendFails, Moves, Fail
  <2> QED
    BY <1>e, <2>1, PinStops
<1>2. CASE ReceiveLast
  <2>1. /\ Moves("sender", "done") /\ wire' = wire /\ Receives("sender", "last")
        /\ UNCHANGED <<chunks, pinVars>>
    BY <1>2 DEF ReceiveLast, Moves
  <2> QED
    BY <1>e, <2>1, PinStops
<1>3. CASE Flush
  <2>1. Moves("receiver", "done") /\ wire' = wire /\ UNCHANGED <<inbox, chunks, pinVars>>
    BY <1>3 DEF Flush, Moves
  <2> QED
    BY <1>e, <2>1, PinStops
<1> QED
  BY <1>1, <1>2, <1>3, PinNonce, PinToken, PinResponse, PinEnter, PinVerify, PinStrings,
     PinFiles, PinRest
     DEF Next, SenderTask, ReceiverTask, Task
-----------------------------------------------------------------------------
(* The files.                                                              *)

FileTexts == {Text("header", f) : f \in Files} \cup {Delimiter}
FileMsgs == FileTexts \cup {Binary("data", f) : f \in Files}
Busy == {"files", "result", "header"}

\* File data follows the header of its file or other data of that file.
Link(m, n) == n.bin => m.t \in {"header", "data"} /\ m.x = n.x
Chain(s) == \A i \in 1 .. Len(s) - 1 : Link(s[i], s[i + 1])

\* What comes is linked, and data that comes next belongs to the file that
\* the receiver has open or is about to open.
Follows(m, p, id, h) ==
  /\ p = "files" => id = None \/ id = m.x
  /\ p \in {"result", "header"} => h.t = "header" /\ h.x = m.x

Stream(s, p, id, h) ==
  /\ s \in Seq(FileMsgs) /\ Chain(s)
  /\ s # <<>> /\ s[1].bin => Follows(s[1], p, id, h)

\* What comes to the receiver, with the chunk that the sender may add.
Ahead == IF pc["sender"] = "stream" /\ conn # "lost"
         THEN Append(Coming("receiver"), Binary("data", out.id))
         ELSE Coming("receiver")

FileInv ==
  /\ pc["receiver"] \in Busy => Stream(Ahead, pc["receiver"], file.id, held)
  /\ pc["receiver"] \in {"result", "header"} => held \in FileTexts
  /\ pc["receiver"] \notin {"files", "result"} \cup Over => file = NoFile

\* The application owes at most the result of the file that is open.
ResultInv ==
  /\ ~alive => \A f \in Files : app[f] \notin {"open", "ended"}
  /\ cut = {} =>
       /\ \A f \in Files : app[f] \in {"open", "ended"} => f = file.id /\ results = <<>>
       /\ results = <<>> \/ (file.id # None /\ results = <<file.id>>)
       /\ \A f \in Files : told[f] \in {f, None}

NoData(s) == \A i \in DOMAIN s : s[i].t # "data"

\* Data is only buffered at the sender while it sends files, or has failed.
CloseInv ==
  /\ pc["sender"] \notin {"next", "stream", "failed"} => NoData(wire["sender"])
  /\ main["sender"] = "closing" => pc["sender"] = "done"
\* What is left of a stream when its end is lost is one.
LEMMA StreamRest ==
  ASSUME NEW s \in Seq(Messages), NEW t \in Seq(Messages), NEW p, NEW id, NEW h,
         Stream(s \o t, p, id, h)
  PROVE  Stream(s, p, id, h)
<1>1. /\ Len(s) \in Nat /\ Len(t) \in Nat /\ Len(s \o t) = Len(s) + Len(t)
      /\ \A i \in 1 .. Len(s) : (s \o t)[i] = s[i]
  BY ConcatProperties, LenProperties
<1>2. s \o t \in Seq(FileMsgs) /\ Chain(s \o t)
  BY DEF Stream
<1>3. \A i \in 1 .. Len(s) + Len(t) : (s \o t)[i] \in FileMsgs
  BY <1>1, <1>2
<1>4. \A i \in 1 .. Len(s) : i \in 1 .. Len(s) + Len(t)
  BY <1>1
<1>5. s \in Seq(FileMsgs)
  <2>1. \A i \in 1 .. Len(s) : s[i] \in FileMsgs
    BY <1>1, <1>3, <1>4
  <2>2. s = [i \in 1 .. Len(s) |-> s[i]]
    OBVIOUS
  <2> QED
    BY <1>1, <2>1, <2>2, IsASeq
<1>6. Chain(s)
  <2>1. ASSUME NEW i \in 1 .. Len(s) - 1 PROVE Link(s[i], s[i + 1])
    <3>1. i \in 1 .. Len(s \o t) - 1 /\ i \in 1 .. Len(s) /\ i + 1 \in 1 .. Len(s)
      BY <1>1
    <3>2. Link((s \o t)[i], (s \o t)[i + 1])
      BY <1>2, <3>1 DEF Chain
    <3> QED
      BY <1>1, <3>1, <3>2
  <2> QED
    BY <2>1 DEF Chain
<1>7. s # <<>> => s \o t # <<>> /\ (s \o t)[1] = s[1]
  <2>1. s # <<>> => Len(s) > 0
    OBVIOUS
  <2>2. Len(s \o t) > 0 => s \o t # <<>>
    BY <1>2
  <2> QED
    BY <1>1, <2>1, <2>2
<1> QED
  BY <1>5, <1>6, <1>7 DEF Stream

\* A text, or data that is linked to its end, continues a stream.
LEMMA StreamAdds ==
  ASSUME NEW s, NEW m \in FileMsgs, NEW p, NEW id, NEW h, Stream(s, p, id, h),
         ~m.bin \/ (s # <<>> /\ Link(s[Len(s)], m))
  PROVE  /\ Stream(Append(s, m), p, id, h) /\ Append(s, m) # <<>>
         /\ Append(s, m)[Len(Append(s, m))] = m
<1>1. s \in Seq(FileMsgs) /\ Chain(s)
  BY DEF Stream
<1>2. /\ Append(s, m) \in Seq(FileMsgs) /\ Len(s) \in Nat /\ Len(Append(s, m)) = Len(s) + 1
      /\ \A i \in 1 .. Len(s) : Append(s, m)[i] = s[i]
      /\ Append(s, m)[Len(s) + 1] = m
  BY <1>1, AppendProperties
<1>3. Append(s, m) # <<>>
  BY <1>2
<1>4. ASSUME NEW i \in 1 .. Len(Append(s, m)) - 1 PROVE Link(Append(s, m)[i], Append(s, m)[i + 1])
  <2>1. i \in 1 .. Len(s)
    BY <1>2
  <2>2. CASE i = Len(s)
    <3>1. Append(s, m)[i] = s[Len(s)] /\ Append(s, m)[i + 1] = m
      BY <1>2, <2>1, <2>2
    <3> QED
      BY <3>1 DEF Link
  <2>3. CASE i # Len(s)
    <3>1. i \in 1 .. Len(s) - 1 /\ i + 1 \in 1 .. Len(s)
      BY <1>2, <2>1, <2>3
    <3> QED
      BY <1>1, <1>2, <2>1, <3>1 DEF Chain
  <2> QED
    BY <2>2, <2>3
<1>5. Append(s, m)[1].bin => Follows(Append(s, m)[1], p, id, h)
  <2>1. CASE s = <<>>
    <3>1. Append(s, m)[1] = m
      BY <1>2, <2>1
    <3> QED
      BY <2>1, <3>1
  <2>2. CASE s # <<>>
    <3>1. Len(s) > 0
      BY <1>1, <2>2
    <3>2. Append(s, m)[1] = s[1]
      BY <1>2, <3>1
    <3> QED
      BY <2>2, <3>2 DEF Stream
  <2> QED
    BY <2>1, <2>2
<1> QED
  BY <1>2, <1>3, <1>4, <1>5 DEF Stream, Chain

\* The rest of a stream is one for a receiver that has opened its head.
LEMMA StreamReads ==
  ASSUME NEW s, NEW p, NEW id, NEW h, Stream(s, p, id, h), s # <<>>,
         NEW q, NEW jd, NEW g,
         \A n \in FileMsgs : n.bin /\ Link(s[1], n) => Follows(n, q, jd, g)
  PROVE  Stream(Tail(s), q, jd, g) /\ Head(s) = s[1] /\ s[1] \in FileMsgs
<1>1. s \in Seq(FileMsgs) /\ Chain(s)
  BY DEF Stream
<1>2. /\ Tail(s) \in Seq(FileMsgs) /\ Len(s) \in Nat \ {0} /\ Len(Tail(s)) = Len(s) - 1
      /\ \A i \in 1 .. Len(s) - 1 : Tail(s)[i] = s[i + 1]
      /\ Head(s) = s[1] /\ s[1] \in FileMsgs
  BY <1>1
<1>3. ASSUME NEW i \in 1 .. Len(Tail(s)) - 1 PROVE Link(Tail(s)[i], Tail(s)[i + 1])
  <2>1. i \in 1 .. Len(s) - 1 /\ i + 1 \in 1 .. Len(s) - 1
    BY <1>2
  <2>2. Tail(s)[i] = s[i + 1] /\ Tail(s)[i + 1] = s[i + 1 + 1]
    BY <1>2, <2>1
  <2> QED
    BY <1>1, <2>1, <2>2 DEF Chain
<1>4. Tail(s) # <<>> => Tail(s)[1] = s[2] /\ Link(s[1], s[2]) /\ s[2] \in FileMsgs
  <2>1. ASSUME Tail(s) # <<>> PROVE 1 \in 1 .. Len(s) - 1 /\ Len(s) >= 2
    BY <1>2, <2>1
  <2>2. ASSUME Tail(s) # <<>> PROVE Tail(s)[1] = s[2] /\ Link(s[1], s[2])
    <3>1. 1 + 1 = 2
      OBVIOUS
    <3> QED
      BY <1>1, <1>2, <2>1, <2>2, <3>1 DEF Chain
  <2>3. ASSUME Tail(s) # <<>> PROVE s[2] \in FileMsgs
    BY <1>1, <2>1, <2>3
  <2> QED
    BY <2>2, <2>3
<1> QED
  BY <1>2, <1>3, <1>4 DEF Stream, Chain

\* The same stream, read by a receiver that has taken no message.
LEMMA StreamStays ==
  ASSUME NEW s, NEW p, NEW id, NEW h, Stream(s, p, id, h),
         NEW q, NEW jd, NEW g,
         \A n \in FileMsgs : n.bin /\ Follows(n, p, id, h) => Follows(n, q, jd, g)
  PROVE  Stream(s, q, jd, g)
<1>1. s \in Seq(FileMsgs)
  BY DEF Stream
<1>2. s # <<>> => s[1] \in FileMsgs
  BY <1>1
<1> QED
  BY <1>2 DEF Stream
\* The messages of a file are headers, its data and the delimiter.
LEMMA FileFacts ==
  /\ FileMsgs \subseteq Messages
  /\ \A m \in FileMsgs : \/ m.bin /\ m.t = "data" /\ m.x \in Files
                         \/ ~m.bin /\ m \in FileTexts
  /\ \A m \in FileTexts : /\ m \in FileMsgs /\ ~m.bin
                          /\ \/ m.t = "header" /\ m.x \in Files
                             \/ m = Delimiter /\ m.t = "delimiter"
  /\ \A f \in Files : /\ Text("header", f) \in FileTexts /\ Binary("data", f) \in FileMsgs
                      /\ Link(Text("header", f), Binary("data", f))
                      /\ Link(Binary("data", f), Binary("data", f))
  /\ Delimiter \in FileTexts
<1>1. \A f \in Files : /\ Text("header", f) \in FileTexts /\ Binary("data", f) \in FileMsgs
                       /\ Text("header", f) \in FileMsgs
  BY DEF FileTexts, FileMsgs
<1>2. Delimiter \in FileTexts /\ Delimiter \in FileMsgs
  BY DEF FileTexts, FileMsgs
<1>3. /\ \A f : /\ Text("header", f).bin = FALSE /\ Text("header", f).t = "header"
                /\ Text("header", f).x = f
                /\ Binary("data", f).bin = TRUE /\ Binary("data", f).t = "data"
                /\ Binary("data", f).x = f
      /\ Delimiter.bin = FALSE /\ Delimiter.t = "delimiter"
  BY DEF Text, Binary, Delimiter
<1>4. ASSUME NEW m \in FileTexts
      PROVE  /\ m \in FileMsgs /\ ~m.bin
             /\ \/ m.t = "header" /\ m.x \in Files
                \/ m = Delimiter /\ m.t = "delimiter"
  <2>1. (\E f \in Files : m = Text("header", f)) \/ m = Delimiter
    BY DEF FileTexts
  <2> QED
    BY <1>1, <1>2, <1>3, <2>1
<1>5. ASSUME NEW m \in FileMsgs
      PROVE  \/ m.bin /\ m.t = "data" /\ m.x \in Files
             \/ ~m.bin /\ m \in FileTexts
  <2>1. m \in FileTexts \/ \E f \in Files : m = Binary("data", f)
    BY DEF FileMsgs
  <2> QED
    BY <1>3, <1>4, <2>1
<1>6. FileMsgs \subseteq Messages
  BY MessageFacts DEF FileMsgs, FileTexts
<1>7. \A f \in Files : /\ Link(Text("header", f), Binary("data", f))
                       /\ Link(Binary("data", f), Binary("data", f))
  BY <1>3 DEF Link
<1> QED
  BY <1>1, <1>2, <1>4, <1>5, <1>6, <1>7

\* What is said in the conversation is no file data.
LEMMA NoDataSaid ==
  /\ \A t, x : t # "data" => NoData(<<Text(t, x)>>)
  /\ \A t \in Long : NoData(InChunks(t, None))
  /\ NoData(<<Delimiter>>) /\ NoData(<<>>)
<1>1. ASSUME NEW t, NEW x, t # "data" PROVE NoData(<<Text(t, x)>>)
  <2>1. Text(t, x).t = t
    BY DEF Text
  <2>2. DOMAIN <<Text(t, x)>> = {1} /\ <<Text(t, x)>>[1] = Text(t, x)
    OBVIOUS
  <2> QED
    BY <1>1, <2>1, <2>2 DEF NoData
<1>2. ASSUME NEW t \in Long PROVE NoData(InChunks(t, None))
  <2>1. Binary(t, None).t = t /\ Delimiter.t = "delimiter" /\ t # "data"
    BY DEF Binary, Delimiter, Text, Long
  <2>2. /\ DOMAIN <<Binary(t, None), Delimiter>> = {1, 2}
        /\ <<Binary(t, None), Delimiter>>[1] = Binary(t, None)
        /\ <<Binary(t, None), Delimiter>>[2] = Delimiter
    OBVIOUS
  <2> QED
    BY <2>1, <2>2 DEF NoData, InChunks
<1>3. NoData(<<Delimiter>>)
  BY <1>1 DEF Delimiter
<1>4. NoData(<<>>)
  BY DEF NoData
<1> QED
  BY <1>1, <1>2, <1>3, <1>4

Talking == {"channel", "nonce", "token", "tokenResponse", "enter", "pinResponse", "verify"}

\* A step from the conversation, in which no end touches the files: it goes
\* on to p, and only who talks says anything.
Converses(e, p) ==
  /\ p \in Pcs(e) \ ({"stream"} \cup Busy)
  /\ Moves(e, p) /\ UNCHANGED fileVars /\ inbox'[Peer(e)] = inbox[Peer(e)]
  /\ pc[e] \notin Over \cup {"stream"}
  /\ p = "failed" \/ pc[e] \notin {"next", "files", "result", "header"}
  /\ \/ wire' = wire
     \/ /\ pc[e] \in Talking /\ conn = "up"
        /\ \E ms \in Seq(Messages) : NoData(ms) /\ wire' = [wire EXCEPT ![e] = @ \o ms]

\* An utterance without file data is a way of going on.
LEMMA Speaking ==
  ASSUME NEW e \in Ends, NEW ms \in Seq(Messages), NoData(ms), NEW p, NEW why \in Errors,
         Say(e, ms, p) \/ (LastWords(e, ms, why) /\ p = "failed")
  PROVE  /\ Moves(e, p) /\ conn = "up"
         /\ \E w \in Seq(Messages) : NoData(w) /\ wire' = [wire EXCEPT ![e] = @ \o w]
BY DEF Moves, Say, LastWords

\* The steps in which an end may say something.
LEMMA Conversation ==
  ASSUME TypeInv, NEW e \in Ends,
         \/ StartTask(e) \/ ReceiveNonce(e) \/ VerifyPin(e) \/ EnterPin(e)
         \/ e = "receiver" /\ ReceiveToken
         \/ e = "sender" /\ (ReceiveTokenResponse \/ ReceivePinResponse)
  PROVE  \E p : Converses(e, p)
<1>p. /\ {"nonce", "tokenResponse", "enter", "pinResponse", "verify", "selection", "failed"}
             \subseteq Pcs("sender") \ ({"stream"} \cup Busy)
      /\ {"nonce", "token", "enter", "verify", "list", "failed"}
             \subseteq Pcs("receiver") \ ({"stream"} \cup Busy)
      /\ e = "sender" \/ e = "receiver"
  BY DEF Pcs, SenderPcs, ReceiverPcs, Ends, Busy
<1>e. {"send", "unexpected", "signature", "user", "tooMany"} \subseteq Errors
  BY DEF Errors
<1>w. /\ \A t \in Plain : <<Text(t, None)>> \in Seq(Messages) /\ NoData(<<Text(t, None)>>)
      /\ \A x \in {"pin", "ok", "invalid"} :
           <<Text("tokenResponse", x)>> \in Seq(Messages) /\ NoData(<<Text("tokenResponse", x)>>)
      /\ \A x \in {"wrong", "right"} :
           <<Text("pin", x)>> \in Seq(Messages) /\ NoData(<<Text("pin", x)>>)
      /\ \A t \in Long : InChunks(t, None) \in Seq(Messages) /\ NoData(InChunks(t, None))
  BY MessageFacts, NoDataSaid DEF Plain
<1>c. ASSUME pc[e] \in Talking, UNCHANGED fileVars, inbox' = inbox \/ \E q : Receives(e, q),
             NEW p \in Pcs(e) \ ({"stream"} \cup Busy),
             \/ Quietly(e, p)
             \/ p = "failed" /\ \E why \in Errors : Fail(e, why)
             \/ \E ms \in Seq(Messages) : NoData(ms) /\ Say(e, ms, p)
             \/ /\ p = "failed"
                /\ \E ms \in Seq(Messages), why \in Errors : NoData(ms) /\ LastWords(e, ms, why)
      PROVE  \E r : Converses(e, r)
  <2>1. inbox'[Peer(e)] = inbox[Peer(e)]
    BY <1>c, Hearing
  <2>2. \/ Moves(e, p) /\ wire' = wire
        \/ /\ Moves(e, p) /\ conn = "up"
           /\ \E w \in Seq(Messages) : NoData(w) /\ wire' = [wire EXCEPT ![e] = @ \o w]
    BY <1>c, <1>e, Speaking DEF Moves, Quietly, Fail
  <2>3. pc[e] \notin Over \cup {"stream", "next", "files", "result", "header"}
    BY <1>c DEF Talking, Over
  <2> QED
    BY <1>c, <2>1, <2>2, <2>3 DEF Converses
<1>1. CASE StartTask(e)
  <2>1. pc[e] \in Talking /\ UNCHANGED fileVars /\ inbox' = inbox
    BY <1>1 DEF StartTask, Talking
  <2>2. Quietly(e, "nonce") \/ Say(e, <<Text("nonce", None)>>, "nonce")
    BY <1>1 DEF StartTask
  <2> QED
    BY <1>c, <1>p, <1>w, <2>1, <2>2 DEF Plain
<1>2. CASE ReceiveNonce(e)
  <2>1. pc[e] \in Talking /\ UNCHANGED fileVars /\ \E q : Receives(e, q)
    BY <1>2 DEF ReceiveNonce, Receives, Talking
  <2>2. \/ Fail(e, "unexpected")
        \/ e = "sender" /\ Say(e, <<Text("token", None)>>, "tokenResponse")
        \/ e = "receiver" /\ Say(e, <<Text("nonce", None)>>, "token")
    BY <1>2, <1>p DEF ReceiveNonce
  <2> QED
    BY <1>c, <1>p, <1>e, <1>w, <2>1, <2>2 DEF Plain
<1>3. CASE VerifyPin(e)
  <2>1. pc[e] \in Talking /\ UNCHANGED fileVars /\ Receives(e, "verify")
    BY <1>3 DEF VerifyPin, Receives, Talking
  <2>2. CASE Message(e).t # "pin"
    <3>1. Fail(e, "unexpected")
      BY <1>3, <2>2 DEF VerifyPin
    <3> QED
      BY <1>c, <1>p, <1>e, <2>1, <3>1
  <2>3. CASE Message(e).t = "pin"
    <3>1. Message(e).x = "right" \/ Message(e).x = "wrong"
      BY <2>1, <2>3, Hearing, MessageFacts
    <3>2. tries[e] + 1 < MaxTries \/ tries[e] + 1 >= MaxTries
      BY ConstantsAssumption DEF TypeInv, ChannelType
    <3>3. \/ e = "receiver" /\ Say(e, Verdict(e, "pinOk"), "list")
          \/ e # "receiver" /\ Say(e, InChunks("list", None), "selection")
          \/ Say(e, Verdict(e, "pinRequired"), "verify")
          \/ LastWords(e, Verdict(e, "tooMany"), "tooMany")
      BY <1>3, <2>3, <3>1, <3>2 DEF VerifyPin
    <3>4. /\ InChunks("list", None) \in Seq(Messages) /\ NoData(InChunks("list", None))
          /\ \A t \in {"pinRequired", "tooMany"} :
               Verdict(e, t) \in Seq(Messages) /\ NoData(Verdict(e, t))
          /\ e = "receiver" =>
               Verdict(e, "pinOk") \in Seq(Messages) /\ NoData(Verdict(e, "pinOk"))
      BY <1>w DEF Verdict, Plain, Long
    <3> QED
      BY <1>c, <1>p, <1>e, <2>1, <3>3, <3>4
  <2> QED
    BY <2>2, <2>3
<1>4. CASE EnterPin(e)
  <2>1. pc[e] \in Talking /\ UNCHANGED fileVars /\ inbox' = inbox
    BY <1>4 DEF EnterPin, Talking
  <2>2. \/ \E pin \in {"wrong", "right"} :
             Say(e, <<Text("pin", pin)>>, IF e = "sender" THEN "pinResponse" ELSE "list")
        \/ Fail(e, "user")
    BY <1>4 DEF EnterPin
  <2>3. (IF e = "sender" THEN "pinResponse" ELSE "list") \in Pcs(e) \ ({"stream"} \cup Busy)
    BY <1>p
  <2> QED
    BY <1>c, <1>p, <1>e, <1>w, <2>1, <2>2, <2>3
<1>5. CASE e = "receiver" /\ ReceiveToken
  <2>1. pc[e] \in Talking /\ UNCHANGED fileVars /\ Receives(e, "token")
    BY <1>5 DEF ReceiveToken, Receives, Talking
  <2>2. \/ Fail(e, "unexpected")
        \/ Say(e, <<Text("tokenResponse", "pin")>>, "verify")
        \/ Say(e, <<Text("tokenResponse", "ok")>>, "list")
        \/ LastWords(e, <<Text("tokenResponse", "invalid")>>, "signature")
    BY <1>5 DEF ReceiveToken
  <2> QED
    BY <1>c, <1>p, <1>e, <1>w, <1>5, <2>1, <2>2
<1>6. CASE e = "sender" /\ (ReceiveTokenResponse \/ ReceivePinResponse)
  <2>1. pc[e] \in Talking /\ UNCHANGED fileVars /\ \E q : Receives(e, q)
    BY <1>6 DEF ReceiveTokenResponse, ReceivePinResponse, Receives, Talking
  <2>2. \/ \E why \in Errors : Fail(e, why)
        \/ Quietly(e, "enter")
        \/ Say(e, InChunks("pinRequired", None), "verify")
        \/ Say(e, InChunks("list", None), "selection")
    BY <1>6, <1>e DEF ReceiveTokenResponse, ReceivePinResponse, SenderVerifies
  <2> QED
    BY <1>c, <1>p, <1>w, <1>6, <2>1, <2>2 DEF Long
<1> QED
  BY <1>1, <1>2, <1>3, <1>4, <1>5, <1>6

\* The same of the steps in which an end says nothing.
LEMMA Silence ==
  ASSUME TypeInv, NEW e \in Ends,
         \/ SendFails(e)
         \/ e = "sender" /\ (Collect(e, "selection") \/ ReceiveSelection \/ ReceiveLast)
         \/ e = "receiver" /\ (Collect(e, "list") \/ ReceiveList \/ Flush)
  PROVE  \E p : Converses(e, p)
<1>p. /\ {"selection", "next", "done", "failed"} \subseteq Pcs("sender") \ ({"stream"} \cup Busy)
      /\ {"list", "enter", "select", "done", "failed"} \subseteq Pcs("receiver") \ ({"stream"} \cup Busy)
      /\ e = "sender" \/ e = "receiver"
  BY DEF Pcs, SenderPcs, ReceiverPcs, Ends, Busy
<1>e. {"send", "unexpected", "signature", "user", "tooMany"} \subseteq Errors
  BY DEF Errors
<1>c. ASSUME UNCHANGED fileVars, inbox' = inbox \/ \E q : Receives(e, q), wire' = wire,
             NEW p \in Pcs(e) \ ({"stream"} \cup Busy),
             Moves(e, p), pc[e] \notin Over \cup {"stream"},
             p = "failed" \/ pc[e] \notin {"next", "files", "result", "header"}
      PROVE  \E r : Converses(e, r)
  <2>1. inbox'[Peer(e)] = inbox[Peer(e)]
    BY <1>c, Hearing
  <2> QED
    BY <1>c, <2>1 DEF Converses
<1>1. CASE SendFails(e)
  <2>1. UNCHANGED fileVars /\ inbox' = inbox /\ wire' = wire /\ Moves(e, "failed")
    BY <1>1, <1>e DEF SendFails, Moves, Fail
  <2>2. pc[e] \notin Over \cup {"stream"}
    BY <1>1 DEF SendFails, Over
  <2> QED
    BY <1>c, <1>p, <2>1, <2>2
<1>2. CASE e = "sender" /\ Collect(e, "selection")
  <2>1. UNCHANGED fileVars /\ Receives(e, "selection") /\ wire' = wire /\ Moves(e, "selection")
    BY <1>2 DEF Collect, Moves, Quietly
  <2> QED
    BY <1>c, <1>p, <1>2, <2>1 DEF Receives, Over
<1>3. CASE e = "receiver" /\ Collect(e, "list")
  <2>1. UNCHANGED fileVars /\ Receives(e, "list") /\ wire' = wire /\ Moves(e, "list")
    BY <1>3 DEF Collect, Moves, Quietly
  <2> QED
    BY <1>c, <1>p, <1>3, <2>1 DEF Receives, Over
<1>4. CASE e = "sender" /\ ReceiveSelection
  <2>1. UNCHANGED fileVars /\ Receives(e, "selection")
    BY <1>4 DEF ReceiveSelection, StringEnds
  <2>2. \/ Quietly(e, "next")
        \/ Done(e) /\ wire' = wire
        \/ \E why \in Errors : Fail(e, why)
    BY <1>4, <1>e DEF ReceiveSelection, PublishSelection
  <2>3. wire' = wire /\ \E p \in {"next", "done", "failed"} : Moves(e, p)
    BY <2>2 DEF Moves, Quietly, Fail
  <2> QED
    BY <1>c, <1>p, <1>4, <2>1, <2>3 DEF Receives, Over
<1>5. CASE e = "receiver" /\ ReceiveList
  <2>1. UNCHANGED fileVars /\ Receives(e, "list")
    BY <1>5 DEF ReceiveList, StringEnds
  <2>2. \/ Quietly(e, "select")
        \/ Quietly(e, "enter")
        \/ \E why \in Errors : Fail(e, why)
    BY <1>5, <1>e DEF ReceiveList
  <2>3. wire' = wire /\ \E p \in {"select", "enter", "failed"} : Moves(e, p)
    BY <2>2 DEF Moves, Quietly, Fail
  <2> QED
    BY <1>c, <1>p, <1>5, <2>1, <2>3 DEF Receives, Over
<1>6. CASE e = "sender" /\ ReceiveLast
  <2>1. UNCHANGED fileVars /\ Receives(e, "last") /\ wire' = wire /\ Moves(e, "done")
    BY <1>6 DEF ReceiveLast, Moves
  <2> QED
    BY <1>c, <1>p, <1>6, <2>1 DEF Receives, Over
<1>7. CASE e = "receiver" /\ Flush
  <2>1. UNCHANGED fileVars /\ inbox' = inbox /\ wire' = wire /\ Moves(e, "done") /\ pc[e] = "flush"
    BY <1>7 DEF Flush, Moves
  <2> QED
    BY <1>c, <1>p, <1>7, <2>1 DEF Over
<1> QED
  BY <1>1, <1>2, <1>3, <1>4, <1>5, <1>6, <1>7
\* While the receiver is at the files, a live sender is there or waits.
LEMMA FilesAudience ==
  ASSUME TalkInv, conn # "lost"
  PROVE  /\ pc["receiver"] \in Busy => pc["sender"] \notin Talking
         /\ pc["receiver"] = "select" => pc["sender"] # "stream"
BY DEF TalkInv, InTurn, Turn, Talking, Busy, Over

\* The conversation adds nothing to the files.
LEMMA FileTalk ==
  ASSUME TypeInv, TalkInv, FileInv, NEW e \in Ends, NEW p, Converses(e, p)
  PROVE  FileInv'
<1>e. /\ "sender" \in Ends /\ "receiver" \in Ends /\ Peer("sender") = "receiver"
      /\ Peer("receiver") = "sender" /\ (e = "sender" \/ e = "receiver")
  BY DEF Ends, Peer
<1>m. pc'[e] = p /\ pc'[Peer(e)] = pc[Peer(e)] /\ conn' = conn /\ UNCHANGED <<file, held, out>>
  BY Moved DEF Converses, fileVars
<1>p. p \notin Busy \cup {"stream"}
  BY DEF Converses
<1>1. CASE e = "receiver"
  <2>1. p \in Over \/ pc["receiver"] \notin {"files", "result"} \cup Over
    BY <1>1 DEF Converses, Over
  <2> QED
    BY <1>1, <1>m, <1>p, <2>1 DEF FileInv, Busy, Over
<1>2. CASE e = "sender"
  <2>1. Ahead = Coming("receiver") /\ Ahead' = Coming("receiver")'
    BY <1>2, <1>m, <1>p DEF Ahead, Converses
  <2>2. pc["receiver"] \in Busy => Coming("receiver")' = Coming("receiver")
    <3>1. ASSUME wire' = wire PROVE Coming("receiver")' = Coming("receiver")
      BY <1>2, <1>e, <3>1 DEF Coming, Converses
    <3>2. ASSUME pc[e] \in Talking, conn = "up" PROVE pc["receiver"] \notin Busy
      BY <1>2, <3>2, FilesAudience
    <3> QED
      BY <3>1, <3>2 DEF Converses
  <2> QED
    BY <1>2, <1>e, <1>m, <2>1, <2>2 DEF FileInv
<1> QED
  BY <1>e, <1>1, <1>2

\* The sender goes on with a file, or to the next one.
LEMMA FileSend ==
  ASSUME TypeInv, TalkInv, FileInv,
         \/ \E f \in Files : \E n : SendFile(f, n)
         \/ SendChunk \/ SendDelimiter
  PROVE  FileInv'
<1>e. /\ "sender" \in Ends /\ "receiver" \in Ends /\ Peer("sender") = "receiver"
      /\ {"next", "stream", "last"} \subseteq Pcs("sender")
  BY DEF Ends, Peer, Pcs, SenderPcs
<1>c. Coming("receiver") \in Seq(Messages)
  <2>1. inbox["receiver"] \in Seq(Messages) /\ wire["sender"] \in Seq(Messages)
    BY <1>e DEF TypeInv, ControlType, ChannelType
  <2> QED
    BY <2>1, Ways, Queues DEF Coming
<1>0. ASSUME pc'["receiver"] = pc["receiver"], UNCHANGED <<file, held>>,
             Stream(Ahead, pc["receiver"], file.id, held) => Stream(Ahead', pc["receiver"], file.id, held)
      PROVE  FileInv'
  BY <1>0 DEF FileInv
<1>a. ASSUME NEW m \in Messages PROVE Coming("receiver") \o <<m>> = Append(Coming("receiver"), m)
  BY <1>c
<1>1. ASSUME NEW f \in Files, NEW n, SendFile(f, n) PROVE FileInv'
  <2>1. pc["sender"] = "next" /\ inbox' = inbox /\ UNCHANGED <<file, held>> /\ Ahead = Coming("receiver")
    BY <1>1 DEF SendFile, Ahead
  <2>2. CASE Quietly("sender", "next")
    <3>1. pc'["sender"] = "next" /\ pc'["receiver"] = pc["receiver"] /\ wire' = wire
      BY <1>e, <2>2, Moved DEF Moves, Quietly
    <3>2. Ahead' = Ahead
      BY <2>1, <3>1 DEF Ahead, Coming
    <3> QED
      BY <1>0, <2>1, <3>1, <3>2
  <2>3. CASE Say("sender", <<Text("header", f)>>, "stream") /\ out' = [id |-> f, left |-> n]
    <3>1. <<Text("header", f)>> \in Seq(Messages) /\ Text("header", f) \in Messages
      BY MessageFacts
    <3>2. Moves("sender", "stream") /\ conn = "up" /\ wire' = [wire EXCEPT !["sender"] = @ \o <<Text("header", f)>>]
      BY <2>3, <3>1 DEF Moves, Say
    <3>3. pc'["sender"] = "stream" /\ pc'["receiver"] = pc["receiver"] /\ conn' = "up"
      BY <1>e, <3>2, Moved
    <3>4. Coming("receiver")' = Append(Coming("receiver"), Text("header", f))
      BY <1>a, <1>e, <2>1, <3>1, <3>2, Comes
    <3>5. Ahead' = Append(Append(Coming("receiver"), Text("header", f)), Binary("data", f))
      BY <2>3, <3>3, <3>4 DEF Ahead
    <3>6. ASSUME Stream(Ahead, pc["receiver"], file.id, held)
          PROVE  Stream(Ahead', pc["receiver"], file.id, held)
      <4>1. /\ Stream(Append(Coming("receiver"), Text("header", f)), pc["receiver"], file.id, held)
            /\ Append(Coming("receiver"), Text("header", f)) # <<>>
            /\ Append(Coming("receiver"), Text("header", f))[Len(Append(Coming("receiver"), Text("header", f)))]
                  = Text("header", f)
        BY <2>1, <3>6, FileFacts, StreamAdds
      <4> QED
        BY <3>5, <4>1, FileFacts, StreamAdds
    <3> QED
      BY <1>0, <2>1, <3>3, <3>6
  <2> QED
    BY <1>1, <2>2, <2>3 DEF SendFile
<1>2. CASE SendChunk
  <2>1. pc["sender"] = "stream" /\ inbox' = inbox /\ UNCHANGED <<file, held>> /\ out.id \in Files
    BY <1>2 DEF SendChunk, TypeInv, DataType
  <2>2. CASE Quietly("sender", "next")
    <3>1. pc'["sender"] = "next" /\ pc'["receiver"] = pc["receiver"] /\ wire' = wire
      BY <1>e, <2>2, Moved DEF Moves, Quietly
    <3>2. Ahead' = Coming("receiver")
      BY <2>1, <3>1 DEF Ahead, Coming
    <3>3. Ahead = Coming("receiver") \/ Ahead = Coming("receiver") \o <<Binary("data", out.id)>>
      BY <1>c, <2>1, MessageFacts DEF Ahead
    <3>4. <<Binary("data", out.id)>> \in Seq(Messages)
      BY <2>1, MessageFacts
    <3>5. Stream(Ahead, pc["receiver"], file.id, held) => Stream(Ahead', pc["receiver"], file.id, held)
      BY <1>c, <3>2, <3>3, <3>4, StreamRest
    <3> QED
      BY <1>0, <2>1, <3>1, <3>5
  <2>3. CASE Say("sender", <<Binary("data", out.id)>>, "stream") /\ out' = [out EXCEPT !.left = @ - 1]
    <3>1. <<Binary("data", out.id)>> \in Seq(Messages) /\ Binary("data", out.id) \in Messages
      BY <2>1, MessageFacts
    <3>2. /\ Moves("sender", "stream") /\ conn = "up"
          /\ wire' = [wire EXCEPT !["sender"] = @ \o <<Binary("data", out.id)>>]
      BY <2>3, <3>1 DEF Moves, Say
    <3>3. pc'["sender"] = "stream" /\ pc'["receiver"] = pc["receiver"] /\ conn' = "up"
      BY <1>e, <3>2, Moved
    <3>4. Coming("receiver")' = Append(Coming("receiver"), Binary("data", out.id))
      BY <1>a, <1>e, <2>1, <3>1, <3>2, Comes
    <3>o. out'.id = out.id
      BY <2>3 DEF TypeInv, DataType
    <3>5. /\ Ahead = Append(Coming("receiver"), Binary("data", out.id))
          /\ Ahead' = Append(Ahead, Binary("data", out.id))
      BY <2>1, <3>2, <3>3, <3>4, <3>o DEF Ahead
    <3>6. ASSUME Stream(Ahead, pc["receiver"], file.id, held)
          PROVE  Stream(Ahead', pc["receiver"], file.id, held)
      <4>1. Ahead # <<>> /\ Ahead[Len(Ahead)] = Binary("data", out.id)
        BY <1>c, <3>1, <3>5, AppendProperties
      <4> QED
        BY <2>1, <3>5, <3>6, <4>1, FileFacts, StreamAdds
    <3> QED
      BY <1>0, <2>1, <3>3, <3>6
  <2> QED
    BY <1>2, <2>2, <2>3 DEF SendChunk
<1>3. CASE SendDelimiter
  <2>1. /\ pc["sender"] = "next" /\ inbox' = inbox /\ UNCHANGED <<file, held>>
        /\ Ahead = Coming("receiver") /\ Say("sender", <<Delimiter>>, "last")
    BY <1>3 DEF SendDelimiter, Ahead, fileVars
  <2>2. <<Delimiter>> \in Seq(Messages) /\ Delimiter \in Messages
    BY MessageFacts
  <2>3. Moves("sender", "last") /\ wire' = [wire EXCEPT !["sender"] = @ \o <<Delimiter>>]
    BY <2>1, <2>2 DEF Moves, Say
  <2>4. pc'["sender"] = "last" /\ pc'["receiver"] = pc["receiver"]
    BY <1>e, <2>3, Moved
  <2>5. Coming("receiver")' = Append(Coming("receiver"), Delimiter)
    BY <1>a, <1>e, <2>1, <2>2, <2>3, Comes
  <2>6. Ahead' = Append(Ahead, Delimiter)
    BY <2>1, <2>4, <2>5 DEF Ahead
  <2> QED
    BY <1>0, <2>1, <2>4, <2>6, FileFacts, StreamAdds
<1> QED
  BY <1>1, <1>2, <1>3
\* The receiver takes the next message of a file.
LEMMA AheadRead ==
  ASSUME TypeInv, Receives("receiver", "files"), wire' = wire, UNCHANGED <<out, conn>>,
         pc'["sender"] = pc["sender"]
  PROVE  Ahead # <<>> /\ Ahead[1] = Message("receiver") /\ Ahead' = Tail(Ahead)
<1>e. "receiver" \in Ends
  BY DEF Ends
<1>1. /\ Coming("receiver") \in Seq(Messages) /\ Coming("receiver") # <<>>
      /\ Head(Coming("receiver")) = Message("receiver")
      /\ Coming("receiver")' = Tail(Coming("receiver"))
      /\ Tail(Coming("receiver")) \in Seq(Messages)
  BY <1>e, Hearing
<1>2. CASE ~(pc["sender"] = "stream" /\ conn # "lost")
  <2>1. Ahead = Coming("receiver") /\ Ahead' = Coming("receiver")'
    BY <1>2 DEF Ahead
  <2>2. Coming("receiver")[1] = Head(Coming("receiver"))
    BY <1>1
  <2> QED
    BY <1>1, <2>1, <2>2
<1>3. CASE pc["sender"] = "stream" /\ conn # "lost"
  <2>1. <<Binary("data", out.id)>> \in Seq(Messages) /\ Binary("data", out.id) \in Messages
    BY <1>3, MessageFacts DEF TypeInv, DataType
  <2>2. /\ Ahead = Append(Coming("receiver"), Binary("data", out.id))
        /\ Ahead' = Append(Coming("receiver")', Binary("data", out.id))
    BY <1>3 DEF Ahead
  <2>3. \A s \in Seq(Messages) : Append(s, Binary("data", out.id)) = s \o <<Binary("data", out.id)>>
    BY <2>1
  <2>4. /\ Ahead = Coming("receiver") \o <<Binary("data", out.id)>>
        /\ Ahead' = Tail(Coming("receiver")) \o <<Binary("data", out.id)>>
    BY <1>1, <2>2, <2>3
  <2>5. Ahead \in Seq(Messages) /\ Ahead # <<>> /\ Head(Ahead) = Message("receiver") /\ Tail(Ahead) = Ahead'
    BY <1>1, <2>1, <2>4, Queues
  <2>6. Ahead[1] = Head(Ahead)
    BY <2>5
  <2> QED
    BY <2>5, <2>6
<1> QED
  BY <1>2, <1>3

\* A text opens a file, opens none, or ends the task.
LEMMA Opening ==
  ASSUME TypeInv, NEW m, OpenFile(m), file.id = None
  PROVE  /\ wire' = wire /\ conn' = conn /\ pc'["sender"] = pc["sender"]
         /\ \/ pc'["receiver"] = "failed"
            \/ pc'["receiver"] = "files" /\ m.t = "header" /\ file'.id \in {None, m.x}
<1>e. /\ "receiver" \in Ends /\ Peer("receiver") = "sender"
      /\ {"files", "failed"} \subseteq Pcs("receiver") /\ {"noFile", "unexpected"} \subseteq Errors
  BY DEF Ends, Peer, Pcs, ReceiverPcs, Errors
<1>1. CASE m.t # "header"
  <2>1. Moves("receiver", "failed") /\ wire' = wire
    BY <1>e, <1>1 DEF OpenFile, Moves, Fail
  <2> QED
    BY <1>e, <2>1, Moved
<1>2. CASE m.t = "header"
  <2>1. Moves("receiver", "files") /\ wire' = wire
    BY <1>2 DEF OpenFile, Moves, Quietly
  <2>2. file'.id \in {None, m.x}
    BY <1>2 DEF OpenFile
  <2> QED
    BY <1>e, <1>2, <2>1, <2>2, Moved
<1> QED
  BY <1>1, <1>2

\* The receiver opens files, takes data and ends files in step with the stream.
LEMMA FileReceive ==
  ASSUME TypeInv, TalkInv, FileInv,
         ReceiveText \/ ReceiveResult \/ HandleHeader \/ ReceiveData
  PROVE  FileInv'
<1>e. /\ "receiver" \in Ends /\ Peer("receiver") = "sender"
      /\ {"files", "result", "header", "flush", "failed"} \subseteq Pcs("receiver")
      /\ {"noFile", "unexpected", "app"} \subseteq Errors
  BY DEF Ends, Peer, Pcs, ReceiverPcs, Errors
<1>b. {"files", "result", "header"} \subseteq Busy /\ "flush" \notin Busy /\ "failed" \notin Busy
  BY DEF Busy
<1>1. ASSUME ReceiveText \/ ReceiveData
      PROVE  /\ pc["receiver"] = "files" /\ Receives("receiver", "files") /\ wire' = wire
             /\ UNCHANGED <<out, conn>> /\ pc'["sender"] = pc["sender"]
             /\ Ahead # <<>> /\ Ahead[1] = Message("receiver") /\ Ahead' = Tail(Ahead)
             /\ Stream(Ahead, "files", file.id, held) /\ Message("receiver") \in FileMsgs
  <2>1. PICK p \in {"files", "result", "failed"} :
          /\ Moves("receiver", p) /\ pc["receiver"] = "files" /\ Receives("receiver", "files")
          /\ wire' = wire
    BY <1>1, FileSteps
  <2>2. UNCHANGED <<out, conn>> /\ pc'["sender"] = pc["sender"]
    BY <1>1, <1>e, <2>1, Moved DEF ReceiveText, ReceiveData
  <2>3. Ahead # <<>> /\ Ahead[1] = Message("receiver") /\ Ahead' = Tail(Ahead)
    BY <2>1, <2>2, AheadRead
  <2>4. Stream(Ahead, "files", file.id, held)
    BY <2>1, <1>b DEF FileInv
  <2>5. Ahead[1] \in FileMsgs
    BY <2>3, <2>4 DEF Stream
  <2> QED
    BY <2>1, <2>2, <2>3, <2>4, <2>5
<1>2. ASSUME pc'["receiver"] = "failed" PROVE FileInv'
  BY <1>2 DEF FileInv, Busy, Over
<1>3. CASE ReceiveText
  <2>1. ~Message("receiver").bin /\ Message("receiver") \in FileTexts
    BY <1>1, <1>3, FileFacts DEF ReceiveText
  <2>2. CASE file.id = None /\ OpenFile(Message("receiver")) /\ held' = held
    <3>1. \/ pc'["receiver"] = "failed"
          \/ /\ pc'["receiver"] = "files" /\ Message("receiver").t = "header"
             /\ file'.id \in {None, Message("receiver").x}
      BY <2>2, Opening
    <3>2. ASSUME pc'["receiver"] = "files", file'.id \in {None, Message("receiver").x}
          PROVE  FileInv'
      <4>1. \A n \in FileMsgs : n.bin /\ Link(Ahead[1], n) => Follows(n, "files", file'.id, held')
        BY <1>1, <1>3, <3>2 DEF Follows, Link
      <4>2. Stream(Tail(Ahead), "files", file'.id, held')
        BY <1>1, <1>3, <4>1, StreamReads
      <4> QED
        BY <1>1, <1>3, <3>2, <4>2 DEF FileInv
    <3> QED
      BY <1>2, <3>1, <3>2
  <2>3. CASE /\ Quietly("receiver", "result") /\ held' = Message("receiver") /\ file' = file
    <3>1. pc'["receiver"] = "result"
      BY <1>e, <2>3, Moved DEF Moves
    <3>2. \A n \in FileMsgs : n.bin /\ Link(Ahead[1], n) => Follows(n, "result", file'.id, held')
      <4>1. Ahead[1] = held' /\ held'.t # "data"
        BY <1>1, <1>3, <2>1, <2>3, FileFacts
      <4> QED
        BY <4>1 DEF Follows, Link
    <3>3. Stream(Tail(Ahead), "result", file'.id, held')
      BY <1>1, <1>3, <3>2, StreamReads
    <3> QED
      BY <1>1, <1>3, <2>1, <2>3, <3>1, <3>3 DEF FileInv
  <2> QED
    BY <1>3, <2>2, <2>3 DEF ReceiveText
<1>4. CASE ReceiveData
  <2>1. Message("receiver").bin /\ Message("receiver").t = "data"
    BY <1>1, <1>4, FileFacts DEF ReceiveData
  <2>2. /\ pc'["receiver"] \in {"files", "failed"} /\ held' = held
        /\ file'.id = file.id \/ file'.id = None
    <3>1. Quietly("receiver", "files") \/ Fail("receiver", "app")
      BY <1>4 DEF ReceiveData
    <3>2. \E p \in {"files", "failed"} : Moves("receiver", p)
      BY <1>e, <3>1 DEF Moves
    <3>3. pc'["receiver"] \in {"files", "failed"}
      BY <1>e, <3>2, Moved
    <3>4. \/ file' = file
          \/ file' = NoFile
          \/ file' = [file EXCEPT !.received = @ + 1]
      BY <1>4 DEF ReceiveData
    <3>5. file'.id = file.id \/ file'.id = None
      BY <3>4 DEF NoFile, TypeInv, DataType
    <3> QED
      BY <1>4, <3>3, <3>5 DEF ReceiveData
  <2>3. Follows(Ahead[1], "files", file.id, held)
    BY <1>1, <1>4, <2>1 DEF Stream
  <2>4. \A n \in FileMsgs : n.bin /\ Link(Ahead[1], n) => Follows(n, "files", file'.id, held')
    BY <2>2, <2>3 DEF Follows, Link
  <2>5. Stream(Tail(Ahead), "files", file'.id, held')
    BY <1>1, <1>4, <2>4, StreamReads
  <2>6. CASE pc'["receiver"] = "files"
    BY <1>1, <1>4, <2>5, <2>6 DEF FileInv
  <2> QED
    BY <1>2, <2>2, <2>6
<1>5. CASE ReceiveResult
  <2>1. PICK p \in {"header", "flush"} : Moves("receiver", p) /\ pc["receiver"] = "result" /\ inbox' = inbox
    BY <1>5, FileSteps
  <2>2. /\ pc'["receiver"] = p /\ pc'["sender"] = pc["sender"] /\ conn' = conn
        /\ UNCHANGED <<held, out>> /\ file' = NoFile
    BY <1>5, <1>e, <2>1, Moved DEF ReceiveResult
  <2>3. <<Text("result", file.id)>> \in Seq(Messages)
    BY <2>1, MessageFacts DEF TypeInv, DataType
  <2>4. wire' = [wire EXCEPT !["receiver"] = @ \o <<Text("result", file.id)>>]
    BY <1>5 DEF ReceiveResult, Say
  <2>5. Coming("receiver")' = Coming("receiver")
    BY <1>e, <2>1, <2>3, <2>4, Comes
  <2>6. Ahead' = Ahead
    BY <2>2, <2>5 DEF Ahead
  <2>7. Stream(Ahead, "result", file.id, held) /\ held \in FileTexts
    BY <1>b, <2>1 DEF FileInv
  <2>8. Stream(Ahead, "header", file'.id, held)
    <3>1. \A n \in FileMsgs : n.bin /\ Follows(n, "result", file.id, held)
                                => Follows(n, "header", file'.id, held)
      BY DEF Follows
    <3> QED
      BY <2>7, <3>1, StreamStays
  <2> QED
    BY <1>b, <2>2, <2>6, <2>7, <2>8 DEF FileInv, Over
<1>6. CASE HandleHeader
  <2>1. pc["receiver"] = "header" /\ OpenFile(held) /\ inbox' = inbox /\ out' = out
    BY <1>6 DEF HandleHeader
  <2>2. Stream(Ahead, "header", file.id, held) /\ held \in FileTexts /\ file = NoFile
    BY <1>b, <2>1 DEF FileInv, Over
  <2>3. /\ wire' = wire /\ conn' = conn /\ pc'["sender"] = pc["sender"]
        /\ \/ pc'["receiver"] = "failed"
           \/ pc'["receiver"] = "files" /\ held.t = "header" /\ file'.id \in {None, held.x}
    BY <2>1, <2>2, Opening DEF NoFile
  <2>4. Ahead' = Ahead
    BY <2>1, <2>3 DEF Ahead, Coming
  <2>5. ASSUME pc'["receiver"] = "files", file'.id \in {None, held.x} PROVE FileInv'
    <3>1. \A n \in FileMsgs : n.bin /\ Follows(n, "header", file.id, held)
                                => Follows(n, "files", file'.id, held')
      BY <2>5 DEF Follows
    <3>2. Stream(Ahead, "files", file'.id, held')
      BY <2>2, <3>1, StreamStays
    <3> QED
      BY <2>4, <2>5, <3>2 DEF FileInv
  <2> QED
    BY <1>2, <2>3, <2>5
<1> QED
  BY <1>3, <1>4, <1>5, <1>6
\* When the receiver turns to the files nothing has come yet.
LEMMA FileSelect ==
  ASSUME TypeInv, TalkInv, FileInv, Select
  PROVE  FileInv'
<1>e. /\ "receiver" \in Ends /\ Peer("receiver") = "sender" /\ {"files", "done"} \subseteq Pcs("receiver")
  BY DEF Ends, Peer, Pcs, ReceiverPcs
<1>w. \A t \in {"selection", "declined"} : InChunks(t, None) \in Seq(Messages)
  BY MessageFacts DEF Long
<1>0. pc["receiver"] = "select" /\ inbox' = inbox /\ UNCHANGED <<out, file, held>> /\ file = NoFile
  BY DEF Select, FileInv, Over
<1>1. \/ Say("receiver", InChunks("selection", None), "files")
      \/ Done("receiver")
  BY DEF Select, SendSelection, Decline
<1>2. CASE Say("receiver", InChunks("selection", None), "files")
  <2>1. /\ Moves("receiver", "files") /\ conn = "up"
        /\ wire' = [wire EXCEPT !["receiver"] = @ \o InChunks("selection", None)]
    BY <1>w, <1>2 DEF Moves, Say
  <2>2. pc'["receiver"] = "files" /\ pc'["sender"] = pc["sender"] /\ conn' = conn
    BY <1>e, <2>1, Moved
  <2>3. Coming("receiver")' = <<>>
    <3>1. Coming("receiver") = <<>>
      BY <1>e, <1>0 DEF TalkInv, Expect
    <3> QED
      BY <1>e, <1>w, <1>0, <2>1, <3>1, Comes
  <2>4. Ahead' = <<>>
    BY <1>0, <2>1, <2>2, <2>3, FilesAudience DEF Ahead
  <2>5. Stream(<<>>, "files", file'.id, held')
    BY DEF Stream, Chain
  <2> QED
    BY <1>0, <2>2, <2>4, <2>5 DEF FileInv
<1>3. CASE Done("receiver")
  <2>1. pc'["receiver"] = "done"
    BY <1>e, <1>3 DEF Done, Goto, TypeInv, ControlType
  <2> QED
    BY <2>1 DEF FileInv, Busy, Over
<1> QED
  BY <1>1, <1>2, <1>3

\* The stream stays linked through delivery and loss.
LEMMA FileRest ==
  ASSUME TypeInv, FileInv,
         \/ Signal \/ ConnectionLost \/ AppGone
         \/ \E e \in Ends : Deliver(e) \/ Close(e) \/ Disconnected(e)
         \/ \E f \in Files : AppReports(f)
         \/ UNCHANGED vars
  PROVE  FileInv'
<1>e. "sender" \in Ends /\ "receiver" \in Ends /\ Peer("receiver") = "sender"
  BY DEF Ends, Peer
<1>0. ASSUME Coming("receiver")' = Coming("receiver"), UNCHANGED <<pc, out, file, held>>,
             (conn = "lost") = (conn' = "lost")
      PROVE  FileInv'
  <2>1. Ahead' = Ahead
    BY <1>0 DEF Ahead
  <2> QED
    BY <1>0, <2>1 DEF FileInv
<1>1. ASSUME UNCHANGED <<pc, out, file, held, inbox, wire>>, (conn = "lost") = (conn' = "lost")
      PROVE  FileInv'
  BY <1>0, <1>1 DEF Coming
<1>2. CASE Signal
  <2>1. (conn = "lost") = (conn' = "lost")
    BY <1>2 DEF Signal, SendOffer, OnAnswer, SendAnswer, ListenerTakesAnswer, ChannelOpens
  <2> QED
    BY <1>1, <1>2, <2>1 DEF Signal, SendOffer, OnAnswer, SendAnswer, ListenerTakesAnswer, ChannelOpens,
       signalUnchanged
<1>3. ASSUME wire' = [e \in Ends |-> <<>>], inbox' = inbox, UNCHANGED <<pc, out, file, held>>,
             conn' = "lost"
      PROVE  FileInv'
  <2>1. /\ Coming("receiver")' = inbox["receiver"] /\ inbox["receiver"] \in Seq(Messages)
        /\ wire["sender"] \in Seq(Messages) /\ Coming("receiver") = inbox["receiver"] \o wire["sender"]
    BY <1>e, <1>3, Lost
  <2>2. Ahead' = inbox["receiver"]
    BY <1>3, <2>1 DEF Ahead
  <2>3. \E t \in Seq(Messages) : Ahead = inbox["receiver"] \o t
    <3>1. CASE ~(pc["sender"] = "stream" /\ conn # "lost")
      BY <2>1, <3>1 DEF Ahead
    <3>2. CASE pc["sender"] = "stream" /\ conn # "lost"
      <4>1. <<Binary("data", out.id)>> \in Seq(Messages) /\ Binary("data", out.id) \in Messages
        BY <3>2, MessageFacts DEF TypeInv, DataType
      <4>2. PICK u \in Seq(Messages), v \in Seq(Messages) :
              u = inbox["receiver"] /\ v = wire["sender"]
        BY <2>1
      <4>3. PICK d \in Messages : d = Binary("data", out.id)
        BY <4>1
      <4>4. Coming("receiver") = u \o v /\ u \o v \in Seq(Messages)
        <5>1. u \o v \in Seq(Messages)
          BY Queues
        <5>2. Coming("receiver") = u \o v
          BY <2>1, <4>2
        <5> QED
          BY <5>1, <5>2
      <4>5. Ahead = Append(u \o v, d)
        BY <3>2, <4>3, <4>4 DEF Ahead
      <4>6. Append(u \o v, d) = u \o (v \o <<d>>) /\ v \o <<d>> \in Seq(Messages)
        <5>1. <<d>> \in Seq(Messages) /\ Append(u \o v, d) = (u \o v) \o <<d>>
          BY <4>4
        <5> QED
          BY <5>1, Queues
      <4> QED
        BY <4>2, <4>5, <4>6
    <3> QED
      BY <3>1, <3>2
  <2>4. Stream(Ahead, pc["receiver"], file.id, held) => Stream(Ahead', pc["receiver"], file.id, held)
    BY <2>1, <2>2, <2>3, StreamRest
  <2> QED
    BY <1>3, <2>4 DEF FileInv
<1>4. CASE ConnectionLost
  BY <1>3, <1>4 DEF ConnectionLost
<1>5. ASSUME NEW e \in Ends, Close(e) PROVE FileInv'
  BY <1>3, <1>5 DEF Close, fileVars
<1>6. ASSUME NEW e \in Ends, Deliver(e) PROVE FileInv'
  BY <1>0, <1>e, <1>6, Delivered DEF Deliver
<1>7. CASE AppGone
  BY <1>1, <1>7 DEF AppGone
<1>8. CASE UNCHANGED vars
  BY <1>1, <1>8 DEF vars
<1>9. ASSUME NEW e \in Ends, Disconnected(e) PROVE FileInv'
  BY <1>1, <1>9 DEF Disconnected, fileVars
<1>10. ASSUME NEW f \in Files, AppReports(f) PROVE FileInv'
  BY <1>1, <1>10 DEF AppReports
<1> QED
  BY <1>2, <1>4, <1>5, <1>6, <1>7, <1>8, <1>9, <1>10

\* The steps of the conversation, whoever takes them.
LEMMA Steps ==
  ASSUME TypeInv, [Next]_vars
  PROVE  \/ \E e \in Ends : \E p : Converses(e, p)
         \/ \E f \in Files : \E n \in 0 .. Size[f] + 1 : SendFile(f, n)
         \/ SendChunk \/ SendDelimiter
         \/ ReceiveText \/ ReceiveResult \/ HandleHeader \/ ReceiveData
         \/ Select
         \/ Signal \/ ConnectionLost \/ AppGone
         \/ \E e \in Ends : Deliver(e) \/ Close(e) \/ Disconnected(e)
         \/ \E f \in Files : AppReports(f)
         \/ UNCHANGED vars
<1>e. "sender" \in Ends /\ "receiver" \in Ends
  BY DEF Ends
<1>1. ASSUME \/ ReceiveTokenResponse \/ ReceivePinResponse \/ Collect("sender", "selection")
             \/ ReceiveSelection \/ ReceiveLast
      PROVE  \E p : Converses("sender", p)
  BY <1>e, <1>1, Conversation, Silence
<1>2. ASSUME \/ ReceiveToken \/ Collect("receiver", "list") \/ ReceiveList \/ Flush
      PROVE  \E p : Converses("receiver", p)
  BY <1>e, <1>2, Conversation, Silence
<1>3. ASSUME NEW e \in Ends,
             StartTask(e) \/ ReceiveNonce(e) \/ VerifyPin(e) \/ EnterPin(e) \/ SendFails(e)
      PROVE  \E p : Converses(e, p)
  BY <1>3, Conversation, Silence
<1> QED
  BY <1>e, <1>1, <1>2, <1>3 DEF Next, SenderTask, ReceiverTask, Task

\* Every step keeps file data behind its header.
LEMMA FileStep ==
  ASSUME TypeInv, TalkInv, FileInv, [Next]_vars
  PROVE  FileInv'
BY Steps, FileTalk, FileSend, FileReceive, FileSelect, FileRest
\* A result is owed for at most the open file.
LEMMA ResultOpens ==
  ASSUME TypeInv, ResultInv, NEW m \in FileTexts, OpenFile(m), file.id = None,
         UNCHANGED <<alive, results, told, cut>>
  PROVE  ResultInv'
<1>1. /\ app \in [Files -> {"none", "open", "ended", "stopped"}] /\ None \notin Files
  BY ConstantsAssumption DEF TypeInv, DataType
<1>2. CASE file' = file /\ app' = app
  BY <1>2 DEF ResultInv
<1>3. CASE /\ m.x \in Files /\ file' = [id |-> m.x, received |-> 0]
           /\ app' = [app EXCEPT ![m.x] = IF alive THEN "open" ELSE "stopped"]
  <2>1. file'.id = m.x
    BY <1>3
  <2>2. \A f \in Files : app'[f] = IF f = m.x THEN (IF alive THEN "open" ELSE "stopped") ELSE app[f]
    BY <1>1, <1>3
  <2>3. cut = {} => results = <<>> /\ \A f \in Files : app[f] \notin {"open", "ended"}
    BY <1>1 DEF ResultInv
  <2>4. ~alive => \A f \in Files : app'[f] \notin {"open", "ended"}
    BY <2>2 DEF ResultInv
  <2>5. cut = {} => \A f \in Files : app'[f] \in {"open", "ended"} => f = m.x
    BY <2>2, <2>3
  <2> QED
    BY <2>1, <2>3, <2>4, <2>5 DEF ResultInv
<1>4. \/ file' = file /\ app' = app
      \/ /\ m.x \in Files /\ file' = [id |-> m.x, received |-> 0]
         /\ app' = [app EXCEPT ![m.x] = IF alive THEN "open" ELSE "stopped"]
  <2>1. m.t = "header" => m.x \in Files
    BY FileFacts
  <2> QED
    BY <2>1 DEF OpenFile, ListenReceiving
<1> QED
  BY <1>2, <1>3, <1>4

\* The message that the receiver reads next.
LEMMA NextMessage ==
  ASSUME TypeInv, FileInv, pc["receiver"] = "files", inbox["receiver"] # <<>>
  PROVE  /\ Message("receiver") \in FileMsgs
         /\ Message("receiver").bin => file.id = None \/ file.id = Message("receiver").x
<1>1. PICK u \in Seq(Messages), v \in Seq(Messages) : u = inbox["receiver"] /\ v = wire["sender"]
  BY DEF TypeInv, ControlType, ChannelType, Ends
<1>2. Coming("receiver") = u \o v
  BY <1>1, Ways DEF Coming
<1>3. u \o v \in Seq(Messages) /\ u \o v # <<>> /\ Head(u \o v) = Head(u)
  BY <1>1, Queues
<1>4. Len(u \o v) >= 1 /\ (u \o v)[1] = Message("receiver")
  <2>1. Head(u) = Message("receiver")
    BY <1>1 DEF Message
  <2>2. ASSUME NEW w \in Seq(Messages), w # <<>> PROVE Len(w) >= 1 /\ Head(w) = w[1]
    BY <2>2
  <2> QED
    BY <1>3, <2>1, <2>2
<1>5. Ahead # <<>> /\ Ahead[1] = Message("receiver")
  <2>1. CASE Ahead = Coming("receiver")
    BY <1>2, <1>3, <1>4, <2>1
  <2>2. CASE pc["sender"] = "stream" /\ Ahead = Append(Coming("receiver"), Binary("data", out.id))
    <3>1. PICK d \in Messages : d = Binary("data", out.id)
      BY <2>2, MessageFacts DEF TypeInv, DataType
    <3>2. Append(u \o v, d) # <<>> /\ Append(u \o v, d)[1] = (u \o v)[1]
      BY <1>3, <1>4, AppendProperties
    <3> QED
      BY <1>2, <1>4, <2>2, <3>1, <3>2
  <2> QED
    BY <2>1, <2>2 DEF Ahead
<1>6. Stream(Ahead, "files", file.id, held)
  BY DEF FileInv, Busy
<1>7. Ahead[1] \in FileMsgs
  BY <1>5, <1>6 DEF Stream
<1> QED
  BY <1>5, <1>6, <1>7 DEF Stream, Follows

\* Opening, ending and reporting a file.
LEMMA ResultReceive ==
  ASSUME TypeInv, FileInv, ResultInv,
         ReceiveText \/ ReceiveResult \/ HandleHeader \/ ReceiveData
  PROVE  ResultInv'
<1>t. /\ app \in [Files -> {"none", "open", "ended", "stopped"}] /\ None \notin Files
      /\ told \in [Files -> Files \cup {None}]
  BY ConstantsAssumption DEF TypeInv, DataType
<1>e. /\ \A f, g \in Files : Ended(f)[g] \in {"open", "ended"} <=> app[g] \in {"open", "ended"}
  BY <1>t DEF Ended
<1>1. CASE ReceiveText
  <2>1. UNCHANGED <<alive, results, told, cut>>
    BY <1>1 DEF ReceiveText
  <2>2. CASE file.id = None /\ OpenFile(Message("receiver"))
    <3>1. Message("receiver") \in FileTexts
      BY <1>1, NextMessage, FileFacts DEF ReceiveText, Receives
    <3> QED
      BY <2>1, <2>2, <3>1, ResultOpens
  <2>3. CASE file.id # None /\ app' = Ended(file.id) /\ file' = file
    <3>1. file.id \in Files
      BY <2>3 DEF TypeInv, DataType
    <3>2. \A g \in Files : app'[g] \in {"open", "ended"} <=> app[g] \in {"open", "ended"}
      BY <1>e, <2>3, <3>1
    <3> QED
      BY <2>1, <2>3, <3>2 DEF ResultInv
  <2> QED
    BY <1>1, <2>2, <2>3 DEF ReceiveText
<1>2. CASE HandleHeader
  <2>1. OpenFile(held) /\ UNCHANGED <<alive, results, told, cut>>
    BY <1>2 DEF HandleHeader
  <2>2. held \in FileTexts /\ file.id = None
    BY <1>2 DEF HandleHeader, FileInv, NoFile, Over
  <2> QED
    BY <2>1, <2>2, ResultOpens
<1>3. CASE ReceiveResult
  <2>1. pc["receiver"] = "result" /\ file' = NoFile /\ UNCHANGED <<app, alive, cut>> /\ file.id \in Files
    BY <1>3 DEF ReceiveResult, TypeInv, DataType
  <2>2. CASE results = <<>> /\ ~alive /\ UNCHANGED <<results, told>>
    BY <2>1, <2>2 DEF ResultInv
  <2>3. CASE /\ results # <<>> /\ results' = Tail(results)
             /\ told' = [told EXCEPT ![file.id] = Head(results)]
    <3>1. ASSUME cut = {}
          PROVE  /\ results' = <<>> /\ told'[file.id] = file.id
                 /\ \A f \in Files : app[f] \notin {"open", "ended"}
      <4>1. results = <<file.id>>
        BY <2>3, <3>1 DEF ResultInv
      <4>2. Tail(results) = <<>> /\ Head(results) = file.id
        BY <4>1
      <4> QED
        BY <1>t, <2>1, <2>3, <3>1, <4>2 DEF ResultInv
    <3>2. \A f \in Files : f # file.id => told'[f] = told[f]
      BY <1>t, <2>3
    <3>3. cut = {} => \A f \in Files : told'[f] \in {f, None}
      BY <3>1, <3>2 DEF ResultInv
    <3> QED
      BY <2>1, <3>1, <3>3 DEF ResultInv
  <2> QED
    BY <1>3, <2>2, <2>3 DEF ReceiveResult
<1>4. CASE ReceiveData
  <2>1. UNCHANGED <<alive, results, told>>
    BY <1>4 DEF ReceiveData
  <2>2. CASE UNCHANGED <<app, cut>> /\ (file' = file \/ file' = [file EXCEPT !.received = @ + 1])
    <3>1. file'.id = file.id
      BY <2>2 DEF TypeInv, DataType
    <3> QED
      BY <2>1, <2>2, <3>1 DEF ResultInv
  <2>3. CASE file.id # None /\ app' = Ended(file.id) /\ cut' = cut \cup {file.id}
    <3>1. file.id \in Files
      BY <2>3 DEF TypeInv, DataType
    <3>2. \A g \in Files : app'[g] \in {"open", "ended"} <=> app[g] \in {"open", "ended"}
      BY <1>e, <2>3, <3>1
    <3>3. cut' # {}
      BY <2>3
    <3> QED
      BY <2>1, <3>2, <3>3 DEF ResultInv
  <2> QED
    BY <1>4, <2>2, <2>3 DEF ReceiveData
<1> QED
  BY <1>1, <1>2, <1>3, <1>4

\* Every step keeps results with their file.
LEMMA ResultStep ==
  ASSUME TypeInv, FileInv, ResultInv, [Next]_vars
  PROVE  ResultInv'
<1>t. app \in [Files -> {"none", "open", "ended", "stopped"}] /\ None \notin Files
  BY ConstantsAssumption DEF TypeInv, DataType
<1>0. ASSUME UNCHANGED <<file, app, alive, results, told, cut>> PROVE ResultInv'
  BY <1>0 DEF ResultInv
<1>1. ASSUME NEW e \in Ends, NEW p, Converses(e, p) PROVE ResultInv'
  BY <1>0, <1>1 DEF Converses, fileVars
<1>2. ASSUME NEW f \in Files, NEW n, SendFile(f, n) PROVE ResultInv'
  BY <1>0, <1>2 DEF SendFile
<1>3. CASE SendChunk \/ SendDelimiter \/ Select
  BY <1>0, <1>3 DEF SendChunk, SendDelimiter, Select, fileVars
<1>4. CASE Signal \/ ConnectionLost
  BY <1>0, <1>4 DEF Signal, SendOffer, OnAnswer, SendAnswer, ListenerTakesAnswer, ChannelOpens,
       signalUnchanged, ConnectionLost
<1>5. ASSUME NEW e \in Ends, Deliver(e) \/ Close(e) \/ Disconnected(e) PROVE ResultInv'
  BY <1>0, <1>5 DEF Deliver, Close, Disconnected, fileVars
<1>6. CASE UNCHANGED vars
  BY <1>0, <1>6 DEF vars
<1>7. ASSUME NEW f \in Files, AppReports(f) PROVE ResultInv'
  <2>1. /\ alive /\ app[f] \in {"open", "ended"} /\ app' = [app EXCEPT ![f] = "stopped"]
        /\ results' = Append(results, f) /\ UNCHANGED <<file, alive, told, cut>>
    BY <1>7 DEF AppReports
  <2>2. \A g \in Files : app'[g] = IF g = f THEN "stopped" ELSE app[g]
    BY <1>t, <2>1
  <2>3. ASSUME cut = {}
        PROVE  /\ results' = <<f>> /\ f = file.id
               /\ \A g \in Files : app'[g] \notin {"open", "ended"}
    <3>1. f = file.id /\ results = <<>>
      BY <2>1, <2>3 DEF ResultInv
    <3>2. Append(<<>>, f) = <<f>>
      OBVIOUS
    <3> QED
      BY <2>1, <2>2, <2>3, <3>1, <3>2 DEF ResultInv
  <2> QED
    BY <1>t, <2>1, <2>3 DEF ResultInv
<1>8. CASE AppGone
  <2>1. /\ \A f \in Files : app'[f] \notin {"open", "ended"}
        /\ UNCHANGED <<file, results, told, cut>>
    BY <1>8, <1>t DEF AppGone
  <2> QED
    BY <2>1 DEF ResultInv
<1> QED
  BY Steps, ResultReceive, <1>1, <1>2, <1>3, <1>4, <1>5, <1>6, <1>7, <1>8
-----------------------------------------------------------------------------
(* Closing, and reading what can be parsed.                                *)

\* No file data comes from delivering or from saying something else.
LEMMA NoDataKept ==
  ASSUME NEW s \in Seq(Messages), NEW t \in Seq(Messages), NoData(s)
  PROVE  /\ s # <<>> => NoData(Tail(s))
         /\ NoData(t) => NoData(s \o t)
<1>1. ASSUME s # <<>> PROVE NoData(Tail(s))
  <2>1. /\ Len(s) \in Nat \ {0} /\ DOMAIN Tail(s) = 1 .. Len(s) - 1 /\ DOMAIN s = 1 .. Len(s)
        /\ \A i \in 1 .. Len(s) - 1 : Tail(s)[i] = s[i + 1]
    BY <1>1
  <2>2. \A i \in 1 .. Len(s) - 1 : i + 1 \in 1 .. Len(s)
    BY <2>1
  <2> QED
    BY <2>1, <2>2 DEF NoData
<1>2. ASSUME NoData(t) PROVE NoData(s \o t)
  <2>1. /\ Len(s) \in Nat /\ Len(t) \in Nat /\ DOMAIN s = 1 .. Len(s) /\ DOMAIN t = 1 .. Len(t)
        /\ DOMAIN (s \o t) = 1 .. Len(s) + Len(t)
        /\ \A i \in 1 .. Len(s) + Len(t) :
             (s \o t)[i] = IF i <= Len(s) THEN s[i] ELSE t[i - Len(s)]
    BY ConcatProperties, LenProperties
  <2>2. ASSUME NEW i \in 1 .. Len(s) + Len(t) PROVE (s \o t)[i].t # "data"
    <3>1. CASE i <= Len(s)
      <4>1. i \in 1 .. Len(s)
        BY <2>1, <3>1
      <4> QED
        BY <2>1, <3>1, <4>1 DEF NoData
    <3>2. CASE ~(i <= Len(s))
      <4>1. i - Len(s) \in 1 .. Len(t)
        BY <2>1, <3>2
      <4> QED
        BY <1>2, <2>1, <3>2, <4>1 DEF NoData
    <3> QED
      BY <3>1, <3>2
  <2> QED
    BY <2>1, <2>2 DEF NoData
<1> QED
  BY <1>1, <1>2

\* What a task does to its main function and to the wire of its peer.
LEMMA Aside ==
  ASSUME TypeInv, NEW e \in Ends, NEW p, Moves(e, p)
  PROVE  /\ wire'[Peer(e)] = wire[Peer(e)]
         /\ \A d \in Ends : main'[d] = "closing" => main[d] = "closing" \/ (d = e /\ p = "done")
<1>1. wire' = wire \/ \E ms : wire' = [wire EXCEPT ![e] = @ \o ms]
  BY DEF Moves, Say, Quietly, Fail, LastWords
<1>2. wire'[Peer(e)] = wire[Peer(e)]
  BY <1>1, Ways DEF TypeInv, ControlType
<1>3. \/ main' = main
      \/ main' = [main EXCEPT ![e] = IF @ = "run" THEN "error" ELSE @]
      \/ p = "done" /\ main' = [main EXCEPT ![e] = IF @ = "run" THEN "closing" ELSE @]
  BY DEF Moves, Say, Quietly, Fail, LastWords, FailWith, Done, SetMain
<1>4. \A d \in Ends : main'[d] = "closing" => main[d] = "closing" \/ (d = e /\ p = "done")
  BY <1>3 DEF TypeInv, ControlType
<1> QED
  BY <1>2, <1>4

\* File data has left the buffer before the sender is done.
LEMMA CloseStep ==
  ASSUME TypeInv, CloseInv, [Next]_vars
  PROVE  CloseInv'
<1>e. /\ "sender" \in Ends /\ "receiver" \in Ends /\ Peer("sender") = "receiver"
      /\ Peer("receiver") = "sender" /\ \A e \in Ends : e = "sender" \/ e = "receiver"
      /\ {"next", "stream", "last"} \subseteq Pcs("sender")
      /\ {"files", "result", "header", "flush", "failed", "done"} \subseteq Pcs("receiver")
  BY DEF Ends, Peer, Pcs, SenderPcs, ReceiverPcs
<1>w. wire["sender"] \in Seq(Messages) /\ wire \in [Ends -> Seq(Messages)]
  BY <1>e DEF TypeInv, ControlType
<1>r. ASSUME NEW p \in Pcs("receiver"), Moves("receiver", p) PROVE CloseInv'
  <2>1. pc'["sender"] = pc["sender"] /\ wire'["sender"] = wire["sender"]
    BY <1>e, <1>r, Moved, Aside
  <2>2. main'["sender"] = "closing" => main["sender"] = "closing"
    BY <1>e, <1>r, Aside
  <2> QED
    BY <2>1, <2>2 DEF CloseInv
<1>s. ASSUME NEW p \in Pcs("sender"), Moves("sender", p), pc["sender"] # "done",
             p \notin {"next", "stream", "failed"} => NoData(wire'["sender"])
      PROVE  CloseInv'
  <2>1. pc'["sender"] = p
    BY <1>e, <1>s, Moved
  <2>2. main'["sender"] = "closing" => p = "done"
    BY <1>e, <1>s, Aside DEF CloseInv
  <2> QED
    BY <1>s, <2>1, <2>2 DEF CloseInv
<1>0. ASSUME pc' = pc, wire'["sender"] = wire["sender"] \/ NoData(wire'["sender"]),
             main'["sender"] = "closing" => main["sender"] = "closing"
      PROVE  CloseInv'
  BY <1>0 DEF CloseInv
<1>1. ASSUME NEW p, Converses("receiver", p) PROVE CloseInv'
  BY <1>r, <1>1 DEF Converses
<1>2. ASSUME NEW p, Converses("sender", p) PROVE CloseInv'
  <2>1. p \in Pcs("sender") /\ Moves("sender", p) /\ pc["sender"] # "done"
    BY <1>2 DEF Converses, Over
  <2>2. ASSUME p \notin {"next", "stream", "failed"} PROVE NoData(wire'["sender"])
    <3>1. NoData(wire["sender"])
      BY <1>2, <2>2 DEF Converses, CloseInv, Over
    <3>2. CASE wire' = wire
      BY <3>1, <3>2
    <3>3. ASSUME NEW ms \in Seq(Messages), NoData(ms), wire' = [wire EXCEPT !["sender"] = @ \o ms]
          PROVE  NoData(wire'["sender"])
      <4>1. wire'["sender"] = wire["sender"] \o ms
        BY <1>e, <1>w, <3>3
      <4> QED
        BY <1>w, <3>1, <3>3, <4>1, NoDataKept
    <3> QED
      BY <1>2, <3>2, <3>3 DEF Converses
  <2> QED
    BY <1>s, <2>1, <2>2
<1>3. ASSUME NEW f \in Files, NEW n, SendFile(f, n) PROVE CloseInv'
  BY <1>e, <1>s, <1>3, FileSteps
<1>4. CASE SendChunk
  BY <1>e, <1>s, <1>4, FileSteps
<1>5. CASE SendDelimiter
  <2>1. Moves("sender", "last") /\ pc["sender"] = "next"
    BY <1>5, FileSteps
  <2>2. wire["sender"] = <<>> /\ wire' = [wire EXCEPT !["sender"] = @ \o <<Delimiter>>]
    BY <1>5 DEF SendDelimiter, Say
  <2>3. wire'["sender"] = <<Delimiter>>
    <3>1. <<>> \o <<Delimiter>> = <<Delimiter>>
      BY MessageFacts, Speak
    <3> QED
      BY <1>e, <1>w, <2>2, <3>1
  <2> QED
    BY <1>e, <1>s, <2>1, <2>3, NoDataSaid
<1>6. CASE ReceiveText \/ ReceiveResult \/ HandleHeader \/ ReceiveData
  BY <1>e, <1>r, <1>6, FileSteps
<1>7. CASE Select
  <2>1. \/ Say("receiver", InChunks("selection", None), "files")
        \/ /\ wire' = [wire EXCEPT !["receiver"] = @ \o InChunks("declined", None)]
           /\ Done("receiver")
        \/ Done("receiver") /\ wire' = wire
    BY <1>7 DEF Select, SendSelection, Decline
  <2>2. \A t \in {"selection", "declined"} : InChunks(t, None) \in Seq(Messages)
    BY MessageFacts DEF Long
  <2>3. \E p \in {"files", "done"} : Moves("receiver", p)
    BY <2>1, <2>2 DEF Moves
  <2> QED
    BY <1>e, <1>r, <2>3
<1>8. CASE Signal
  <2>1. pc' = pc /\ wire' = wire
    BY <1>8 DEF Signal, SendOffer, OnAnswer, SendAnswer, ListenerTakesAnswer, ChannelOpens,
       signalUnchanged
  <2>2. \/ main' = main
        \/ \E e \in Ends : \E m \in {"register", "answer", "run"} : main' = [main EXCEPT ![e] = m]
    BY <1>e, <1>8 DEF Signal, SendOffer, OnAnswer, SendAnswer, ListenerTakesAnswer, ChannelOpens
  <2>3. main'["sender"] = "closing" => main["sender"] = "closing"
    BY <1>e, <2>2 DEF TypeInv, ControlType
  <2> QED
    BY <1>0, <2>1, <2>3
<1>9. CASE ConnectionLost
  <2>1. wire'["sender"] = <<>> /\ pc' = pc /\ main' = main
    BY <1>e, <1>9 DEF ConnectionLost
  <2> QED
    BY <1>0, <2>1, NoDataSaid
<1>10. ASSUME NEW e \in Ends, Close(e) PROVE CloseInv'
  <2>1. wire'["sender"] = <<>> /\ pc' = pc /\ main' = [main EXCEPT ![e] = "finished"]
    BY <1>e, <1>10 DEF Close
  <2>2. main'["sender"] = "closing" => main["sender"] = "closing"
    BY <1>e, <2>1 DEF TypeInv, ControlType
  <2> QED
    BY <1>0, <2>1, <2>2, NoDataSaid
<1>11. ASSUME NEW e \in Ends, Disconnected(e) PROVE CloseInv'
  <2>1. wire' = wire /\ pc' = pc /\ main' = [main EXCEPT ![e] = "finished"]
    BY <1>11 DEF Disconnected
  <2>2. main'["sender"] = "closing" => main["sender"] = "closing"
    BY <1>e, <2>1 DEF TypeInv, ControlType
  <2> QED
    BY <1>0, <2>1, <2>2
<1>12. ASSUME NEW e \in Ends, Deliver(e) PROVE CloseInv'
  <2>1. wire[e] # <<>> /\ wire' = [wire EXCEPT ![e] = Tail(@)] /\ pc' = pc /\ main' = main
    BY <1>12 DEF Deliver
  <2>2. wire'["sender"] = wire["sender"] \/ (wire["sender"] # <<>> /\ wire'["sender"] = Tail(wire["sender"]))
    BY <1>e, <1>w, <2>1
  <2>3. NoData(wire["sender"]) => NoData(wire'["sender"])
    BY <1>w, <2>2, NoDataKept
  <2> QED
    BY <2>1, <2>3 DEF CloseInv
<1>13. CASE AppGone \/ UNCHANGED vars \/ \E f \in Files : AppReports(f)
  <2>1. pc' = pc /\ wire' = wire /\ main' = main
    BY <1>13 DEF AppGone, AppReports, vars
  <2> QED
    BY <1>0, <2>1
<1> QED
  BY Steps, <1>e, <1>1, <1>2, <1>3, <1>4, <1>5, <1>6, <1>7, <1>8, <1>9, <1>10, <1>11, <1>12, <1>13
\* While files are sent, only headers, data and the delimiter are read.
LEMMA InStepFiles ==
  ASSUME TypeInv, FileInv, InStep,
         ReceiveText \/ ReceiveResult \/ HandleHeader \/ ReceiveData
  PROVE  InStep'
<1>e. "receiver" \in Ends /\ err \in [Ends -> Errors]
  BY DEF Ends, TypeInv, ControlType
<1>u. ASSUME err' = err PROVE InStep'
  BY <1>u DEF InStep
<1>f. ASSUME NEW why, why # "unexpected", Fail("receiver", why) PROVE InStep'
  BY <1>e, <1>f DEF Fail, FailWith, InStep
<1>o. ASSUME NEW m \in FileTexts, OpenFile(m) PROVE InStep'
  <2>1. Fail("receiver", "noFile") \/ Quietly("receiver", "files")
    BY <1>o, FileFacts DEF OpenFile
  <2> QED
    BY <1>f, <1>u, <2>1 DEF Quietly
<1>1. CASE ReceiveText
  <2>1. Message("receiver") \in FileTexts
    BY <1>1, NextMessage, FileFacts DEF ReceiveText, Receives
  <2>2. OpenFile(Message("receiver")) \/ Quietly("receiver", "result")
    BY <1>1 DEF ReceiveText
  <2> QED
    BY <1>o, <1>u, <2>1, <2>2 DEF Quietly
<1>2. CASE ReceiveResult
  BY <1>u, <1>2 DEF ReceiveResult, Say
<1>3. CASE HandleHeader
  <2>1. held \in FileTexts /\ OpenFile(held)
    BY <1>3 DEF HandleHeader, FileInv
  <2> QED
    BY <1>o, <2>1
<1>4. CASE ReceiveData
  <2>1. Quietly("receiver", "files") \/ Fail("receiver", "app")
    BY <1>4 DEF ReceiveData
  <2> QED
    BY <1>f, <1>u, <2>1 DEF Quietly
<1> QED
  BY <1>1, <1>2, <1>3, <1>4

\* In the conversation, an end reads what it waits for.
LEMMA InStepTalk ==
  ASSUME TypeInv, TalkInv, PinInv, InStep, NEW e \in Ends,
         \/ StartTask(e) \/ ReceiveNonce(e) \/ VerifyPin(e) \/ EnterPin(e) \/ SendFails(e)
         \/ e = "receiver" /\ (ReceiveToken \/ Collect(e, "list") \/ ReceiveList \/ Flush)
         \/ /\ e = "sender"
            /\ \/ ReceiveTokenResponse \/ ReceivePinResponse \/ Collect(e, "selection")
               \/ ReceiveSelection \/ ReceiveLast
  PROVE  InStep'
<1>e. err \in [Ends -> Errors] /\ Expect(pc[e], Coming(e), chunks[e])
  BY DEF TypeInv, ControlType, TalkInv
<1>u. ASSUME err' = err PROVE InStep'
  BY <1>u DEF InStep
<1>q. ASSUME \/ \E p : Quietly(e, p)
             \/ \E p, ms : Say(e, ms, p)
             \/ Done(e)
      PROVE  InStep'
  BY <1>u, <1>q DEF Quietly, Say, Done
<1>f. ASSUME NEW why, why # "unexpected", Fail(e, why) \/ \E ms : LastWords(e, ms, why) PROVE InStep'
  BY <1>e, <1>f DEF Fail, LastWords, FailWith, InStep
<1>1. CASE StartTask(e)
  BY <1>q, <1>1 DEF StartTask
<1>2. CASE ReceiveNonce(e)
  <2>1. Receives(e, "nonce") /\ pc[e] = "nonce" /\ Coming(e) # <<>>
    BY <1>2, Hearing DEF ReceiveNonce, Receives
  <2>2. Coming(e) = <<Nonce>>
    BY <1>e, <2>1 DEF Expect
  <2>3. Message(e).t = "nonce"
    BY <2>1, <2>2, Reply DEF Nonce, Text
  <2> QED
    BY <1>q, <1>2, <2>3 DEF ReceiveNonce
<1>3. CASE VerifyPin(e)
  <2>1. Receives(e, "verify") /\ pc[e] = "verify" /\ Coming(e) # <<>>
    BY <1>3, Hearing DEF VerifyPin, Receives
  <2>2. PICK x \in {"wrong", "right"} : Coming(e) = <<Text("pin", x)>>
    BY <1>e, <2>1 DEF Expect
  <2>3. Message(e).t = "pin" /\ Message(e).x = x
    BY <2>1, <2>2, Reply DEF Text
  <2>4. tries[e] + 1 < MaxTries \/ tries[e] + 1 >= MaxTries
    BY ConstantsAssumption DEF TypeInv, ChannelType
  <2>5. (\E p, ms : Say(e, ms, p)) \/ \E ms : LastWords(e, ms, "tooMany")
    BY <1>3, <2>3, <2>4 DEF VerifyPin
  <2> QED
    BY <1>f, <1>q, <2>5
<1>4. CASE EnterPin(e)
  BY <1>f, <1>q, <1>4 DEF EnterPin
<1>5. CASE SendFails(e)
  BY <1>f, <1>5 DEF SendFails
<1>6. CASE e = "receiver" /\ ReceiveToken
  <2>1. Receives(e, "token") /\ pc[e] = "token" /\ Coming(e) # <<>>
    BY <1>6, Hearing DEF ReceiveToken, Receives
  <2>2. Coming(e) = <<Token>>
    BY <1>e, <2>1 DEF Expect
  <2>3. Message(e).t = "token"
    BY <2>1, <2>2, Reply DEF Token, Text
  <2>4. (\E p, ms : Say(e, ms, p)) \/ \E ms : LastWords(e, ms, "signature")
    BY <1>6, <2>3 DEF ReceiveToken
  <2> QED
    BY <1>f, <1>q, <2>4
<1>7. CASE e = "receiver" /\ ReceiveList
  <2>1. Receives(e, "list") /\ pc[e] = "list" /\ ~Message(e).bin
    BY <1>7 DEF ReceiveList, StringEnds, Receives
  <2>2. Chunked(Coming(e), chunks[e], {"list", "pinRequired", "tooMany"})
    BY <1>e, <2>1 DEF Expect
  <2>k. ASSUME NEW kinds, Chunked(Coming(e), chunks[e], kinds)
        PROVE  \E t \in kinds : chunks[e] = <<Binary(t, None)>> /\ Parsed(e) = t
    BY <2>1, <2>k, Reading
  <2>3. PICK t \in {"list", "pinRequired", "tooMany"} : chunks[e] = <<Binary(t, None)>> /\ Parsed(e) = t
    BY <2>2, <2>k
  <2>4. t = "tooMany" => typed[e] # "no"
    BY <1>7, <2>1, <2>3 DEF PinInv, TooManyInv
  <2>5. Quietly(e, "select") \/ Quietly(e, "enter") \/ Fail(e, "tooMany")
    BY <1>7, <2>3, <2>4 DEF ReceiveList
  <2> QED
    BY <1>f, <1>q, <2>5
<1>8. CASE e = "sender" /\ ReceiveTokenResponse
  <2>1. Receives(e, "tokenResponse") /\ pc[e] = "tokenResponse" /\ Coming(e) # <<>>
    BY <1>8, Hearing DEF ReceiveTokenResponse, Receives
  <2>2. PICK x : Coming(e) = <<Text("tokenResponse", x)>>
    BY <1>e, <2>1 DEF Expect
  <2>3. Message(e).t = "tokenResponse"
    BY <2>1, <2>2, Reply DEF Text
  <2>4. (\E p, ms : Say(e, ms, p)) \/ Quietly(e, "enter") \/ Fail(e, "signature")
    BY <1>8, <2>3 DEF ReceiveTokenResponse, SenderVerifies
  <2> QED
    BY <1>f, <1>q, <2>4
<1>9. CASE e = "sender" /\ ReceivePinResponse
  <2>1. Receives(e, "pinResponse") /\ pc[e] = "pinResponse" /\ Coming(e) # <<>>
    BY <1>9, Hearing DEF ReceivePinResponse, Receives
  <2>2. PICK t \in {"pinOk", "pinRequired", "tooMany"} : Coming(e) = <<Text(t, None)>>
    BY <1>e, <2>1 DEF Expect
  <2>3. Message(e) = Text(t, None)
    BY <2>1, <2>2, Reply
  <2>d. \A r, s : Text(r, None) = Text(s, None) => r = s
    BY DEF Text
  <2>4. (\E p, ms : Say(e, ms, p)) \/ Quietly(e, "enter") \/ Fail(e, "tooMany")
    <3>1. CASE t = "pinOk"
      <4>1. SenderVerifies
        BY <1>9, <2>3, <2>d, <3>1 DEF ReceivePinResponse
      <4> QED
        BY <1>9, <4>1 DEF SenderVerifies
    <3>2. CASE t = "pinRequired"
      BY <1>9, <2>3, <2>d, <3>2 DEF ReceivePinResponse
    <3>3. CASE t = "tooMany"
      BY <1>9, <2>3, <2>d, <3>3 DEF ReceivePinResponse
    <3> QED
      BY <3>1, <3>2, <3>3
  <2> QED
    BY <1>f, <1>q, <2>4
<1>10. CASE e = "sender" /\ ReceiveSelection
  <2>1. Receives(e, "selection") /\ pc[e] = "selection" /\ ~Message(e).bin
    BY <1>10 DEF ReceiveSelection, StringEnds, Receives
  <2>2. Chunked(Coming(e), chunks[e], {"selection", "declined"})
    BY <1>e, <2>1 DEF Expect
  <2>3. Parsed(e) \in {"selection", "declined"}
    BY <2>1, <2>2, Reading
  <2>4. Quietly(e, "next") \/ Done(e) \/ Fail(e, "user")
    BY <1>10, <2>3 DEF ReceiveSelection, PublishSelection
  <2> QED
    BY <1>f, <1>q, <2>4
<1>11. CASE \/ e = "receiver" /\ (Collect(e, "list") \/ Flush)
            \/ e = "sender" /\ (Collect(e, "selection") \/ ReceiveLast)
  BY <1>q, <1>11 DEF Collect, Flush, ReceiveLast
<1> QED
  BY <1>1, <1>2, <1>3, <1>4, <1>5, <1>6, <1>7, <1>8, <1>9, <1>10, <1>11

\* No end ever reads what it cannot parse where it stands.
LEMMA InStepStep ==
  ASSUME TypeInv, TalkInv, PinInv, FileInv, InStep, [Next]_vars
  PROVE  InStep'
<1>e. "sender" \in Ends /\ "receiver" \in Ends
  BY DEF Ends
<1>u. ASSUME err' = err PROVE InStep'
  BY <1>u DEF InStep
<1>1. ASSUME NEW f \in Files, NEW n, SendFile(f, n) PROVE InStep'
  BY <1>u, <1>1 DEF SendFile, Say, Quietly
<1>2. CASE SendChunk \/ SendDelimiter
  BY <1>u, <1>2 DEF SendChunk, SendDelimiter, Say, Quietly
<1>3. CASE Select
  BY <1>u, <1>3 DEF Select, SendSelection, Decline, Say, Done
<1>4. CASE Signal \/ ConnectionLost \/ AppGone
  BY <1>u, <1>4 DEF Signal, SendOffer, OnAnswer, SendAnswer, ListenerTakesAnswer, ChannelOpens,
       signalUnchanged, ConnectionLost, AppGone
<1>5. ASSUME NEW e \in Ends, Deliver(e) \/ Close(e) \/ Disconnected(e) PROVE InStep'
  BY <1>u, <1>5 DEF Deliver, Close, Disconnected
<1>6. CASE UNCHANGED vars \/ \E f \in Files : AppReports(f)
  BY <1>u, <1>6 DEF AppReports, vars
<1>7. ASSUME \/ ReceiveToken \/ Collect("receiver", "list") \/ ReceiveList \/ Flush
      PROVE  InStep'
  BY <1>e, <1>7, InStepTalk
<1>8. ASSUME \/ ReceiveTokenResponse \/ ReceivePinResponse \/ Collect("sender", "selection")
             \/ ReceiveSelection \/ ReceiveLast
      PROVE  InStep'
  BY <1>e, <1>8, InStepTalk
<1>9. ASSUME NEW e \in Ends,
             StartTask(e) \/ ReceiveNonce(e) \/ VerifyPin(e) \/ EnterPin(e) \/ SendFails(e)
      PROVE  InStep'
  BY <1>9, InStepTalk
<1> QED
  BY InStepFiles, <1>1, <1>2, <1>3, <1>4, <1>5, <1>6, <1>7, <1>8, <1>9
     DEF Next, SenderTask, ReceiverTask, Task

-----------------------------------------------------------------------------
(* The theorems.                                                           *)

TransferInv == TypeInv /\ TalkInv /\ PinInv /\ FileInv /\ ResultInv /\ CloseInv /\ InStep

\* The invariant holds when both ends start.
LEMMA TransferInit == Init => TransferInv
<1> SUFFICES ASSUME Init PROVE TransferInv
  OBVIOUS
<1>e. /\ "sender" \in Ends /\ "receiver" \in Ends /\ Peer("sender") = "receiver"
      /\ Peer("receiver") = "sender" /\ \A e \in Ends : Peer(e) \in Ends
  BY DEF Ends, Peer
<1>1. /\ \A e \in Ends : /\ main[e] = "signal" /\ pc[e] = "channel" /\ err[e] = None /\ tries[e] = 0
                         /\ typed[e] = "no" /\ wire[e] = <<>> /\ inbox[e] = <<>> /\ chunks[e] = <<>>
      /\ conn = "none" /\ file = NoFile /\ cut = {} /\ alive /\ results = <<>>
      /\ \A f \in Files : app[f] = "none" /\ told[f] = None
  BY DEF Init
<1>2. \A e \in Ends : Coming(e) = <<>>
  <2>1. <<>> \o <<>> = <<>>
    OBVIOUS
  <2> QED
    BY <1>e, <1>1, <2>1 DEF Coming
<1>3. TypeInv
  <2>1. ControlType
    BY <1>e DEF Init, ControlType, Pcs, SenderPcs, ReceiverPcs, AllPcs, Errors
  <2>2. ChannelType
    BY DEF Init, ChannelType
  <2>3. DataType
    BY <1>e DEF Init, DataType, NoOut, NoFile
  <2> QED
    BY <2>1, <2>2, <2>3 DEF TypeInv
<1>4. TalkInv
  <2>1. \A e \in Ends : Expect(pc[e], Coming(e), chunks[e])
    BY <1>1, <1>2 DEF Expect
  <2>2. InTurn
    BY <1>e, <1>1, <1>2 DEF InTurn, Turn
  <2> QED
    BY <2>1, <2>2 DEF TalkInv
<1>5. PinInv
  <2>1. 0 \in 0 .. MaxTries
    BY ConstantsAssumption
  <2> QED
    BY <1>e, <1>1, <2>1 DEF PinInv, TriesInv, TypedInv, ReceiverPin, SenderPin, TooManyInv, Listed
<1>6. FileInv
  BY <1>e, <1>1 DEF FileInv, Busy
<1>7. ResultInv
  BY <1>1 DEF ResultInv
<1>8. CloseInv
  BY <1>e, <1>1 DEF CloseInv, NoData
<1>9. InStep
  BY <1>1, ConstantsAssumption DEF InStep
<1> QED
  BY <1>3, <1>4, <1>5, <1>6, <1>7, <1>8, <1>9 DEF TransferInv

\* Every step of either end, the connection or an application keeps it.
LEMMA TransferStep == TransferInv /\ [Next]_vars => TransferInv'
BY TypeStep, TalkStep, PinStep, FileStep, ResultStep, CloseStep, InStepStep DEF TransferInv

\* So it always holds.
LEMMA TransferAlways == Spec => []TransferInv
BY TransferInit, TransferStep, PTL DEF Spec

\* The two sequential protocols of send_offer and accept_offer fit each
\* other, whoever wants a PIN and however often it is mistyped: neither end
\* reads a message it cannot parse where it stands, and the file list does
\* not leave the sender before every PIN has been entered in time.
THEOREM Fits == Spec => []ProtocolFits
<1>1. ASSUME TransferInv PROVE ProtocolFits
  <2>0. TypeInv /\ PinInv /\ InStep
    BY <1>1 DEF TransferInv
  <2>1. TypeOK
    <3>1. tries \in [Ends -> 0 .. MaxTries]
      BY <2>0 DEF PinInv, TriesInv, TypeInv, ChannelType
    <3> QED
      BY <2>0, <3>1 DEF TypeOK, TypeInv, ControlType, ChannelType, DataType, AllPcs, Errors
  <2>2. PinsFirst
    <3>1. ASSUME pc["sender"] \in Listed, NEW e \in pins PROVE typed[Peer(e)] = "right" /\ tries[e] \in 1 .. MaxTries
      <4>1. e \in Ends /\ (e = "sender" \/ e = "receiver")
        BY <2>0 DEF TypeInv, ChannelType, Ends
      <4>2. Settled(e)
        BY <2>0, <3>1, <4>1 DEF PinInv, ReceiverPin, SenderPin
      <4>3. tries[e] \in 0 .. MaxTries /\ MaxTries \in Nat
        BY <2>0, <4>1, ConstantsAssumption DEF PinInv, TriesInv
      <4> QED
        BY <4>2, <4>3 DEF Settled
    <3> QED
      BY <3>1 DEF PinsFirst, Listed
  <2> QED
    BY <2>0, <2>1, <2>2 DEF ProtocolFits
<1> QED
  BY <1>1, TransferAlways, PTL

\* File data and results reach the file they belong to, although neither
\* names it: a chunk that the receiver takes while a file is open is one of
\* that file, the result it sends is the application's for that file (as
\* long as none was cut off), and when the sender closes the connection no
\* file data is buffered any more.
THEOREM Belongs == Spec => []DataBelongs
<1>1. ASSUME TransferInv PROVE DataBelongs
  <2>0. TypeInv /\ FileInv /\ ResultInv /\ CloseInv
    BY <1>1 DEF TransferInv
  <2>1. ChunkBelongs
    BY <2>0, NextMessage DEF ChunkBelongs
  <2>2. ResultsMatch
    BY <2>0 DEF ResultInv, ResultsMatch
  <2>3. CloseLosesNoData
    BY <2>0 DEF CloseInv, NoData, CloseLosesNoData
  <2> QED
    BY <2>1, <2>2, <2>3 DEF DataBelongs
<1> QED
  BY <1>1, TransferAlways, PTL
=============================================================================
