-------------------------- MODULE ReceiveAppProofs --------------------------
(***************************************************************************)
(* Proofs about ReceiveApp, for any number of requests, files and attempts *)
(* and queues of any length: what arrives was accepted, what is shown as   *)
(* received has arrived, and a cancelled session gets no further target.   *)
(***************************************************************************)
EXTENDS ReceiveApp, FiniteSetTheorems, TLAPS

-----------------------------------------------------------------------------
(* Messages and queues. *)

PlainKinds == {"PrepareUpload", "PrepareUploadAborted", "SessionFinished", "SessionCancelled"}
FileKinds == {"FileUpload", "Failed", "Saved"}
Messages == [kind : PlainKinds, of : Requests]
            \cup [kind : FileKinds, of : Requests, file : Files]
Answers == Files \cup Declined
Tasks == [kind : {"Cancel"}, of : Requests]
         \cup [kind : {"Decision"}, of : Requests, files : SUBSET Answers, asked : Requests]
Replies == [files : SUBSET Answers, asked : Requests]
Grants == [of : Requests, files : SUBSET Answers]

Items(q) == {q[i] : i \in DOMAIN q}

\* No request is announced twice.
Once(q) == \A i, j \in DOMAIN q : q[i].kind = "PrepareUpload" /\ q[i] = q[j] => i = j

\* The requests announced in a queue.
Prep(q) == {r \in Requests : Message("PrepareUpload", r) \in Items(q)}

LEMMA RequestFacts == NoRequest \notin Requests /\ Requests \subseteq Int
BY ConstantsAssumption, FS_CardinalityType DEF NoRequest

LEMMA MessageFacts ==
  /\ \A e \in Messages :
       /\ e.of \in Requests /\ e.kind \in PlainKinds \cup FileKinds
       /\ e.kind \in FileKinds => <<e.of, e.file>> \in Uploads
       /\ e.kind = "PrepareUpload" => e = Message("PrepareUpload", e.of)
  /\ \A k \in PlainKinds, r \in Requests :
       Message(k, r) \in Messages /\ Message(k, r).kind = k /\ Message(k, r).of = r
  /\ \A k \in FileKinds, u \in Uploads :
       /\ FileMessage(k, u) \in Messages /\ FileMessage(k, u).kind = k
       /\ <<FileMessage(k, u).of, FileMessage(k, u).file>> = u
<1>1. ASSUME NEW e \in Messages
      PROVE  /\ e.of \in Requests /\ e.kind \in PlainKinds \cup FileKinds
             /\ e.kind \in FileKinds => <<e.of, e.file>> \in Uploads
             /\ e.kind = "PrepareUpload" => e = Message("PrepareUpload", e.of)
  <2>1. CASE e \in [kind : PlainKinds, of : Requests]
    BY <2>1 DEF PlainKinds, FileKinds, Message
  <2>2. CASE e \in [kind : FileKinds, of : Requests, file : Files]
    BY <2>2 DEF PlainKinds, FileKinds, Uploads
  <2> QED
    BY <2>1, <2>2 DEF Messages
<1>2. ASSUME NEW k \in PlainKinds, NEW r \in Requests
      PROVE  Message(k, r) \in Messages /\ Message(k, r).kind = k /\ Message(k, r).of = r
  BY DEF Messages, Message
<1>3. ASSUME NEW k \in FileKinds, NEW u \in Uploads
      PROVE  /\ FileMessage(k, u) \in Messages /\ FileMessage(k, u).kind = k
             /\ <<FileMessage(k, u).of, FileMessage(k, u).file>> = u
  BY DEF Messages, FileMessage, Uploads
<1> QED
  BY <1>1, <1>2, <1>3

LEMMA TaskFacts ==
  /\ \A t \in Tasks :
       /\ t.of \in Requests /\ t.kind \in {"Cancel", "Decision"}
       /\ t.kind = "Decision" =>
            t.files \in SUBSET Answers /\ t.asked \in Requests
  /\ \A r \in Requests : Message("Cancel", r) \in Tasks /\ Message("Cancel", r).kind = "Cancel"
  /\ \A r, q \in Requests, a \in SUBSET Answers :
       /\ Decision(r, a, q) \in Tasks
       /\ Decision(r, a, q).files = a /\ Decision(r, a, q).asked = q
       /\ [files |-> a, asked |-> q] \in Replies
       /\ [of |-> r, files |-> a] \in Grants
BY DEF Tasks, Message, Decision, Replies, Grants

LEMMA AnyQueue ==
  ASSUME NEW S, NEW q \in Seq(S)
  PROVE  /\ \A e \in S : Append(q, e) \in Seq(S) /\ Items(Append(q, e)) = Items(q) \cup {e}
         /\ q # <<>> => /\ Head(q) \in S /\ Tail(q) \in Seq(S)
                        /\ Items(q) = Items(Tail(q)) \cup {Head(q)}
<1>1. ASSUME NEW e \in S
      PROVE  Append(q, e) \in Seq(S) /\ Items(Append(q, e)) = Items(q) \cup {e}
  <2>1. /\ Append(q, e) \in Seq(S) /\ Len(q) \in Nat
        /\ DOMAIN q = 1..Len(q) /\ DOMAIN Append(q, e) = 1..(Len(q) + 1)
        /\ \A i \in 1..Len(q) : Append(q, e)[i] = q[i]
        /\ Append(q, e)[Len(q) + 1] = e
    OBVIOUS
  <2>2. \A i \in DOMAIN Append(q, e) : i \in 1..Len(q) \/ i = Len(q) + 1
    BY <2>1
  <2> QED
    BY <2>1, <2>2 DEF Items
<1>2. ASSUME q # <<>>
      PROVE  /\ Head(q) \in S /\ Tail(q) \in Seq(S)
             /\ Items(q) = Items(Tail(q)) \cup {Head(q)}
  <2>1. /\ Head(q) \in S /\ Tail(q) \in Seq(S) /\ Len(q) \in Nat \ {0}
        /\ DOMAIN q = 1..Len(q) /\ DOMAIN Tail(q) = 1..(Len(q) - 1)
        /\ \A i \in 1..(Len(q) - 1) : Tail(q)[i] = q[i + 1]
        /\ Head(q) = q[1]
    BY <1>2
  <2>2. \A i \in 1..Len(q) : i = 1 \/ (i - 1 \in 1..(Len(q) - 1) /\ (i - 1) + 1 = i)
    BY <2>1
  <2>3. ASSUME NEW x \in Items(q) PROVE x \in Items(Tail(q)) \cup {Head(q)}
    <3>1. PICK i \in 1..Len(q) : x = q[i]
      BY <2>1 DEF Items
    <3>2. CASE i = 1
      BY <2>1, <3>1, <3>2
    <3>3. CASE i - 1 \in 1..(Len(q) - 1) /\ (i - 1) + 1 = i
      <4>1. x = Tail(q)[i - 1]
        BY <2>1, <3>1, <3>3
      <4> QED
        BY <2>1, <3>3, <4>1 DEF Items
    <3> QED
      BY <2>2, <3>2, <3>3
  <2>4. ASSUME NEW x \in Items(Tail(q)) PROVE x \in Items(q)
    <3>1. PICK i \in 1..(Len(q) - 1) : x = q[i + 1]
      BY <2>1 DEF Items
    <3>2. i + 1 \in DOMAIN q
      BY <2>1, <3>1
    <3> QED
      BY <3>1, <3>2 DEF Items
  <2>5. Head(q) \in Items(q)
    BY <2>1 DEF Items
  <2> QED
    BY <2>1, <2>3, <2>4, <2>5
<1> QED
  BY <1>1, <1>2

LEMMA TaskQueue ==
  ASSUME NEW q \in Seq(Tasks)
  PROVE  /\ \A e \in Tasks : Append(q, e) \in Seq(Tasks) /\ Items(Append(q, e)) = Items(q) \cup {e}
         /\ q # <<>> => /\ Head(q) \in Tasks /\ Tail(q) \in Seq(Tasks)
                        /\ Items(q) = Items(Tail(q)) \cup {Head(q)}
BY AnyQueue

LEMMA GrantQueue ==
  ASSUME NEW q \in Seq(Grants)
  PROVE  /\ \A e \in Grants : Append(q, e) \in Seq(Grants) /\ Items(Append(q, e)) = Items(q) \cup {e}
         /\ q # <<>> => /\ Head(q) \in Grants /\ Tail(q) \in Seq(Grants)
                        /\ Items(q) = Items(Tail(q)) \cup {Head(q)}
BY AnyQueue

\* The requests whose pages are about to open, none twice.
Distinct(q) == \A i, j \in DOMAIN q : q[i] = q[j] => i = j

LEMMA OpenQueue ==
  ASSUME NEW q \in Seq(Requests)
  PROVE  /\ \A e \in Requests :
              /\ Append(q, e) \in Seq(Requests) /\ Items(Append(q, e)) = Items(q) \cup {e}
              /\ Distinct(q) /\ e \notin Items(q) => Distinct(Append(q, e))
         /\ q # <<>> =>
              /\ Head(q) \in Requests /\ Tail(q) \in Seq(Requests)
              /\ Items(q) = Items(Tail(q)) \cup {Head(q)}
              /\ Distinct(q) => Distinct(Tail(q)) /\ Head(q) \notin Items(Tail(q))
<1>1. ASSUME NEW e \in Requests, Distinct(q), e \notin Items(q) PROVE Distinct(Append(q, e))
  <2>1. /\ Len(q) \in Nat
        /\ DOMAIN q = 1..Len(q) /\ DOMAIN Append(q, e) = 1..(Len(q) + 1)
        /\ \A i \in 1..Len(q) : Append(q, e)[i] = q[i]
        /\ Append(q, e)[Len(q) + 1] = e
    OBVIOUS
  <2>2. \A i \in DOMAIN Append(q, e) : i \in 1..Len(q) \/ i = Len(q) + 1
    BY <2>1
  <2> QED
    BY <1>1, <2>1, <2>2 DEF Items, Distinct
<1>2. ASSUME q # <<>>, Distinct(q) PROVE Distinct(Tail(q)) /\ Head(q) \notin Items(Tail(q))
  <2>1. /\ Len(q) \in Nat \ {0}
        /\ DOMAIN q = 1..Len(q) /\ DOMAIN Tail(q) = 1..(Len(q) - 1)
        /\ \A i \in 1..(Len(q) - 1) : Tail(q)[i] = q[i + 1]
        /\ Head(q) = q[1]
    BY <1>2
  <2>2. \A i \in 1..(Len(q) - 1) : i + 1 \in DOMAIN q /\ i + 1 # 1
    BY <2>1
  <2>3. ASSUME NEW i \in DOMAIN Tail(q), NEW j \in DOMAIN Tail(q), Tail(q)[i] = Tail(q)[j]
        PROVE  i = j
    <3>1. i + 1 = j + 1
      BY <1>2, <2>1, <2>2, <2>3 DEF Distinct
    <3> QED
      BY <2>1, <3>1
  <2>4. ASSUME Head(q) \in Items(Tail(q)) PROVE FALSE
    <3>1. PICK i \in 1..(Len(q) - 1) : Head(q) = q[i + 1]
      BY <2>1, <2>4 DEF Items
    <3>2. 1 \in DOMAIN q
      BY <2>1
    <3> QED
      BY <1>2, <2>1, <2>2, <3>1, <3>2 DEF Distinct
  <2> QED
    BY <2>3, <2>4 DEF Distinct
<1> QED
  BY <1>1, <1>2, AnyQueue

LEMMA MessageQueue ==
  ASSUME NEW q \in Seq(Messages)
  PROVE  /\ \A e \in Messages :
              /\ Append(q, e) \in Seq(Messages)
              /\ Items(Append(q, e)) = Items(q) \cup {e}
              /\ Once(q) /\ (e.kind # "PrepareUpload" \/ e \notin Items(q)) => Once(Append(q, e))
         /\ q # <<>> =>
              /\ Head(q) \in Messages /\ Tail(q) \in Seq(Messages)
              /\ Items(q) = Items(Tail(q)) \cup {Head(q)}
              /\ Once(q) => Once(Tail(q))
              /\ Once(q) /\ Head(q).kind = "PrepareUpload" => Head(q) \notin Items(Tail(q))
<1>1. ASSUME NEW e \in Messages
      PROVE  /\ Append(q, e) \in Seq(Messages)
             /\ Items(Append(q, e)) = Items(q) \cup {e}
             /\ Once(q) /\ (e.kind # "PrepareUpload" \/ e \notin Items(q)) => Once(Append(q, e))
  <2>1. /\ Append(q, e) \in Seq(Messages) /\ Len(q) \in Nat
        /\ DOMAIN q = 1..Len(q) /\ DOMAIN Append(q, e) = 1..(Len(q) + 1)
        /\ \A i \in 1..Len(q) : Append(q, e)[i] = q[i]
        /\ Append(q, e)[Len(q) + 1] = e
    OBVIOUS
  <2>2. \A i \in DOMAIN Append(q, e) : i \in 1..Len(q) \/ i = Len(q) + 1
    BY <2>1
  <2>3. Items(Append(q, e)) = Items(q) \cup {e}
    BY <2>1, <2>2 DEF Items
  <2>4. ASSUME Once(q), e.kind # "PrepareUpload" \/ e \notin Items(q) PROVE Once(Append(q, e))
    BY <2>1, <2>2, <2>4 DEF Items, Once
  <2> QED
    BY <2>1, <2>3, <2>4
<1>2. ASSUME q # <<>>
      PROVE  /\ Head(q) \in Messages /\ Tail(q) \in Seq(Messages)
             /\ Items(q) = Items(Tail(q)) \cup {Head(q)}
             /\ Once(q) => Once(Tail(q))
             /\ Once(q) /\ Head(q).kind = "PrepareUpload" => Head(q) \notin Items(Tail(q))
  <2>1. /\ Head(q) \in Messages /\ Tail(q) \in Seq(Messages) /\ Len(q) \in Nat \ {0}
        /\ DOMAIN q = 1..Len(q) /\ DOMAIN Tail(q) = 1..(Len(q) - 1)
        /\ \A i \in 1..(Len(q) - 1) : Tail(q)[i] = q[i + 1]
        /\ Head(q) = q[1]
    BY <1>2
  <2>2. \A i \in 1..Len(q) : i = 1 \/ (i - 1 \in 1..(Len(q) - 1) /\ (i - 1) + 1 = i)
    BY <2>1
  <2>3. Items(q) = Items(Tail(q)) \cup {Head(q)}
    <3>1. ASSUME NEW x \in Items(q) PROVE x \in Items(Tail(q)) \cup {Head(q)}
      <4>1. PICK i \in 1..Len(q) : x = q[i]
        BY <2>1 DEF Items
      <4>2. CASE i = 1
        BY <2>1, <4>1, <4>2
      <4>3. CASE i - 1 \in 1..(Len(q) - 1) /\ (i - 1) + 1 = i
        <5>1. x = Tail(q)[i - 1]
          BY <2>1, <4>1, <4>3
        <5> QED
          BY <2>1, <4>3, <5>1 DEF Items
      <4> QED
        BY <2>2, <4>2, <4>3
    <3>2. ASSUME NEW x \in Items(Tail(q)) PROVE x \in Items(q)
      <4>1. PICK i \in 1..(Len(q) - 1) : x = q[i + 1]
        BY <2>1 DEF Items
      <4>2. i + 1 \in DOMAIN q
        BY <2>1, <4>1
      <4> QED
        BY <4>1, <4>2 DEF Items
    <3>3. Head(q) \in Items(q)
      BY <2>1 DEF Items
    <3> QED
      BY <3>1, <3>2, <3>3
  <2>4. ASSUME Once(q) PROVE Once(Tail(q))
    <3> SUFFICES ASSUME NEW i \in DOMAIN Tail(q), NEW j \in DOMAIN Tail(q),
                        Tail(q)[i].kind = "PrepareUpload", Tail(q)[i] = Tail(q)[j]
                 PROVE  i = j
      BY DEF Once
    <3>1. /\ i + 1 \in DOMAIN q /\ j + 1 \in DOMAIN q
          /\ q[i + 1] = Tail(q)[i] /\ q[j + 1] = Tail(q)[j]
      BY <2>1
    <3>2. i + 1 = j + 1
      BY <2>4, <3>1 DEF Once
    <3> QED
      BY <2>1, <3>2
  <2>5. ASSUME Once(q), Head(q).kind = "PrepareUpload", Head(q) \in Items(Tail(q)) PROVE FALSE
    <3>1. PICK i \in 1..(Len(q) - 1) : Head(q) = q[i + 1]
      BY <2>1, <2>5 DEF Items
    <3>2. 1 \in DOMAIN q /\ i + 1 \in DOMAIN q
      BY <2>1, <3>1
    <3>3. 1 = i + 1
      BY <2>1, <2>5, <3>1, <3>2 DEF Once
    <3> QED
      BY <3>3, <2>1
  <2> QED
    BY <2>1, <2>3, <2>4, <2>5
<1> QED
  BY <1>1, <1>2

\* What is announced in a queue, as messages come and go.
LEMMA PrepQueue ==
  ASSUME NEW q \in Seq(Messages)
  PROVE  /\ \A e \in Messages :
              /\ e.kind = "PrepareUpload" => Prep(Append(q, e)) = Prep(q) \cup {e.of}
              /\ e.kind # "PrepareUpload" => Prep(Append(q, e)) = Prep(q)
         /\ q # <<>> /\ Once(q) =>
              /\ Head(q).kind = "PrepareUpload" =>
                   Head(q).of \in Prep(q) /\ Prep(Tail(q)) = Prep(q) \ {Head(q).of}
              /\ Head(q).kind # "PrepareUpload" => Prep(Tail(q)) = Prep(q)
<1>0. \A r \in Requests : Message("PrepareUpload", r).kind = "PrepareUpload"
  BY DEF Message
<1>1. \A r, s \in Requests : Message("PrepareUpload", r) = Message("PrepareUpload", s) => r = s
  BY DEF Message
<1>2. ASSUME NEW e \in Messages
      PROVE  /\ e.kind = "PrepareUpload" => Prep(Append(q, e)) = Prep(q) \cup {e.of}
             /\ e.kind # "PrepareUpload" => Prep(Append(q, e)) = Prep(q)
  <2>1. Items(Append(q, e)) = Items(q) \cup {e}
    BY MessageQueue
  <2>2. e.of \in Requests /\ (e.kind = "PrepareUpload" => e = Message("PrepareUpload", e.of))
    BY MessageFacts
  <2> QED
    BY <1>0, <1>1, <2>1, <2>2 DEF Prep
<1>3. ASSUME q # <<>>, Once(q)
      PROVE  /\ Head(q).kind = "PrepareUpload" =>
                  Head(q).of \in Prep(q) /\ Prep(Tail(q)) = Prep(q) \ {Head(q).of}
             /\ Head(q).kind # "PrepareUpload" => Prep(Tail(q)) = Prep(q)
  <2>1. /\ Head(q) \in Messages
        /\ Items(q) = Items(Tail(q)) \cup {Head(q)}
        /\ Head(q).kind = "PrepareUpload" => Head(q) \notin Items(Tail(q))
    BY <1>3, MessageQueue
  <2>2. /\ Head(q).of \in Requests
        /\ Head(q).kind = "PrepareUpload" => Head(q) = Message("PrepareUpload", Head(q).of)
    BY <2>1, MessageFacts
  <2> QED
    BY <1>0, <1>1, <2>1, <2>2 DEF Prep
<1> QED
  BY <1>2, <1>3

-----------------------------------------------------------------------------
(* Types. *)

RequestStates == {"new", "asking", "aborted", "active", "over"}
UploadStates == {"none", "pending", "waiting", "dropped", "writing", "finished", "failed"}

ServerType ==
  /\ slot \in Requests \cup {NoRequest}
  /\ req \in [Requests -> RequestStates]
  /\ decision \in [Requests -> {<<>>} \cup {<<a>> : a \in SUBSET Answers}]
  /\ up \in [Uploads -> UploadStates]
  /\ attempts \in [Uploads -> Nat]
  /\ result \in [Uploads -> {"none", "ok", "failed"}]
  /\ saved \subseteq Uploads

BridgeType ==
  /\ pending \in Requests \cup {NoRequest}
  /\ responders \subseteq Uploads
  /\ handlers \in [Uploads -> {"idle", "prepare", "wait"}]
  /\ queued \subseteq Uploads

QueueType ==
  /\ events \in Seq(Messages) /\ sink \in Seq(Messages) /\ port \in Seq(Messages)
  /\ tasks \in Seq(Tasks)
  /\ replies \subseteq Replies /\ cancels \subseteq Requests

UserType ==
  /\ opening \in Seq(Requests)
  /\ granting \in Seq(Grants)
  /\ recording \subseteq Uploads
  /\ ui \in [of : Requests \cup {NoRequest},
             status : {"none", "waiting", "sending", "finished", "errors", "cancelled"}]
  /\ ui.of = NoRequest <=> ui.status = "none"
  /\ shown \in [Uploads -> {"none", "queue", "skipped", "sending", "finished", "failed"}]
  /\ consent \in [Requests -> SUBSET Files]

AppType == ServerType /\ BridgeType /\ QueueType /\ UserType

LEMMA InitType == Init => AppType
<1> SUFFICES ASSUME Init PROVE AppType
  OBVIOUS
<1>1. ServerType
  BY DEF Init, ServerType, RequestStates, UploadStates
<1>2. BridgeType
  BY DEF Init, BridgeType
<1>3. QueueType
  BY DEF Init, QueueType
<1>4. UserType
  <2>1. ui = Idle
    BY DEF Init
  <2>2. ui \in [of : Requests \cup {NoRequest},
                status : {"none", "waiting", "sending", "finished", "errors", "cancelled"}]
        /\ ui.of = NoRequest /\ ui.status = "none"
    BY <2>1 DEF Idle
  <2>3. opening \in Seq(Requests) /\ granting \in Seq(Grants)
    BY DEF Init
  <2> QED
    BY <2>2, <2>3 DEF Init, UserType
<1> QED
  BY <1>1, <1>2, <1>3, <1>4 DEF AppType

\* finalize_file: the file has its outcome, and its session may be over.
LEMMA FinalizeDoes ==
  ASSUME NEW u \in Uploads, NEW status, Finalize(u, status)
  PROVE  /\ up' = [up EXCEPT ![u] = status]
         /\ \/ UNCHANGED <<slot, req, events>>
            \/ /\ req[u[1]] = "active" /\ slot' = NoRequest
               /\ req' = [req EXCEPT ![u[1]] = "over"]
               /\ events' = Append(events, Message("SessionFinished", u[1]))
BY DEF Finalize

LEMMA DroppedType ==
  ASSUME ServerType, NEW us
  PROVE  /\ Dropped(us) \in [Uploads -> UploadStates]
         /\ \A u \in Uploads : \/ Dropped(us)[u] = up[u]
                               \/ up[u] = "waiting" /\ Dropped(us)[u] = "dropped"
BY DEF Dropped, ServerType, UploadStates

\* What a step does to the server's files: each keeps its state or goes on.
UpSteps ==
  \/ up' = up
  \/ \E u \in Uploads, st \in {"waiting", "writing", "finished", "failed"} :
       up[u] \in {"pending", "waiting", "dropped", "writing"} /\ up' = [up EXCEPT ![u] = st]
  \/ \E u \in Uploads :
       up[u] = "writing" /\ attempts[u] < MaxAttempts /\ up' = [up EXCEPT ![u] = "pending"]
  \/ \E r \in Requests :
       /\ req[r] = "asking" /\ decision[r] # <<>>
       /\ up' = [u \in Uploads |->
                   IF u[1] = r /\ u[2] \in decision[r][1] \cap Offered[r] THEN "pending" ELSE up[u]]
  \/ \E us : up' = Dropped(us)

UploadSteps ==
  \/ UNCHANGED <<serverVars, result, saved>>
  \/ \E r \in Requests : PrepareUpload(r) \/ AbortRequest(r) \/ SenderCancels(r)
                         \/ TellAborted(r) \/ TakeDecision(r) \/ CancelSession(r)
  \/ \E u \in Uploads : StartUpload(u) \/ UploadBreaks(u) \/ UploadFails(u)
                        \/ UploadSaved(u) \/ UploadMismatch(u) \/ PrepareFails(u)
                        \/ RespondFileUpload(u)
  \/ Listen
  \/ \E reply \in replies : RespondPrepareUpload(reply)

LEMMA ServerSteps == [Next]_vars => UploadSteps
<1> SUFFICES ASSUME [Next]_vars PROVE UploadSteps
  OBVIOUS
<1> USE DEF serverVars, bridgeVars, isolateVars, callVars, userVars, historyVars
<1>1. CASE UNCHANGED vars
  BY <1>1 DEF vars, UploadSteps
<1>2. CASE Sender
  BY <1>2 DEF Sender, UploadSteps
<1>3. CASE Whim
  BY <1>3 DEF Whim, UserCancels, UserCloses, UploadSteps
<1>4. CASE Progress
  <2>1. ASSUME NEW r \in Requests, OpenPage(r) PROVE UploadSteps
    BY <2>1 DEF OpenPage, UploadSteps
  <2>2. ASSUME NEW u \in Uploads, Recorded(u) \/ \E kept \in BOOLEAN : HandlerEnds(u, kept)
        PROVE  UploadSteps
    BY <2>2 DEF Recorded, HandlerEnds, UploadSteps
  <2>3. ASSUME IsolatePrepareUpload \/ IsolateFileUpload \/ IsolateSessionEnd
               \/ IsolateAborted \/ IsolateDecision \/ IsolateCancel
        PROVE  UploadSteps
    BY <2>3 DEF IsolatePrepareUpload, IsolateFileUpload, IsolateSessionEnd,
                IsolateAborted, IsolateDecision, IsolateCancel, UploadSteps
  <2>4. ASSUME OnPrepareUpload \/ OnFileUpload \/ OnFailed \/ OnSaved \/ OnEnd
        PROVE  UploadSteps
    BY <2>4 DEF OnPrepareUpload, OnFileUpload, OnFailed, OnSaved, OnEnd, UploadSteps
  <2>5. ASSUME (\E ids \in SUBSET Files : Accept(ids)) \/ Grant \/ Refuse({}) \/ Refuse(Declined)
        PROVE  UploadSteps
    BY <2>5 DEF Accept, Grant, Refuse, UploadSteps
  <2> QED
    BY <1>4, <2>1, <2>2, <2>3, <2>4, <2>5 DEF Progress, UploadSteps
<1> QED
  BY <1>1, <1>2, <1>3, <1>4 DEF Next

\* A file is pending only as long as the sender may try once more; of a
\* request without an answer no file was tried.
AttemptInv ==
  /\ \A u \in Uploads : /\ attempts[u] <= MaxAttempts
                        /\ up[u] = "pending" => attempts[u] < MaxAttempts
  /\ \A u \in Uploads : req[u[1]] \in {"new", "asking"} => attempts[u] = 0

LEMMA NextServer ==
  ASSUME AppType, AttemptInv, [Next]_vars
  PROVE  ServerType' /\ AttemptInv' /\ UpSteps
<1>0. /\ ServerType /\ BridgeType /\ QueueType /\ AttemptInv
      /\ MaxAttempts \in Nat \ {0}
  BY ConstantsAssumption DEF AppType
<1>f. \A u \in Uploads : u[1] \in Requests /\ u[2] \in Files
  BY DEF Uploads
<1> USE DEF serverVars, bridgeVars, isolateVars, callVars, userVars, historyVars
<1> DEFINE Goal == ServerType' /\ AttemptInv' /\ UpSteps
<1>1. CASE UNCHANGED <<serverVars, result, saved>>
  BY <1>0, <1>1 DEF ServerType, AttemptInv, UpSteps
\* Steps that leave the files of a request that was answered alone.
<1>2. ASSUME UNCHANGED <<decision, up, attempts, result, saved>>,
             slot' \in Requests \cup {NoRequest},
             req' = req \/ \E r \in Requests, st \in RequestStates :
               /\ req' = [req EXCEPT ![r] = st]
               /\ req[r] \in {"new", "asking"} \/ st \notin {"new", "asking"}
      PROVE  Goal
  <2>1. ServerType' /\ UpSteps
    BY <1>0, <1>2 DEF ServerType, UpSteps
  <2>2. \A r \in Requests : req'[r] \in {"new", "asking"} => req[r] \in {"new", "asking"}
    BY <1>0, <1>2 DEF ServerType
  <2> QED
    BY <1>0, <1>2, <1>f, <2>1, <2>2 DEF AttemptInv
<1>3. ASSUME NEW r \in Requests,
             PrepareUpload(r) \/ AbortRequest(r) \/ SenderCancels(r) \/ TellAborted(r)
      PROVE  Goal
  <2>1. \E st \in RequestStates : /\ req' = [req EXCEPT ![r] = st]
                                  /\ req[r] \in {"new", "asking"} \/ st \notin {"new", "asking"}
    <3>1. CASE PrepareUpload(r)
      BY <3>1 DEF PrepareUpload, RequestStates
    <3>2. CASE AbortRequest(r)
      BY <3>2 DEF AbortRequest, RequestStates
    <3>3. CASE SenderCancels(r)
      BY <3>3 DEF SenderCancels, RequestStates
    <3>4. CASE TellAborted(r)
      BY <3>4 DEF TellAborted, RequestStates
    <3> QED
      BY <1>3, <3>1, <3>2, <3>3, <3>4
  <2>2. /\ UNCHANGED <<decision, up, attempts, result, saved>>
        /\ slot' \in {r, NoRequest, slot}
    BY <1>3 DEF PrepareUpload, AbortRequest, SenderCancels, TellAborted
  <2>3. slot' \in Requests \cup {NoRequest}
    BY <1>0, <2>2 DEF ServerType
  <2> QED
    BY <1>2, <2>1, <2>2, <2>3
<1>4. ASSUME NEW r \in Requests, TakeDecision(r) PROVE Goal
  <2> DEFINE files == decision[r][1] \cap Offered[r]
  <2>1. /\ req[r] = "asking" /\ decision[r] # <<>>
        /\ UNCHANGED <<decision, attempts, result, saved>>
    BY <1>4 DEF TakeDecision
  <2>2. CASE files = {}
    <3>1. slot' = NoRequest /\ req' = [req EXCEPT ![r] = "over"] /\ up' = up
      BY <1>4, <2>2 DEF TakeDecision
    <3> QED
      BY <1>2, <2>1, <3>1 DEF RequestStates
  <2>3. CASE files # {}
    <3>1. /\ slot' = slot /\ req' = [req EXCEPT ![r] = "active"]
          /\ up' = [u \in Uploads |-> IF u[1] = r /\ u[2] \in files THEN "pending" ELSE up[u]]
      BY <1>4, <2>3 DEF TakeDecision
    <3>2. ServerType'
      BY <1>0, <2>1, <3>1 DEF ServerType, RequestStates, UploadStates
    <3>3. \A u \in Uploads : up'[u] = "pending" => up[u] = "pending" \/ u[1] = r
      BY <3>1
    <3>4. \A u \in Uploads : u[1] = r => attempts[u] = 0
      BY <1>0, <2>1 DEF AttemptInv
    <3>5. \A q \in Requests : req'[q] \in {"new", "asking"} => req[q] \in {"new", "asking"}
      BY <1>0, <3>1 DEF ServerType
    <3>6. AttemptInv'
      <4>1. \A u \in Uploads : /\ attempts[u] <= MaxAttempts
                               /\ up'[u] = "pending" => attempts[u] < MaxAttempts
        BY <1>0, <3>3, <3>4 DEF AttemptInv
      <4>2. \A u \in Uploads : req'[u[1]] \in {"new", "asking"} => attempts[u] = 0
        BY <1>0, <1>f, <3>5 DEF AttemptInv
      <4> QED
        BY <2>1, <4>1, <4>2 DEF AttemptInv
    <3>7. UpSteps
      BY <2>1, <3>1 DEF UpSteps
    <3> QED
      BY <3>2, <3>6, <3>7
  <2> QED
    BY <2>2, <2>3
\* Steps that drop the responders of uploads.
<1>5. ASSUME NEW us, up' = Dropped(us), UNCHANGED <<decision, attempts, result, saved>>,
             slot' \in Requests \cup {NoRequest},
             req' = req \/ \E r \in Requests : req' = [req EXCEPT ![r] = "over"]
      PROVE  Goal
  <2>1. /\ up' \in [Uploads -> UploadStates]
        /\ \A u \in Uploads : up'[u] = "pending" => up[u] = "pending"
    BY <1>0, <1>5, DroppedType
  <2>2. ServerType'
    BY <1>0, <1>5, <2>1 DEF ServerType, RequestStates
  <2>3. \A q \in Requests : req'[q] \in {"new", "asking"} => req[q] \in {"new", "asking"}
    BY <1>0, <1>5 DEF ServerType
  <2>4. AttemptInv'
    BY <1>0, <1>5, <1>f, <2>1, <2>3 DEF AttemptInv
  <2> QED
    BY <1>5, <2>2, <2>4 DEF UpSteps
<1>6. ASSUME NEW r \in Requests, CancelSession(r) PROVE Goal
  <2>1. /\ up' = Dropped(responders \ Others(r)) /\ UNCHANGED <<decision, attempts, result, saved>>
        /\ slot' \in {slot, NoRequest}
        /\ req' = req \/ req' = [req EXCEPT ![r] = "over"]
    BY <1>6 DEF CancelSession
  <2>2. slot' \in Requests \cup {NoRequest}
    BY <1>0, <2>1 DEF ServerType
  <2> QED
    BY <1>5, <2>1, <2>2
<1>7. ASSUME NEW u \in Uploads, PrepareFails(u) PROVE Goal
  <2>1. /\ up' = Dropped(responders \cap {u})
        /\ UNCHANGED <<slot, req, decision, attempts, result, saved>>
    BY <1>7 DEF PrepareFails
  <2> QED
    BY <1>0, <1>5, <2>1 DEF ServerType
<1>8. ASSUME Listen PROVE Goal
  <2>1. /\ UNCHANGED <<slot, req, decision, attempts, result, saved>>
        /\ up' = up \/ \E us : up' = Dropped(us)
    BY <1>8 DEF Listen
  <2>2. slot' \in Requests \cup {NoRequest}
    BY <1>0, <2>1 DEF ServerType
  <2> QED
    BY <1>1, <1>5, <2>1, <2>2
<1>9. ASSUME NEW reply \in replies, RespondPrepareUpload(reply) PROVE Goal
  <2>1. /\ UNCHANGED <<slot, req, up, attempts, result, saved>>
        /\ \/ decision' = decision
           \/ pending # NoRequest /\ decision' = [decision EXCEPT ![pending] = <<reply.files>>]
    BY <1>9 DEF RespondPrepareUpload
  <2>2. reply.files \in SUBSET Answers
    BY <1>0 DEF QueueType, Replies
  <2>3. decision' \in [Requests -> {<<>>} \cup {<<a>> : a \in SUBSET Answers}]
    BY <1>0, <2>1, <2>2 DEF ServerType, BridgeType
  <2>4. ServerType'
    BY <1>0, <2>1, <2>3 DEF ServerType
  <2> QED
    BY <1>0, <2>1, <2>4 DEF AttemptInv, UpSteps
\* Steps of one upload.
<1>10. ASSUME NEW u \in Uploads, StartUpload(u) PROVE Goal
  <2>1. /\ req[u[1]] = "active" /\ up[u] = "pending"
        /\ up' = [up EXCEPT ![u] = "waiting"]
        /\ attempts' = [attempts EXCEPT ![u] = @ + 1]
        /\ UNCHANGED <<slot, req, decision, result, saved>>
    BY <1>10 DEF StartUpload
  <2>2. attempts[u] \in Nat /\ attempts[u] < MaxAttempts
    BY <1>0, <2>1 DEF ServerType, AttemptInv
  <2>3. ServerType'
    BY <1>0, <2>1, <2>2 DEF ServerType, UploadStates
  <2>4. \A v \in Uploads : /\ v = u => up'[v] = "waiting" /\ attempts'[v] = attempts[v] + 1
                           /\ v # u => up'[v] = up[v] /\ attempts'[v] = attempts[v]
    BY <1>0, <2>1 DEF ServerType
  <2>5. AttemptInv'
    BY <1>0, <2>1, <2>2, <2>4 DEF AttemptInv
  <2> QED
    BY <2>1, <2>3, <2>5 DEF UpSteps
<1>11. ASSUME NEW u \in Uploads, NEW st \in UploadStates, Finalize(u, st),
              up[u] \in {"waiting", "dropped", "writing"},
              st \in {"finished", "failed"} \/ (st = "pending" /\ attempts[u] < MaxAttempts
                                                /\ up[u] = "writing"),
              UNCHANGED <<decision, attempts>>,
              result' = result \/ \E x \in {"ok", "failed"} : result' = [result EXCEPT ![u] = x],
              saved' = saved \/ saved' = saved \cup {u}
       PROVE  Goal
  <2>1. /\ up' = [up EXCEPT ![u] = st]
        /\ \/ UNCHANGED <<slot, req>>
           \/ slot' = NoRequest /\ req' = [req EXCEPT ![u[1]] = "over"]
    BY <1>11, FinalizeDoes
  <2>2. ServerType'
    BY <1>0, <1>11, <1>f, <2>1 DEF ServerType, UploadStates, RequestStates
  <2>3. \A v \in Uploads : up'[v] = "pending" => up[v] = "pending" \/ attempts[v] < MaxAttempts
    BY <1>0, <1>11, <2>1 DEF ServerType
  <2>4. \A q \in Requests : req'[q] \in {"new", "asking"} => req[q] \in {"new", "asking"}
    BY <1>0, <2>1 DEF ServerType
  <2>5. AttemptInv'
    BY <1>0, <1>11, <1>f, <2>3, <2>4 DEF AttemptInv
  <2>6. UpSteps
    BY <1>11, <2>1 DEF UpSteps
  <2> QED
    BY <2>2, <2>5, <2>6
<1>12. {"finished", "failed", "pending"} \subseteq UploadStates
  BY DEF UploadStates
<1>13. ASSUME NEW u \in Uploads, UploadBreaks(u) \/ UploadFails(u) PROVE Goal
  <2>1. /\ Finalize(u, "failed") /\ UNCHANGED <<decision, attempts, saved>>
        /\ up[u] \in {"waiting", "dropped", "writing"}
        /\ result' = result \/ result' = [result EXCEPT ![u] = "failed"]
    BY <1>13 DEF UploadBreaks, UploadFails
  <2> QED
    BY <1>11, <1>12, <2>1
<1>14. ASSUME NEW u \in Uploads, UploadSaved(u) PROVE Goal
  <2>1. /\ Finalize(u, "finished") /\ UNCHANGED <<decision, attempts>>
        /\ up[u] = "writing" /\ saved' = saved \cup {u}
        /\ result' = [result EXCEPT ![u] = "ok"]
    BY <1>14 DEF UploadSaved
  <2> QED
    BY <1>11, <1>12, <2>1
<1>15. ASSUME NEW u \in Uploads, UploadMismatch(u) PROVE Goal
  <2>1. /\ Finalize(u, IF attempts[u] < MaxAttempts THEN "pending" ELSE "failed")
        /\ UNCHANGED <<decision, attempts, saved>>
        /\ up[u] = "writing" /\ result' = [result EXCEPT ![u] = "failed"]
    BY <1>15 DEF UploadMismatch
  <2>2. CASE attempts[u] < MaxAttempts
    <3>1. Finalize(u, "pending")
      BY <2>1, <2>2
    <3> QED
      BY <1>11, <1>12, <2>1, <2>2, <3>1
  <2>3. CASE ~(attempts[u] < MaxAttempts)
    <3>1. Finalize(u, "failed")
      BY <2>1, <2>3
    <3> QED
      BY <1>11, <1>12, <2>1, <3>1
  <2> QED
    BY <2>2, <2>3
<1>16. ASSUME NEW u \in Uploads, RespondFileUpload(u) PROVE Goal
  <2>1. /\ UNCHANGED <<slot, req, decision, attempts, saved>>
        /\ \/ UNCHANGED <<up, result>>
           \/ /\ up[u] = "waiting" /\ up' = [up EXCEPT ![u] = "writing"]
              /\ result' = [result EXCEPT ![u] = "none"]
    BY <1>16 DEF RespondFileUpload
  <2>2. ServerType'
    BY <1>0, <2>1 DEF ServerType, UploadStates
  <2>3. \A v \in Uploads : up'[v] = "pending" => up[v] = "pending"
    BY <1>0, <2>1 DEF ServerType
  <2>4. AttemptInv'
    BY <1>0, <2>1, <2>3 DEF AttemptInv
  <2>5. UpSteps
    BY <2>1 DEF UpSteps
  <2> QED
    BY <2>2, <2>4, <2>5
<1>17. UploadSteps
  BY ServerSteps
<1> QED
  BY <1>1, <1>3, <1>4, <1>6, <1>7, <1>8, <1>9, <1>10, <1>13, <1>14, <1>15, <1>16, <1>17
     DEF UploadSteps

-----------------------------------------------------------------------------
(* What the steps do to the queues. *)

\* A queue in which the same requests are announced.
SamePrep(q, q1) ==
  /\ q1 \in Seq(Messages)
  /\ Prep(q1) = Prep(q)
  /\ Once(q) => Once(q1)

LEMMA SameQueue ==
  ASSUME NEW q \in Seq(Messages)
  PROVE  /\ SamePrep(q, q)
         /\ \A e \in Messages : e.kind # "PrepareUpload" => SamePrep(q, Append(q, e))
         /\ q # <<>> /\ Once(q) /\ Head(q).kind # "PrepareUpload" => SamePrep(q, Tail(q))
BY MessageQueue, PrepQueue DEF SamePrep

\* The messages other than those of a new request.
LEMMA OtherMessages ==
  /\ \A k \in {"PrepareUploadAborted", "SessionFinished", "SessionCancelled"}, r \in Requests :
       Message(k, r) \in Messages /\ Message(k, r).kind # "PrepareUpload"
  /\ \A k \in FileKinds, u \in Uploads :
       FileMessage(k, u) \in Messages /\ FileMessage(k, u).kind # "PrepareUpload"
<1>1. ASSUME NEW k \in {"PrepareUploadAborted", "SessionFinished", "SessionCancelled"},
             NEW r \in Requests
      PROVE  Message(k, r) \in Messages /\ Message(k, r).kind # "PrepareUpload"
  <2>1. k \in PlainKinds
    BY DEF PlainKinds
  <2>2. k # "PrepareUpload"
    OBVIOUS
  <2> QED
    BY <2>1, <2>2, MessageFacts
<1>2. ASSUME NEW k \in FileKinds, NEW u \in Uploads
      PROVE  FileMessage(k, u) \in Messages /\ FileMessage(k, u).kind # "PrepareUpload"
  <2>1. FileMessage(k, u) \in Messages /\ FileMessage(k, u).kind = k
    BY MessageFacts
  <2> QED
    BY <2>1 DEF FileKinds
<1> QED
  BY <1>1, <1>2

\* The handler is over: it reports, and may start anew.
LEMMA HandlerOverDoes ==
  ASSUME port \in Seq(Messages), NEW u \in Uploads, NEW how \in FileKinds,
         handlers \in [Uploads -> {"idle", "prepare", "wait"}], queued \subseteq Uploads,
         HandlerOver(u, how)
  PROVE  /\ SamePrep(port, port')
         /\ Items(port') \subseteq Items(port) \cup {FileMessage(how, u), FileMessage("FileUpload", u)}
         /\ handlers' \in [Uploads -> {"idle", "prepare", "wait"}]
         /\ queued' \subseteq Uploads
<1>0. "FileUpload" \in FileKinds
  BY DEF FileKinds
<1>1. FileMessage(how, u) \in Messages /\ FileMessage("FileUpload", u) \in Messages
      /\ FileMessage(how, u).kind # "PrepareUpload"
      /\ FileMessage("FileUpload", u).kind # "PrepareUpload"
  BY <1>0, OtherMessages
<1> DEFINE p1 == Append(port, FileMessage(how, u))
           p2 == Append(p1, FileMessage("FileUpload", u))
<1>2. /\ p1 \in Seq(Messages) /\ p2 \in Seq(Messages)
      /\ SamePrep(port, p1) /\ SamePrep(p1, p2)
      /\ Items(p1) = Items(port) \cup {FileMessage(how, u)}
      /\ Items(p2) = Items(p1) \cup {FileMessage("FileUpload", u)}
  <2>1. /\ p1 \in Seq(Messages) /\ SamePrep(port, p1)
        /\ Items(p1) = Items(port) \cup {FileMessage(how, u)}
    BY <1>1, MessageQueue, SameQueue
  <2> HIDE DEF p1
  <2>2. /\ p2 \in Seq(Messages) /\ SamePrep(p1, p2)
        /\ Items(p2) = Items(p1) \cup {FileMessage("FileUpload", u)}
    BY <1>1, <2>1, MessageQueue, SameQueue
  <2> QED
    BY <2>1, <2>2
<1>3. SamePrep(port, p2)
  BY <1>2 DEF SamePrep
<1>4. \A a, b \in Messages : port \o <<a, b>> = Append(Append(port, a), b)
  OBVIOUS
<1>5. port' = p1 \/ port' = p2
  BY <1>1, <1>4 DEF HandlerOver
<1>6. handlers' \in [Uploads -> {"idle", "prepare", "wait"}] /\ queued' \subseteq Uploads
  BY DEF HandlerOver
<1> QED
  BY <1>2, <1>3, <1>5, <1>6

QueuesOnce == Once(events) /\ Once(sink) /\ Once(port)

\* No announcement moves.
StillSteps ==
  /\ SamePrep(events, events') /\ SamePrep(sink, sink') /\ SamePrep(port, port')
  /\ opening' = opening

PipeSteps ==
  \/ StillSteps
  \/ \E r \in Requests : PrepareUpload(r) \/ OpenPage(r)
  \/ Listen /\ Head(events).kind = "PrepareUpload"
  \/ IsolatePrepareUpload \/ OnPrepareUpload

LEMMA NextQueues ==
  ASSUME AppType, QueuesOnce, [Next]_vars
  PROVE  QueueType' /\ PipeSteps
<1>0. /\ QueueType /\ BridgeType /\ UserType /\ QueuesOnce
      /\ events \in Seq(Messages) /\ sink \in Seq(Messages) /\ port \in Seq(Messages)
      /\ tasks \in Seq(Tasks)
  BY DEF AppType, QueueType
<1>s. SamePrep(events, events) /\ SamePrep(sink, sink) /\ SamePrep(port, port)
  BY <1>0, SameQueue
<1> USE DEF serverVars, bridgeVars, isolateVars, callVars, userVars, historyVars
<1> DEFINE Goal == QueueType' /\ PipeSteps
<1>1. ASSUME UNCHANGED <<sink, port, tasks, replies, cancels, opening>>,
             events' = events \/ \E e \in Messages :
               e.kind # "PrepareUpload" /\ events' = Append(events, e)
      PROVE  Goal
  <2>1. SamePrep(events, events')
    BY <1>0, <1>1, SameQueue
  <2> QED
    BY <1>0, <1>1, <1>s, <2>1 DEF QueueType, PipeSteps, StillSteps, SamePrep
<1>2. ASSUME NEW r \in Requests, AbortRequest(r) \/ TakeDecision(r) PROVE Goal
  BY <1>1, <1>2 DEF AbortRequest, TakeDecision
<1>3. ASSUME NEW r \in Requests, TellAborted(r) \/ SenderCancels(r) PROVE Goal
  BY <1>1, <1>3, OtherMessages DEF TellAborted, SenderCancels
<1>4. ASSUME NEW r \in Requests, PrepareUpload(r) PROVE Goal
  <2>1. Message("PrepareUpload", r) \in Messages
    BY MessageFacts DEF PlainKinds
  <2>2. events' \in Seq(Messages) /\ UNCHANGED <<sink, port, tasks, replies, cancels>>
    BY <1>0, <1>4, <2>1, MessageQueue DEF PrepareUpload
  <2> QED
    BY <1>0, <1>4, <2>2 DEF QueueType, PipeSteps
<1>5. ASSUME NEW u \in Uploads, StartUpload(u) PROVE Goal
  <2>1. "FileUpload" \in FileKinds
    BY DEF FileKinds
  <2> QED
    BY <1>1, <1>5, <2>1, OtherMessages DEF StartUpload
<1>6. ASSUME NEW u \in Uploads, NEW st, Finalize(u, st),
             UNCHANGED <<sink, port, tasks, replies, cancels, opening>>
      PROVE  Goal
  <2>1. events' = events \/ events' = Append(events, Message("SessionFinished", u[1]))
    BY <1>6, FinalizeDoes
  <2>2. u[1] \in Requests
    BY DEF Uploads
  <2> QED
    BY <1>1, <1>6, <2>1, <2>2, OtherMessages
<1>7. ASSUME NEW u \in Uploads,
             UploadBreaks(u) \/ UploadFails(u) \/ UploadSaved(u) \/ UploadMismatch(u)
      PROVE  Goal
  BY <1>6, <1>7 DEF UploadBreaks, UploadFails, UploadSaved, UploadMismatch
<1>8. ASSUME Listen PROVE Goal
  <2>1. /\ events # <<>> /\ events' = Tail(events) /\ sink' = Append(sink, Head(events))
        /\ UNCHANGED <<port, tasks, replies, cancels, opening>>
    BY <1>8 DEF Listen
  <2>2. Head(events) \in Messages /\ events' \in Seq(Messages)
    BY <1>0, <2>1, MessageQueue
  <2>3. sink' \in Seq(Messages)
    BY <1>0, <2>1, <2>2, MessageQueue
  <2>4. QueueType'
    BY <1>0, <2>1, <2>2, <2>3 DEF QueueType
  <2>5. CASE Head(events).kind # "PrepareUpload"
    <3>1. SamePrep(events, events') /\ SamePrep(sink, sink')
      BY <1>0, <2>1, <2>2, <2>5, SameQueue DEF QueuesOnce
    <3> QED
      BY <1>s, <2>1, <2>4, <3>1 DEF PipeSteps, StillSteps
  <2> QED
    BY <1>8, <2>4, <2>5 DEF PipeSteps
<1>9. ASSUME UNCHANGED <<events, sink, port, opening>>, tasks' \in Seq(Tasks),
             replies' \subseteq Replies, cancels' \subseteq Requests
      PROVE  Goal
  BY <1>0, <1>9, <1>s DEF QueueType, PipeSteps, StillSteps
<1>10. ASSUME NEW reply \in replies, RespondPrepareUpload(reply) PROVE Goal
  <2>1. UNCHANGED <<events, sink, port, opening, tasks, cancels>> /\ replies' \subseteq replies
    BY <1>10 DEF RespondPrepareUpload
  <2> QED
    BY <1>0, <1>9, <2>1 DEF QueueType
<1>11. ASSUME NEW r \in Requests, CancelSession(r) PROVE Goal
  <2>1. UNCHANGED <<events, sink, port, opening, tasks, replies>> /\ cancels' \subseteq cancels
    BY <1>11 DEF CancelSession
  <2> QED
    BY <1>0, <1>9, <2>1 DEF QueueType
<1>12. ASSUME IsolatePrepareUpload PROVE Goal
  <2>1. /\ sink # <<>> /\ sink' = Tail(sink) /\ port' = Append(port, Head(sink))
        /\ UNCHANGED <<events, tasks, replies, cancels>>
    BY <1>12 DEF IsolatePrepareUpload, Taken
  <2>2. Head(sink) \in Messages /\ sink' \in Seq(Messages)
    BY <1>0, <2>1, MessageQueue
  <2>3. port' \in Seq(Messages)
    BY <1>0, <2>1, <2>2, MessageQueue
  <2> QED
    BY <1>0, <1>12, <2>1, <2>2, <2>3 DEF QueueType, PipeSteps
\* The isolate takes another event and may pass one on.
<1>13. ASSUME sink # <<>>, Head(sink).kind # "PrepareUpload", sink' = Tail(sink),
              port' = port \/ \E e \in Messages :
                e.kind # "PrepareUpload" /\ port' = Append(port, e),
              UNCHANGED <<events, tasks, replies, opening>>,
              cancels' = cancels \/ \E r \in Requests : cancels' = cancels \cup {r}
       PROVE  Goal
  <2>1. SamePrep(sink, sink') /\ SamePrep(port, port')
    BY <1>0, <1>13, SameQueue DEF QueuesOnce
  <2>2. cancels' \subseteq Requests
    BY <1>0, <1>13 DEF QueueType
  <2> QED
    BY <1>0, <1>13, <1>s, <2>1, <2>2 DEF QueueType, PipeSteps, StillSteps, SamePrep
<1>14. sink # <<>> => /\ Head(sink) \in Messages /\ Head(sink).of \in Requests
                      /\ Head(sink).kind = "FileUpload" => <<Head(sink).of, Head(sink).file>> \in Uploads
  BY <1>0, MessageQueue, MessageFacts DEF FileKinds
<1>15. ASSUME IsolateFileUpload PROVE Goal
  <2> DEFINE u == <<Head(sink).of, Head(sink).file>>
  <2>1. /\ sink # <<>> /\ Head(sink).kind = "FileUpload" /\ sink' = Tail(sink)
        /\ UNCHANGED <<events, tasks, replies, opening>>
        /\ port' = port \/ port' = Append(port, FileMessage("FileUpload", u))
        /\ cancels' = cancels \/ cancels' = cancels \cup {u[1]}
    BY <1>15 DEF IsolateFileUpload, Taken
  <2>2. u \in Uploads /\ u[1] \in Requests
    BY <1>14, <2>1
  <2>3. FileMessage("FileUpload", u) \in Messages
        /\ FileMessage("FileUpload", u).kind # "PrepareUpload"
    BY <2>2, OtherMessages DEF FileKinds
  <2> HIDE DEF u
  <2> QED
    BY <1>13, <2>1, <2>2, <2>3
<1>16. ASSUME IsolateSessionEnd \/ IsolateAborted PROVE Goal
  <2>1. /\ sink # <<>> /\ sink' = Tail(sink) /\ Head(sink).kind # "PrepareUpload"
        /\ UNCHANGED <<events, tasks, replies, opening, cancels>>
        /\ port' = port \/ port' = Append(port, Head(sink))
    BY <1>16 DEF IsolateSessionEnd, IsolateAborted, Taken
  <2> QED
    BY <1>13, <1>14, <2>1
<1>17. tasks # <<>> => /\ Head(tasks) \in Tasks /\ Tail(tasks) \in Seq(Tasks)
                       /\ Head(tasks).of \in Requests
                       /\ Head(tasks).kind = "Decision" =>
                            [files |-> Head(tasks).files, asked |-> Head(tasks).asked] \in Replies
  BY <1>0, TaskQueue, TaskFacts DEF Replies
<1>18. ASSUME IsolateDecision PROVE Goal
  <2>1. /\ tasks # <<>> /\ Head(tasks).kind = "Decision" /\ tasks' = Tail(tasks)
        /\ UNCHANGED <<events, sink, port, opening, cancels>>
        /\ replies' = replies \cup {[files |-> Head(tasks).files, asked |-> Head(tasks).asked]}
    BY <1>18 DEF IsolateDecision
  <2>2. tasks' \in Seq(Tasks) /\ replies' \subseteq Replies
    BY <1>0, <1>17, <2>1 DEF QueueType
  <2> QED
    BY <1>0, <1>9, <2>1, <2>2 DEF QueueType
<1>19. ASSUME IsolateCancel PROVE Goal
  <2>1. /\ tasks # <<>> /\ tasks' = Tail(tasks)
        /\ UNCHANGED <<events, sink, port, opening, replies>>
        /\ cancels' = cancels \cup {Head(tasks).of}
    BY <1>19 DEF IsolateCancel
  <2>2. tasks' \in Seq(Tasks) /\ cancels' \subseteq Requests
    BY <1>0, <1>17, <2>1 DEF QueueType
  <2> QED
    BY <1>0, <1>9, <2>1, <2>2 DEF QueueType
\* The port alone changes.
<1>20. ASSUME SamePrep(port, port'), UNCHANGED <<events, sink, opening, replies, cancels>>,
              tasks' \in Seq(Tasks)
       PROVE  Goal
  BY <1>0, <1>20, <1>s DEF QueueType, PipeSteps, StillSteps, SamePrep
<1>21. ASSUME NEW u \in Uploads,
              PrepareFails(u) \/ RespondFileUpload(u) \/ \E kept \in BOOLEAN : HandlerEnds(u, kept)
       PROVE  Goal
  <2>1. /\ UNCHANGED <<events, sink, opening, replies, cancels, tasks>>
        /\ port' = port \/ \E how \in FileKinds : HandlerOver(u, how)
    BY <1>21 DEF PrepareFails, RespondFileUpload, HandlerEnds, FileKinds
  <2>2. SamePrep(port, port')
    BY <1>0, <1>s, <2>1, HandlerOverDoes DEF BridgeType
  <2> QED
    BY <1>0, <1>20, <2>1, <2>2
<1>22. port # <<>> => /\ Head(port) \in Messages /\ Head(port).of \in Requests
                      /\ Tail(port) \in Seq(Messages)
                      /\ Head(port).kind # "PrepareUpload" => SamePrep(port, Tail(port))
  BY <1>0, MessageQueue, MessageFacts, SameQueue DEF QueuesOnce
<1>23. ASSUME OnPrepareUpload PROVE Goal
  <2>1. /\ port # <<>> /\ port' = Tail(port)
        /\ UNCHANGED <<events, sink, tasks, replies, cancels>>
    BY <1>23 DEF OnPrepareUpload, Received
  <2> QED
    BY <1>0, <1>22, <1>23, <2>1 DEF QueueType, PipeSteps
<1>24. ASSUME OnFileUpload PROVE Goal
  <2>1. /\ port # <<>> /\ port' = Tail(port) /\ Head(port).kind # "PrepareUpload"
        /\ UNCHANGED <<events, sink, opening, replies, cancels>>
        /\ tasks' = tasks \/ tasks' = Append(tasks, Message("Cancel", Head(port).of))
    BY <1>24 DEF OnFileUpload, Received
  <2>t. Head(port).of \in Requests
    BY <1>0, <1>22, <2>1, MessageQueue, MessageFacts
  <2>m. Message("Cancel", Head(port).of) \in Tasks
    BY <2>t, TaskFacts
  <2>2. tasks' \in Seq(Tasks)
    BY <1>0, <1>22, <2>1, <2>m, TaskQueue
  <2> QED
    BY <1>20, <1>22, <2>1, <2>2
<1>25. ASSUME OnFailed \/ OnSaved \/ OnEnd PROVE Goal
  <2>1. /\ port # <<>> /\ port' = Tail(port) /\ Head(port).kind # "PrepareUpload"
        /\ UNCHANGED <<events, sink, opening, replies, cancels, tasks>>
    BY <1>25 DEF OnFailed, OnSaved, OnEnd, Received
  <2> QED
    BY <1>0, <1>20, <1>22, <2>1
<1>26. ASSUME NEW u \in Uploads, Recorded(u) PROVE Goal
  BY <1>0, <1>9, <1>26 DEF Recorded, QueueType
<1>27. ASSUME NEW r \in Requests, OpenPage(r) PROVE Goal
  BY <1>0, <1>27 DEF OpenPage, QueueType, PipeSteps
<1>28. ASSUME NEW ids, Accept(ids) PROVE Goal
  BY <1>0, <1>9, <1>28 DEF Accept, QueueType
<1>29. ui.of \in Requests \/ ui.of = NoRequest
  BY <1>0 DEF UserType
<1>30. ASSUME Grant PROVE Goal
  <2>1. /\ granting # <<>> /\ UNCHANGED <<events, sink, port, opening, replies, cancels>>
        /\ tasks' = IF ui.of = NoRequest THEN tasks
                    ELSE Append(tasks, Decision(ui.of, Head(granting).files, Head(granting).of))
    BY <1>30 DEF Grant
  <2>2. Head(granting).files \in SUBSET Answers /\ Head(granting).of \in Requests
    BY <1>0, <2>1, GrantQueue DEF UserType, Grants
  <2>3. tasks' \in Seq(Tasks)
    BY <1>0, <1>29, <2>1, <2>2, TaskQueue, TaskFacts
  <2> QED
    BY <1>0, <1>9, <2>1, <2>3 DEF QueueType
<1>31. ASSUME NEW a \in {{}, Declined}, Refuse(a) PROVE Goal
  <2>1. /\ ui.status = "waiting" /\ UNCHANGED <<events, sink, port, opening, replies, cancels>>
        /\ tasks' = Append(tasks, Decision(ui.of, a, ui.of))
    BY <1>31 DEF Refuse
  <2>2. ui.of \in Requests /\ a \in SUBSET Answers
    BY <1>0, <2>1 DEF UserType, Answers
  <2>3. tasks' \in Seq(Tasks)
    BY <1>0, <2>1, <2>2, TaskQueue, TaskFacts
  <2> QED
    BY <1>0, <1>9, <2>1, <2>3 DEF QueueType
<1>32. ASSUME UserCancels PROVE Goal
  <2>1. /\ ui.status = "sending" /\ UNCHANGED <<events, sink, port, opening, replies, cancels>>
        /\ tasks' = Append(tasks, Message("Cancel", ui.of))
    BY <1>32 DEF UserCancels
  <2>2. ui.of \in Requests
    BY <1>0, <2>1 DEF UserType
  <2>3. tasks' \in Seq(Tasks)
    BY <1>0, <2>1, <2>2, TaskQueue, TaskFacts
  <2> QED
    BY <1>0, <1>9, <2>1, <2>3 DEF QueueType
<1>33. ASSUME UserCloses PROVE Goal
  BY <1>0, <1>9, <1>33 DEF UserCloses, QueueType
<1>34. CASE UNCHANGED vars
  BY <1>0, <1>9, <1>34 DEF vars, QueueType
<1>35. ASSUME Progress PROVE Goal
  BY <1>2, <1>3, <1>7, <1>8, <1>10, <1>11, <1>12, <1>15, <1>16, <1>18, <1>19, <1>21,
     <1>23, <1>24, <1>25, <1>26, <1>27, <1>28, <1>30, <1>31, <1>35 DEF Progress
<1>36. ASSUME Sender PROVE Goal
  BY <1>2, <1>3, <1>4, <1>5, <1>7, <1>36 DEF Sender
<1> QED
  BY <1>32, <1>33, <1>34, <1>35, <1>36 DEF Next, Whim

-----------------------------------------------------------------------------
(* What the steps do to the bridge and to the session shown. *)

\* The messages and tasks in front name a request, and a file of it.
LEMMA Fronts ==
  ASSUME AppType
  PROVE  /\ events # <<>> => /\ Head(events).of \in Requests
                             /\ Head(events).kind = "FileUpload" =>
                                  <<Head(events).of, Head(events).file>> \in Uploads
         /\ sink # <<>> => /\ Head(sink).of \in Requests
                           /\ Head(sink).kind = "FileUpload" =>
                                <<Head(sink).of, Head(sink).file>> \in Uploads
         /\ port # <<>> => /\ Head(port).of \in Requests
                           /\ Head(port).kind \in FileKinds =>
                                <<Head(port).of, Head(port).file>> \in Uploads
         /\ ui.status # "none" => ui.of \in Requests
<1>1. /\ events \in Seq(Messages) /\ sink \in Seq(Messages) /\ port \in Seq(Messages)
  BY DEF AppType, QueueType
<1>2. "FileUpload" \in FileKinds
  BY DEF FileKinds
<1>3. /\ events # <<>> => Head(events) \in Messages
      /\ sink # <<>> => Head(sink) \in Messages
      /\ port # <<>> => Head(port) \in Messages
  BY <1>1, MessageQueue
<1>4. ui.status # "none" => ui.of \in Requests
  BY DEF AppType, UserType
<1> QED
  BY <1>2, <1>3, <1>4, MessageFacts

BridgeSteps ==
  \/ UNCHANGED <<pending, responders, handlers, queued>>
  \/ Listen
  \/ \E reply \in replies : RespondPrepareUpload(reply)
  \/ \E r \in Requests : CancelSession(r)
  \/ IsolateFileUpload
  \/ \E u \in Uploads : PrepareFails(u) \/ RespondFileUpload(u)
                        \/ \E kept \in BOOLEAN : HandlerEnds(u, kept)

LEMMA BridgeActions == [Next]_vars => BridgeSteps
<1> SUFFICES ASSUME [Next]_vars PROVE BridgeSteps
  OBVIOUS
<1> USE DEF serverVars, bridgeVars, isolateVars, callVars, userVars, historyVars
<1>1. CASE UNCHANGED vars
  BY <1>1 DEF vars, BridgeSteps
<1>2. ASSUME NEW r \in Requests,
             PrepareUpload(r) \/ AbortRequest(r) \/ SenderCancels(r) \/ TellAborted(r)
             \/ TakeDecision(r) \/ OpenPage(r)
      PROVE  BridgeSteps
  BY <1>2 DEF PrepareUpload, AbortRequest, SenderCancels, TellAborted, TakeDecision,
              OpenPage, BridgeSteps
<1>3. ASSUME NEW u \in Uploads, StartUpload(u) \/ UploadBreaks(u) \/ Recorded(u)
             \/ UploadFails(u) \/ UploadSaved(u) \/ UploadMismatch(u)
      PROVE  BridgeSteps
  BY <1>3 DEF StartUpload, UploadBreaks, Recorded, UploadFails, UploadSaved,
              UploadMismatch, BridgeSteps
<1>4. ASSUME IsolatePrepareUpload \/ IsolateSessionEnd \/ IsolateAborted
             \/ IsolateDecision \/ IsolateCancel
      PROVE  BridgeSteps
  BY <1>4 DEF IsolatePrepareUpload, IsolateSessionEnd, IsolateAborted,
              IsolateDecision, IsolateCancel, BridgeSteps
<1>5. ASSUME OnPrepareUpload \/ OnFileUpload \/ OnFailed \/ OnSaved \/ OnEnd
      PROVE  BridgeSteps
  BY <1>5 DEF OnPrepareUpload, OnFileUpload, OnFailed, OnSaved, OnEnd, BridgeSteps
<1>6. ASSUME (\E ids \in SUBSET Files : Accept(ids)) \/ Grant \/ Refuse({})
             \/ Refuse(Declined) \/ Whim
      PROVE  BridgeSteps
  BY <1>6 DEF Accept, Grant, Refuse, Whim, UserCancels, UserCloses, BridgeSteps
<1>7. CASE Sender
  BY <1>2, <1>3, <1>7 DEF Sender
<1>8. CASE Progress
  BY <1>2, <1>3, <1>4, <1>5, <1>6, <1>8 DEF Progress, BridgeSteps
<1> QED
  BY <1>1, <1>6, <1>7, <1>8 DEF Next

LEMMA NextBridge ==
  ASSUME AppType, [Next]_vars
  PROVE  BridgeType'
<1>0. BridgeType /\ port \in Seq(Messages)
  BY DEF AppType, QueueType
<1> USE DEF serverVars, bridgeVars, isolateVars, callVars, userVars, historyVars
<1>1. CASE UNCHANGED <<pending, responders, handlers, queued>>
  BY <1>0, <1>1 DEF BridgeType
<1>2. CASE Listen
  <2> DEFINE e == Head(events)
  <2>1. /\ events # <<>> /\ UNCHANGED <<handlers, queued>>
        /\ pending' \in {e.of, NoRequest, pending}
        /\ \/ responders' \subseteq responders
           \/ e.kind = "FileUpload" /\ responders' = responders \cup {<<e.of, e.file>>}
    BY <1>2 DEF Listen, Others
  <2>2. e.of \in Requests /\ (e.kind = "FileUpload" => <<e.of, e.file>> \in Uploads)
    BY <2>1, Fronts
  <2> HIDE DEF e
  <2> QED
    BY <1>0, <2>1, <2>2 DEF BridgeType
<1>3. ASSUME NEW reply \in replies, RespondPrepareUpload(reply) PROVE BridgeType'
  BY <1>0, <1>3 DEF RespondPrepareUpload, BridgeType
<1>4. ASSUME NEW r \in Requests, CancelSession(r) PROVE BridgeType'
  BY <1>0, <1>4 DEF CancelSession, Others, BridgeType
<1>5. CASE IsolateFileUpload
  <2> DEFINE u == <<Head(sink).of, Head(sink).file>>
  <2>1. /\ sink # <<>> /\ Head(sink).kind = "FileUpload" /\ UNCHANGED bridgeVars
        /\ handlers' = handlers \/ handlers' = [handlers EXCEPT ![u] = "prepare"]
        /\ queued' = queued \/ queued' = queued \cup {u}
    BY <1>5 DEF IsolateFileUpload
  <2>2. u \in Uploads
    BY <2>1, Fronts
  <2> HIDE DEF u
  <2> QED
    BY <1>0, <2>1, <2>2 DEF BridgeType
<1>6. ASSUME NEW u \in Uploads, NEW how \in FileKinds, HandlerOver(u, how),
             pending' = pending, responders' \subseteq responders
      PROVE  BridgeType'
  BY <1>0, <1>6, HandlerOverDoes DEF BridgeType
<1>7. ASSUME NEW u \in Uploads, PrepareFails(u) PROVE BridgeType'
  BY <1>6, <1>7 DEF PrepareFails, FileKinds
<1>8. ASSUME NEW u \in Uploads, RespondFileUpload(u) PROVE BridgeType'
  <2>1. /\ pending' = pending /\ responders' \subseteq responders
        /\ \/ HandlerOver(u, "Failed")
           \/ queued' = queued /\ handlers' = [handlers EXCEPT ![u] = "wait"]
    BY <1>8 DEF RespondFileUpload
  <2> QED
    BY <1>0, <1>6, <2>1 DEF BridgeType, FileKinds
<1>9. ASSUME NEW u \in Uploads, NEW kept \in BOOLEAN, HandlerEnds(u, kept) PROVE BridgeType'
  <2>1. /\ pending' = pending /\ responders' = responders
        /\ HandlerOver(u, "Saved") \/ HandlerOver(u, "Failed")
    BY <1>9 DEF HandlerEnds
  <2> QED
    BY <1>6, <2>1 DEF FileKinds
<1> QED
  BY <1>1, <1>2, <1>3, <1>4, <1>5, <1>7, <1>8, <1>9, BridgeActions DEF BridgeSteps

\* The session shown: it stays, is closed or goes on, or a page opens.
UiSteps ==
  \/ ui' = ui
  \/ ui'.status # "waiting" /\ ui'.of \in {ui.of, NoRequest}
  \/ \E r \in Requests : OpenPage(r)

\* Only the report of a saved file shows it as finished.
ShownSteps ==
  \A u \in Uploads : shown'[u] = "finished" =>
    \/ shown[u] = "finished"
    \/ port # <<>> /\ Head(port).kind = "Saved" /\ u = <<Head(port).of, Head(port).file>>

ConsentSteps == consent' = consent \/ \E ids \in SUBSET Files : Accept(ids)

UserActs ==
  \/ UNCHANGED <<opening, granting, ui, shown, recording, consent>>
  \/ \E r \in Requests : OpenPage(r)
  \/ OnPrepareUpload \/ OnFileUpload \/ OnFailed \/ OnSaved \/ OnEnd
  \/ \E u \in Uploads : Recorded(u)
  \/ \E ids \in SUBSET Files : Accept(ids)
  \/ Grant \/ Refuse({}) \/ Refuse(Declined) \/ UserCancels \/ UserCloses

LEMMA UserActions == [Next]_vars => UserActs
<1> SUFFICES ASSUME [Next]_vars PROVE UserActs
  OBVIOUS
<1> USE DEF serverVars, bridgeVars, isolateVars, callVars, userVars, historyVars
<1>1. CASE UNCHANGED vars
  BY <1>1 DEF vars, UserActs
<1>2. ASSUME NEW r \in Requests,
             PrepareUpload(r) \/ AbortRequest(r) \/ SenderCancels(r) \/ TellAborted(r)
             \/ TakeDecision(r) \/ CancelSession(r)
      PROVE  UserActs
  BY <1>2 DEF PrepareUpload, AbortRequest, SenderCancels, TellAborted, TakeDecision,
              CancelSession, UserActs
<1>3. ASSUME NEW u \in Uploads, StartUpload(u) \/ UploadBreaks(u)
             \/ UploadFails(u) \/ UploadSaved(u) \/ UploadMismatch(u)
             \/ PrepareFails(u) \/ RespondFileUpload(u)
             \/ \E kept \in BOOLEAN : HandlerEnds(u, kept)
      PROVE  UserActs
  BY <1>3 DEF StartUpload, UploadBreaks, UploadFails, UploadSaved, UploadMismatch,
              PrepareFails, RespondFileUpload, HandlerEnds, UserActs
<1>4. ASSUME Listen \/ IsolatePrepareUpload \/ IsolateFileUpload \/ IsolateSessionEnd
             \/ IsolateAborted \/ IsolateDecision \/ IsolateCancel
      PROVE  UserActs
  BY <1>4 DEF Listen, IsolatePrepareUpload, IsolateFileUpload, IsolateSessionEnd,
              IsolateAborted, IsolateDecision, IsolateCancel, UserActs
<1>5. ASSUME NEW reply \in replies, RespondPrepareUpload(reply) PROVE UserActs
  BY <1>5 DEF RespondPrepareUpload, UserActs
<1>6. CASE Sender
  BY <1>2, <1>3, <1>6 DEF Sender
<1>7. CASE Whim
  BY <1>7 DEF Whim, UserActs
<1>8. CASE Progress
  BY <1>2, <1>3, <1>4, <1>5, <1>8 DEF Progress, UserActs
<1> QED
  BY <1>1, <1>6, <1>7, <1>8 DEF Next

UiStatus == {"none", "waiting", "sending", "finished", "errors", "cancelled"}
ShownStates == {"none", "queue", "skipped", "sending", "finished", "failed"}

UiType(x) ==
  /\ x \in [of : Requests \cup {NoRequest}, status : UiStatus]
  /\ x.of = NoRequest <=> x.status = "none"

LEMMA UiFacts ==
  /\ UiType(Idle) /\ Idle.status = "none" /\ Idle.of = NoRequest
  /\ \A r \in Requests : UiType([of |-> r, status |-> "waiting"])
  /\ \A x : UiType(x) /\ x.status # "none" =>
       \A st \in UiStatus \ {"none"} :
         UiType([x EXCEPT !.status = st]) /\ [x EXCEPT !.status = st].of = x.of
         /\ [x EXCEPT !.status = st].status = st
<1>1. UiType(Idle) /\ Idle.status = "none" /\ Idle.of = NoRequest
  BY DEF UiType, Idle, UiStatus
<1>2. ASSUME NEW r \in Requests PROVE UiType([of |-> r, status |-> "waiting"])
  BY RequestFacts DEF UiType, UiStatus
<1>3. ASSUME NEW x, UiType(x), x.status # "none", NEW st \in UiStatus \ {"none"}
      PROVE  UiType([x EXCEPT !.status = st]) /\ [x EXCEPT !.status = st].of = x.of
             /\ [x EXCEPT !.status = st].status = st
  BY <1>3 DEF UiType
<1> QED
  BY <1>1, <1>2, <1>3

LEMMA NextUser ==
  ASSUME AppType, [Next]_vars
  PROVE  UserType' /\ UiSteps /\ ShownSteps /\ ConsentSteps
<1>0. /\ UserType /\ port \in Seq(Messages)
      /\ opening \in Seq(Requests) /\ granting \in Seq(Grants) /\ recording \subseteq Uploads
      /\ UiType(ui) /\ shown \in [Uploads -> ShownStates] /\ consent \in [Requests -> SUBSET Files]
  BY DEF AppType, QueueType, UserType, UiType, UiStatus, ShownStates
<1> USE DEF serverVars, bridgeVars, isolateVars, callVars, userVars, historyVars
<1> DEFINE Goal == UserType' /\ UiSteps /\ ShownSteps /\ ConsentSteps
<1>t. ASSUME opening' \in Seq(Requests), granting' \in Seq(Grants), recording' \subseteq Uploads,
             UiType(ui'), shown' \in [Uploads -> ShownStates],
             consent' \in [Requests -> SUBSET Files]
      PROVE  UserType'
  BY <1>t DEF UserType, UiType, UiStatus, ShownStates
\* The session shown is closed.
<1>1. ASSUME CloseSession
      PROVE  /\ UiType(ui') /\ UiSteps
             /\ shown' \in [Uploads -> ShownStates] /\ ShownSteps
  <2>1. ui' = Idle
    BY <1>1 DEF CloseSession
  <2>2. shown' = [u \in Uploads |-> IF u[1] = ui.of THEN "none" ELSE shown[u]]
    BY <1>1 DEF CloseSession
  <2>3. shown' \in [Uploads -> ShownStates] /\ ShownSteps
    BY <1>0, <2>2 DEF ShownStates, ShownSteps
  <2> QED
    BY <2>1, <2>3, UiFacts DEF UiSteps
<1>2. CASE UNCHANGED <<opening, granting, ui, shown, recording, consent>>
  BY <1>0, <1>2, <1>t DEF UiSteps, ShownSteps, ConsentSteps
<1>3. ASSUME NEW r \in Requests, OpenPage(r) PROVE Goal
  <2>1. /\ opening # <<>> /\ opening' = Tail(opening)
        /\ ui' = [of |-> r, status |-> "waiting"]
        /\ UNCHANGED <<granting, recording, consent>>
    BY <1>3 DEF OpenPage
  <2>2. shown' = [u \in Uploads |->
                   IF u[1] = r /\ u[2] \in Offered[r] THEN "queue" ELSE shown[u]]
    BY <1>3 DEF OpenPage
  <2>3. shown' \in [Uploads -> ShownStates] /\ ShownSteps
    BY <1>0, <2>2 DEF ShownStates, ShownSteps
  <2>4. opening' \in Seq(Requests) /\ UiType(ui')
    BY <1>0, <2>1, OpenQueue, UiFacts
  <2> QED
    BY <1>0, <1>3, <1>t, <2>1, <2>3, <2>4 DEF UiSteps, ConsentSteps
<1>4. port # <<>> => /\ Head(port).of \in Requests
                     /\ Head(port).kind \in FileKinds =>
                          <<Head(port).of, Head(port).file>> \in Uploads
  BY Fronts
<1>5. ASSUME OnPrepareUpload PROVE Goal
  <2>1. /\ port # <<>> /\ CloseSession /\ opening' = Append(opening, Head(port).of)
        /\ UNCHANGED <<granting, recording, consent>>
    BY <1>5 DEF OnPrepareUpload, Received
  <2>2. opening' \in Seq(Requests)
    BY <1>0, <1>4, <2>1, OpenQueue
  <2> QED
    BY <1>0, <1>1, <1>t, <2>1, <2>2 DEF ConsentSteps
\* The page goes on with the file of the message in front.
<1>6. ASSUME NEW u \in Uploads, port # <<>>, u = <<Head(port).of, Head(port).file>>,
             NEW st \in ShownStates, st = "finished" => Head(port).kind = "Saved",
             shown' = shown \/ shown' = [shown EXCEPT ![u] = st]
      PROVE  shown' \in [Uploads -> ShownStates] /\ ShownSteps
  BY <1>0, <1>6 DEF ShownSteps
<1>7. ASSUME \/ ui' = ui
             \/ \E st \in UiStatus \ {"none", "waiting"} :
                  ui.status # "none" /\ ui' = [ui EXCEPT !.status = st]
      PROVE  UiType(ui') /\ UiSteps
  <2>1. CASE ui' = ui
    BY <1>0, <2>1 DEF UiSteps
  <2>2. ASSUME NEW st \in UiStatus \ {"none", "waiting"}, ui.status # "none",
               ui' = [ui EXCEPT !.status = st]
        PROVE  UiType(ui') /\ UiSteps
    <3>1. UiType(ui') /\ ui'.of = ui.of /\ ui'.status = st
      BY <1>0, <2>2, UiFacts
    <3> QED
      BY <2>2, <3>1 DEF UiSteps
  <2> QED
    BY <1>7, <2>1, <2>2
<1>8. ASSUME NEW d, ui' = Concluded(d) PROVE UiType(ui') /\ UiSteps
  <2>1. \/ ui' = ui
        \/ /\ ui.status # "none"
           /\ ui' = [ui EXCEPT !.status = "errors"] \/ ui' = [ui EXCEPT !.status = "finished"]
    BY <1>8 DEF Concluded
  <2>2. {"errors", "finished"} \subseteq UiStatus \ {"none", "waiting"}
    BY DEF UiStatus
  <2> QED
    BY <1>7, <2>1, <2>2
<1>9. ASSUME OnFileUpload PROVE Goal
  <2> DEFINE u == <<Head(port).of, Head(port).file>>
  <2>1. /\ port # <<>> /\ Head(port).kind = "FileUpload"
        /\ UNCHANGED <<opening, granting, recording, consent>>
    BY <1>9 DEF OnFileUpload, Received
  <2>2. \/ UNCHANGED <<ui, shown>>
        \/ /\ ui.status \in {"sending", "errors"} /\ shown' = [shown EXCEPT ![u] = "sending"]
           /\ ui' = [ui EXCEPT !.status = "sending"]
    BY <1>9 DEF OnFileUpload, Receiving
  <2>3. u \in Uploads
    BY <1>4, <2>1 DEF FileKinds
  <2>4. shown' \in [Uploads -> ShownStates] /\ ShownSteps
    BY <1>6, <2>1, <2>2, <2>3 DEF ShownStates
  <2>5. UiType(ui') /\ UiSteps
    BY <1>7, <2>2 DEF UiStatus
  <2> QED
    BY <1>0, <1>t, <2>1, <2>4, <2>5 DEF ConsentSteps
<1>10. ASSUME OnFailed PROVE Goal
  <2> DEFINE u == <<Head(port).of, Head(port).file>>
  <2>1. /\ port # <<>> /\ Head(port).kind = "Failed"
        /\ UNCHANGED <<opening, granting, recording, consent>>
    BY <1>10 DEF OnFailed, Received
  <2>2. \/ UNCHANGED <<ui, shown>>
        \/ shown' = [shown EXCEPT ![u] = "failed"] /\ ui' = Concluded(shown')
    BY <1>10 DEF OnFailed
  <2>3. u \in Uploads
    BY <1>4, <2>1 DEF FileKinds
  <2>4. shown' \in [Uploads -> ShownStates] /\ ShownSteps
    BY <1>6, <2>1, <2>2, <2>3 DEF ShownStates
  <2>5. UiType(ui') /\ UiSteps
    BY <1>7, <1>8, <2>2
  <2> QED
    BY <1>0, <1>t, <2>1, <2>4, <2>5 DEF ConsentSteps
<1>11. ASSUME OnSaved PROVE Goal
  <2> DEFINE u == <<Head(port).of, Head(port).file>>
  <2>1. /\ port # <<>> /\ Head(port).kind = "Saved"
        /\ UNCHANGED <<opening, granting, ui, consent>>
    BY <1>11 DEF OnSaved, Received
  <2>2. \/ UNCHANGED <<recording, shown>>
        \/ shown' = [shown EXCEPT ![u] = "finished"] /\ recording' = recording \cup {u}
    BY <1>11 DEF OnSaved
  <2>3. u \in Uploads
    BY <1>4, <2>1 DEF FileKinds
  <2>4. shown' \in [Uploads -> ShownStates] /\ ShownSteps
    BY <1>6, <2>1, <2>2, <2>3 DEF ShownStates
  <2>5. UiType(ui') /\ UiSteps /\ recording' \subseteq Uploads
    BY <1>0, <1>7, <2>1, <2>2, <2>3
  <2> QED
    BY <1>0, <1>t, <2>1, <2>4, <2>5 DEF ConsentSteps
<1>12. ASSUME OnEnd PROVE Goal
  <2>1. /\ port # <<>> /\ UNCHANGED <<opening, granting, recording, shown, consent>>
    BY <1>12 DEF OnEnd, Received
  <2>2. \/ ui' = ui
        \/ ui.of = Head(port).of /\ ui' = [ui EXCEPT !.status = "cancelled"]
    BY <1>12 DEF OnEnd
  <2>3. Head(port).of # NoRequest
    BY <1>4, <2>1, RequestFacts
  <2>4. \/ ui' = ui
        \/ ui.status # "none" /\ ui' = [ui EXCEPT !.status = "cancelled"]
    BY <1>0, <2>2, <2>3 DEF UiType
  <2>5. UiType(ui') /\ UiSteps
    BY <1>7, <2>4 DEF UiStatus
  <2> QED
    BY <1>0, <1>t, <2>1, <2>5 DEF ConsentSteps, ShownSteps
<1>13. ASSUME NEW u \in Uploads, Recorded(u) PROVE Goal
  <2>1. /\ recording' \subseteq recording /\ ui' = Concluded(shown)
        /\ UNCHANGED <<opening, granting, shown, consent>>
    BY <1>13 DEF Recorded
  <2> QED
    BY <1>0, <1>8, <1>t, <2>1 DEF ConsentSteps, ShownSteps
<1>14. ASSUME NEW ids \in SUBSET Files, Accept(ids) PROVE Goal
  <2>1. /\ ui.status = "waiting" /\ ui' = [ui EXCEPT !.status = "sending"]
        /\ granting' = Append(granting, [of |-> ui.of, files |-> ids])
        /\ consent' = [consent EXCEPT ![ui.of] = ids]
        /\ UNCHANGED <<opening, recording>>
    BY <1>14 DEF Accept
  <2>2. shown' = [u \in Uploads |->
                   IF u[1] = ui.of /\ u[2] \in Offered[ui.of] \ ids THEN "skipped"
                   ELSE shown[u]]
    BY <1>14 DEF Accept
  <2>3. shown' \in [Uploads -> ShownStates] /\ ShownSteps
    BY <1>0, <2>2 DEF ShownStates, ShownSteps
  <2>4. UiType(ui') /\ UiSteps
    BY <1>7, <2>1 DEF UiStatus
  <2>5. ui.of \in Requests /\ [of |-> ui.of, files |-> ids] \in Grants
    BY <2>1, Fronts DEF Grants, Answers
  <2>6. granting' \in Seq(Grants)
    BY <1>0, <2>1, <2>5, GrantQueue
  <2>7. consent' \in [Requests -> SUBSET Files]
    BY <1>0, <2>1, <2>5
  <2> QED
    BY <1>0, <1>14, <1>t, <2>1, <2>3, <2>4, <2>6, <2>7 DEF ConsentSteps
<1>15. ASSUME Grant PROVE Goal
  <2>1. /\ granting # <<>> /\ granting' = Tail(granting)
        /\ UNCHANGED <<opening, recording, ui, shown, consent>>
    BY <1>15 DEF Grant
  <2>2. granting' \in Seq(Grants)
    BY <1>0, <2>1, GrantQueue
  <2> QED
    BY <1>0, <1>t, <2>1, <2>2 DEF ConsentSteps, ShownSteps, UiSteps
<1>16. ASSUME Refuse({}) \/ Refuse(Declined) \/ UserCancels \/ UserCloses PROVE Goal
  <2>1. CloseSession /\ UNCHANGED <<opening, granting, recording, consent>>
    BY <1>16 DEF Refuse, UserCancels, UserCloses
  <2> QED
    BY <1>0, <1>1, <1>t, <2>1 DEF ConsentSteps
<1> QED
  BY <1>2, <1>3, <1>5, <1>9, <1>10, <1>11, <1>12, <1>13, <1>14, <1>15, <1>16, UserActions
     DEF UserActs

-----------------------------------------------------------------------------
(* A request is announced once, and its announcement moves along the queues *)
(* to the page: until its page opens no file of it can be accepted.        *)

Pipe == Prep(events) \cup Prep(sink) \cup Prep(port) \cup Items(opening)

PipeInv ==
  /\ QueuesOnce /\ Distinct(opening)
  /\ Prep(events) \cap Prep(sink) = {}
  /\ (Prep(events) \cup Prep(sink)) \cap Prep(port) = {}
  /\ (Prep(events) \cup Prep(sink) \cup Prep(port)) \cap Items(opening) = {}
  /\ ui.of \notin Pipe
  /\ \A r \in Pipe : req[r] # "new" /\ consent[r] = {}
  /\ \A r \in Requests : req[r] = "new" => r # ui.of /\ consent[r] = {}
  /\ ui.status = "waiting" => consent[ui.of] = {}

\* A request is new once.
LEMMA NewOnce ==
  ASSUME AppType, [Next]_vars
  PROVE  \A r \in Requests : req'[r] = "new" => req[r] = "new"
<1>0. req \in [Requests -> RequestStates]
  BY DEF AppType, ServerType
<1> USE DEF serverVars, bridgeVars, isolateVars, callVars, userVars, historyVars
<1> DEFINE Goal == \A r \in Requests : req'[r] = "new" => req[r] = "new"
<1>1. ASSUME req' = req \/ \E q \in Requests, st \in {"asking", "aborted", "active", "over"} :
                              req' = [req EXCEPT ![q] = st]
      PROVE  Goal
  BY <1>0, <1>1
<1>2. ASSUME NEW r \in Requests,
             PrepareUpload(r) \/ AbortRequest(r) \/ SenderCancels(r) \/ TellAborted(r)
             \/ CancelSession(r)
      PROVE  Goal
  BY <1>1, <1>2 DEF PrepareUpload, AbortRequest, SenderCancels, TellAborted, CancelSession
<1>3. ASSUME NEW r \in Requests, TakeDecision(r) PROVE Goal
  BY <1>1, <1>3 DEF TakeDecision
<1>4. ASSUME NEW u \in Uploads, NEW st, Finalize(u, st) PROVE Goal
  <2>1. u[1] \in Requests
    BY DEF Uploads
  <2> QED
    BY <1>1, <1>4, <2>1, FinalizeDoes
<1>5. ASSUME NEW u \in Uploads,
             UploadBreaks(u) \/ UploadFails(u) \/ UploadSaved(u) \/ UploadMismatch(u)
      PROVE  Goal
  BY <1>4, <1>5 DEF UploadBreaks, UploadFails, UploadSaved, UploadMismatch
<1>6. ASSUME NEW u \in Uploads, StartUpload(u) \/ PrepareFails(u) \/ RespondFileUpload(u)
      PROVE  Goal
  BY <1>1, <1>6 DEF StartUpload, PrepareFails, RespondFileUpload
<1>7. ASSUME Listen \/ \E reply \in replies : RespondPrepareUpload(reply) PROVE Goal
  BY <1>1, <1>7 DEF Listen, RespondPrepareUpload
<1> QED
  BY <1>1, <1>2, <1>3, <1>5, <1>6, <1>7, ServerSteps DEF UploadSteps

LEMMA NextPipe ==
  ASSUME AppType, AppType', PipeInv, [Next]_vars
  PROVE  PipeInv'
<1>0. /\ events \in Seq(Messages) /\ sink \in Seq(Messages) /\ port \in Seq(Messages)
      /\ opening \in Seq(Requests) /\ UiType(ui) /\ consent \in [Requests -> SUBSET Files]
      /\ req \in [Requests -> RequestStates]
      /\ NoRequest \notin Requests
  BY RequestFacts DEF AppType, ServerType, QueueType, UserType, UiType, UiStatus
<1>p. Pipe \subseteq Requests
  <2>1. Items(opening) \subseteq Requests
    BY <1>0 DEF Items
  <2> QED
    BY <2>1 DEF Pipe, Prep
<1>s. /\ QueuesOnce /\ PipeSteps
      /\ UiSteps /\ ConsentSteps
      /\ \A r \in Requests : req'[r] = "new" => req[r] = "new"
  BY NextQueues, NextUser, NewOnce DEF PipeInv
<1> USE DEF serverVars, bridgeVars, isolateVars, callVars, userVars, historyVars
\* What the consent to a request waits for.
<1>c. \A r \in Requests : consent'[r] = {} \/ consent'[r] = consent[r] \/ r = ui.of
  <2>1. ASSUME NEW ids \in SUBSET Files, Accept(ids)
        PROVE  \A r \in Requests : consent'[r] = {} \/ consent'[r] = consent[r] \/ r = ui.of
    BY <1>0, <2>1 DEF Accept
  <2> QED
    BY <1>s, <2>1 DEF ConsentSteps
<1>w. ui'.status = "waiting" /\ ui' = ui => consent' = consent
  <2>1. ASSUME NEW ids \in SUBSET Files, Accept(ids) PROVE ui'.status # "waiting"
    BY <1>0, <2>1 DEF Accept, UiType
  <2> QED
    BY <1>s, <2>1 DEF ConsentSteps
\* The announcements stay where they are.
<1>1. ASSUME StillSteps, ~ \E r \in Requests : OpenPage(r) PROVE PipeInv'
  <2>1. /\ Prep(events') = Prep(events) /\ Prep(sink') = Prep(sink) /\ Prep(port') = Prep(port)
        /\ Once(events') /\ Once(sink') /\ Once(port') /\ opening' = opening
    BY <1>1, <1>s DEF StillSteps, SamePrep, QueuesOnce
  <2>2. Pipe' = Pipe
    BY <2>1 DEF Pipe
  <2>3. \/ ui' = ui
        \/ ui'.status # "waiting" /\ ui'.of \in {ui.of, NoRequest}
    BY <1>1, <1>s DEF UiSteps
  <2>4. ui'.of \notin Pipe
    BY <1>0, <1>p, <2>3 DEF PipeInv
  <2>5. \A r \in Pipe : req'[r] # "new" /\ consent'[r] = {}
    BY <1>p, <1>s, <1>c DEF PipeInv
  <2>6. \A r \in Requests : req'[r] = "new" => r # ui'.of /\ consent'[r] = {}
    BY <1>0, <1>s, <1>c, <2>3 DEF PipeInv
  <2>7. ui'.status = "waiting" => consent'[ui'.of] = {}
    BY <1>w, <2>3 DEF PipeInv
  <2>8. /\ Prep(events') \cap Prep(sink') = {}
        /\ (Prep(events') \cup Prep(sink')) \cap Prep(port') = {}
        /\ (Prep(events') \cup Prep(sink') \cup Prep(port')) \cap Items(opening') = {}
    BY <2>1 DEF PipeInv
  <2> QED
    BY <2>1, <2>2, <2>4, <2>5, <2>6, <2>7, <2>8 DEF PipeInv, QueuesOnce
<1>2. ASSUME NEW r \in Requests, PrepareUpload(r) PROVE PipeInv'
  <2>1. /\ req[r] = "new" /\ req' = [req EXCEPT ![r] = "asking"]
        /\ events' = Append(events, Message("PrepareUpload", r))
        /\ UNCHANGED <<sink, port, opening, ui, consent>>
    BY <1>2 DEF PrepareUpload
  <2>2. /\ Message("PrepareUpload", r) \in Messages
        /\ Message("PrepareUpload", r).kind = "PrepareUpload" /\ Message("PrepareUpload", r).of = r
    BY MessageFacts DEF PlainKinds
  <2>3. r \notin Pipe
    BY <2>1 DEF PipeInv
  <2>4. Message("PrepareUpload", r) \notin Items(events)
    BY <2>3 DEF Pipe, Prep
  <2>5. Prep(events') = Prep(events) \cup {r} /\ Once(events')
    BY <1>0, <1>s, <2>1, <2>2, <2>4, PrepQueue, MessageQueue DEF QueuesOnce
  <2>6. Pipe' = Pipe \cup {r}
    BY <2>1, <2>5 DEF Pipe
  <2>7. /\ Prep(events') \cap Prep(sink) = {}
        /\ (Prep(events') \cup Prep(sink)) \cap Prep(port) = {}
        /\ (Prep(events') \cup Prep(sink) \cup Prep(port)) \cap Items(opening) = {}
    BY <2>3, <2>5 DEF PipeInv, Pipe
  <2>8. /\ ui.of \notin Pipe' /\ consent[r] = {}
        /\ \A q \in Pipe' : req'[q] # "new"
    BY <1>0, <1>p, <2>1, <2>6 DEF PipeInv
  <2> QED
    BY <1>s, <2>1, <2>5, <2>6, <2>7, <2>8 DEF PipeInv, QueuesOnce
\* An announcement moves on.
<1>3. ASSUME NEW q \in Requests,
             UNCHANGED <<req, consent>>, QueuesOnce', Distinct(opening'),
             Pipe' \subseteq Pipe,
             Prep(events') \cap Prep(sink') = {},
             (Prep(events') \cup Prep(sink')) \cap Prep(port') = {},
             (Prep(events') \cup Prep(sink') \cup Prep(port')) \cap Items(opening') = {},
             ui' = ui \/ ui' = Idle \/ (q \in Pipe /\ q \notin Pipe'
                                        /\ ui' = [of |-> q, status |-> "waiting"])
      PROVE  PipeInv'
  <2>1. CASE ui' = ui
    BY <1>3, <2>1 DEF PipeInv
  <2>2. CASE ui' = Idle
    <3>1. ui'.of = NoRequest /\ ui'.status = "none"
      BY <2>2 DEF Idle
    <3>2. ui'.of \notin Pipe' /\ \A r \in Requests : r # ui'.of
      BY <1>0, <1>3, <1>p, <3>1
    <3> QED
      BY <1>3, <3>1, <3>2 DEF PipeInv
  <2>3. CASE q \in Pipe /\ q \notin Pipe' /\ ui' = [of |-> q, status |-> "waiting"]
    <3>1. ui'.of = q /\ req[q] # "new" /\ consent[q] = {}
      BY <2>3 DEF PipeInv
    <3> QED
      BY <1>3, <2>3, <3>1 DEF PipeInv
  <2> QED
    BY <1>3, <2>1, <2>2, <2>3
<1>4. ASSUME Listen, Head(events).kind = "PrepareUpload" PROVE PipeInv'
  <2> DEFINE e == Head(events)
  <2>1. /\ events # <<>> /\ events' = Tail(events) /\ sink' = Append(sink, e)
        /\ UNCHANGED <<port, opening, ui, consent, req>>
    BY <1>4 DEF Listen
  <2>2. /\ e.of \in Prep(events) /\ Prep(events') = Prep(events) \ {e.of}
        /\ Once(events') /\ e \in Messages
    BY <1>0, <1>4, <1>s, <2>1, PrepQueue, MessageQueue DEF QueuesOnce
  <2>3. e.of \in Requests /\ e = Message("PrepareUpload", e.of)
    BY <1>4, <2>2, MessageFacts
  <2> HIDE DEF e
  <2>4. e.of \notin Prep(sink)
    BY <2>2 DEF PipeInv
  <2>5. e \notin Items(sink) /\ e.kind = "PrepareUpload"
    BY <1>4, <2>3, <2>4 DEF Prep, e
  <2>6. Prep(sink') = Prep(sink) \cup {e.of} /\ Once(sink')
    BY <1>0, <1>s, <2>1, <2>2, <2>5, PrepQueue, MessageQueue DEF QueuesOnce
  <2>7. /\ Prep(events') \cap Prep(sink') = {}
        /\ (Prep(events') \cup Prep(sink')) \cap Prep(port') = {}
        /\ (Prep(events') \cup Prep(sink') \cup Prep(port')) \cap Items(opening') = {}
        /\ Pipe' = Pipe /\ QueuesOnce' /\ Distinct(opening')
    BY <1>s, <2>1, <2>2, <2>6 DEF PipeInv, Pipe, QueuesOnce
  <2> QED
    BY <1>3, <2>1, <2>3, <2>7
<1>5. ASSUME IsolatePrepareUpload PROVE PipeInv'
  <2> DEFINE e == Head(sink)
  <2>1. /\ sink # <<>> /\ e.kind = "PrepareUpload"
        /\ sink' = Tail(sink) /\ port' = Append(port, e)
        /\ UNCHANGED <<events, opening, ui, consent, req>>
    BY <1>5 DEF IsolatePrepareUpload, Taken
  <2>2. /\ e.of \in Prep(sink) /\ Prep(sink') = Prep(sink) \ {e.of}
        /\ Once(sink') /\ e \in Messages
    BY <1>0, <1>s, <2>1, PrepQueue, MessageQueue DEF QueuesOnce
  <2> HIDE DEF e
  <2>3. e.of \in Requests /\ e = Message("PrepareUpload", e.of)
    BY <2>1, <2>2, MessageFacts
  <2>4. e.of \notin Prep(port)
    BY <2>2 DEF PipeInv
  <2>5. e \notin Items(port)
    BY <2>3, <2>4 DEF Prep
  <2>6. Prep(port') = Prep(port) \cup {e.of} /\ Once(port')
    BY <1>0, <1>s, <2>1, <2>2, <2>5, PrepQueue, MessageQueue DEF QueuesOnce
  <2>7. /\ Prep(events') \cap Prep(sink') = {}
        /\ (Prep(events') \cup Prep(sink')) \cap Prep(port') = {}
        /\ (Prep(events') \cup Prep(sink') \cup Prep(port')) \cap Items(opening') = {}
        /\ Pipe' = Pipe /\ QueuesOnce' /\ Distinct(opening')
    BY <1>s, <2>1, <2>2, <2>6 DEF PipeInv, Pipe, QueuesOnce
  <2> QED
    BY <1>3, <2>1, <2>3, <2>7
<1>6. ASSUME OnPrepareUpload PROVE PipeInv'
  <2> DEFINE e == Head(port)
  <2>1. /\ port # <<>> /\ e.kind = "PrepareUpload"
        /\ port' = Tail(port) /\ opening' = Append(opening, e.of) /\ ui' = Idle
        /\ UNCHANGED <<events, sink, consent, req>>
    BY <1>6 DEF OnPrepareUpload, Received, CloseSession
  <2>2. /\ e.of \in Prep(port) /\ Prep(port') = Prep(port) \ {e.of}
        /\ Once(port')
    BY <1>0, <1>s, <2>1, PrepQueue, MessageQueue DEF QueuesOnce
  <2> HIDE DEF e
  <2>3. e.of \in Requests /\ e.of \notin Items(opening)
    BY <2>2 DEF PipeInv, Prep
  <2>4. Items(opening') = Items(opening) \cup {e.of} /\ Distinct(opening')
    BY <1>0, <2>1, <2>3, OpenQueue DEF PipeInv
  <2>5. /\ Prep(events') \cap Prep(sink') = {}
        /\ (Prep(events') \cup Prep(sink')) \cap Prep(port') = {}
        /\ (Prep(events') \cup Prep(sink') \cup Prep(port')) \cap Items(opening') = {}
        /\ Pipe' = Pipe /\ QueuesOnce'
    BY <1>s, <2>1, <2>2, <2>4 DEF PipeInv, Pipe, QueuesOnce
  <2> QED
    BY <1>3, <2>1, <2>3, <2>4, <2>5
<1>7. ASSUME NEW r \in Requests, OpenPage(r) PROVE PipeInv'
  <2>1. /\ opening # <<>> /\ r = Head(opening)
        /\ opening' = Tail(opening) /\ ui' = [of |-> r, status |-> "waiting"]
        /\ UNCHANGED <<events, sink, port, consent, req>>
    BY <1>7 DEF OpenPage
  <2>2. /\ Items(opening) = Items(opening') \cup {r} /\ Distinct(opening')
        /\ r \notin Items(opening')
    BY <1>0, <2>1, OpenQueue DEF PipeInv
  <2>3. /\ Prep(events') \cap Prep(sink') = {}
        /\ (Prep(events') \cup Prep(sink')) \cap Prep(port') = {}
        /\ (Prep(events') \cup Prep(sink') \cup Prep(port')) \cap Items(opening') = {}
        /\ Pipe' \subseteq Pipe /\ QueuesOnce'
    BY <1>s, <2>1, <2>2 DEF PipeInv, Pipe, QueuesOnce
  <2>4. r \in Pipe /\ r \notin Pipe'
    BY <2>1, <2>2 DEF PipeInv, Pipe
  <2> QED
    BY <1>3, <2>1, <2>2, <2>3, <2>4
<1> QED
  BY <1>1, <1>2, <1>4, <1>5, <1>6, <1>7, <1>s DEF PipeSteps

-----------------------------------------------------------------------------
(* The answer of the user, from the page to the server. *)

AnswerActs ==
  \/ UNCHANGED <<granting, tasks, replies, decision, answers>>
  \/ \E ids \in SUBSET Files : Accept(ids)
  \/ Grant \/ Refuse({}) \/ Refuse(Declined) \/ UserCancels
  \/ OnFileUpload \/ IsolateDecision \/ IsolateCancel
  \/ \E reply \in replies : RespondPrepareUpload(reply)

LEMMA AnswerActions == [Next]_vars => AnswerActs
<1> SUFFICES ASSUME [Next]_vars PROVE AnswerActs
  OBVIOUS
<1> USE DEF serverVars, bridgeVars, isolateVars, callVars, userVars, historyVars
<1>1. CASE UNCHANGED vars
  BY <1>1 DEF vars, AnswerActs
<1>2. ASSUME NEW r \in Requests,
             PrepareUpload(r) \/ AbortRequest(r) \/ SenderCancels(r) \/ TellAborted(r)
             \/ TakeDecision(r) \/ CancelSession(r) \/ OpenPage(r)
      PROVE  AnswerActs
  BY <1>2 DEF PrepareUpload, AbortRequest, SenderCancels, TellAborted, TakeDecision,
              CancelSession, OpenPage, AnswerActs
<1>3. ASSUME NEW u \in Uploads, StartUpload(u) \/ UploadBreaks(u)
             \/ UploadFails(u) \/ UploadSaved(u) \/ UploadMismatch(u)
             \/ PrepareFails(u) \/ RespondFileUpload(u) \/ Recorded(u)
             \/ \E kept \in BOOLEAN : HandlerEnds(u, kept)
      PROVE  AnswerActs
  BY <1>3 DEF StartUpload, UploadBreaks, UploadFails, UploadSaved, UploadMismatch,
              PrepareFails, RespondFileUpload, Recorded, HandlerEnds, AnswerActs
<1>4. ASSUME Listen \/ IsolatePrepareUpload \/ IsolateFileUpload \/ IsolateSessionEnd
             \/ IsolateAborted
      PROVE  AnswerActs
  BY <1>4 DEF Listen, IsolatePrepareUpload, IsolateFileUpload, IsolateSessionEnd,
              IsolateAborted, AnswerActs
<1>5. ASSUME OnPrepareUpload \/ OnFailed \/ OnSaved \/ OnEnd \/ UserCloses PROVE AnswerActs
  BY <1>5 DEF OnPrepareUpload, OnFailed, OnSaved, OnEnd, UserCloses, AnswerActs
<1>6. CASE Sender
  BY <1>2, <1>3, <1>6 DEF Sender
<1>7. CASE Whim
  BY <1>5, <1>7 DEF Whim, AnswerActs
<1>8. CASE Progress
  BY <1>2, <1>3, <1>4, <1>5, <1>8 DEF Progress, AnswerActs
<1> QED
  BY <1>1, <1>6, <1>7, <1>8 DEF Next

AnswersType == answers \in [Requests -> SUBSET Requests]

\* Each answer is handed on as it was given, and with it the request it was
\* given to.
AnswerSteps ==
  /\ \A g \in Items(granting') :
       \/ g \in Items(granting)
       \/ \E ids \in SUBSET Files :
            Accept(ids) /\ g.files = ids /\ g.of = ui.of /\ ui.of \in Requests
  /\ \A t \in Items(tasks') : t.kind = "Decision" =>
       \/ t \in Items(tasks) \/ t.files \in {{}, Declined}
       \/ \E g \in Items(granting) : t.files = g.files /\ t.asked = g.of
  /\ \A p \in replies' :
       \/ p \in replies
       \/ \E t \in Items(tasks) :
            t.kind = "Decision" /\ p.files = t.files /\ p.asked = t.asked
  /\ \A r \in Requests :
       \/ decision'[r] = decision[r] /\ answers'[r] = answers[r]
       \/ \E p \in replies : /\ decision'[r] = <<p.files>>
                             /\ answers'[r] = answers[r] \cup {p.asked}

LEMMA NextAnswers ==
  ASSUME AppType, AnswersType, [Next]_vars
  PROVE  AnswerSteps /\ AnswersType'
<1>0. /\ tasks \in Seq(Tasks) /\ granting \in Seq(Grants) /\ replies \subseteq Replies
      /\ pending \in Requests \cup {NoRequest}
      /\ decision \in [Requests -> {<<>>} \cup {<<a>> : a \in SUBSET Answers}]
      /\ answers \in [Requests -> SUBSET Requests]
  BY DEF AppType, ServerType, BridgeType, QueueType, UserType, AnswersType
<1> USE DEF serverVars, bridgeVars, isolateVars, callVars, userVars, historyVars
<1> DEFINE Goal == AnswerSteps /\ AnswersType'
<1>1. CASE UNCHANGED <<granting, tasks, replies, decision, answers>>
  BY <1>0, <1>1 DEF AnswerSteps, AnswersType
<1>2. ASSUME NEW ids \in SUBSET Files, Accept(ids) PROVE Goal
  <2> DEFINE a == [of |-> ui.of, files |-> ids]
  <2>1. /\ ui.status = "waiting" /\ granting' = Append(granting, a)
        /\ UNCHANGED <<tasks, replies, decision, answers>>
    BY <1>2 DEF Accept
  <2>2. a \in Grants /\ a.files = ids /\ a.of = ui.of /\ ui.of \in Requests
    BY <2>1, Fronts DEF Grants, Answers
  <2> HIDE DEF a
  <2>3. Items(granting') = Items(granting) \cup {a}
    BY <1>0, <2>1, <2>2, GrantQueue
  <2> QED
    BY <1>0, <1>2, <2>1, <2>2, <2>3 DEF AnswerSteps, AnswersType
\* A task is added.
<1>3. ASSUME NEW t \in Tasks, tasks' = tasks \/ tasks' = Append(tasks, t),
             \/ t.kind # "Decision" \/ t.files \in {{}, Declined}
             \/ \E g \in Items(granting) : t.files = g.files /\ t.asked = g.of,
             Items(granting') \subseteq Items(granting),
             UNCHANGED <<replies, decision, answers>>
      PROVE  Goal
  <2>1. Items(tasks') = Items(tasks) \/ Items(tasks') = Items(tasks) \cup {t}
    BY <1>0, <1>3, TaskQueue
  <2> QED
    BY <1>0, <1>3, <2>1 DEF AnswerSteps, AnswersType
<1>4. ASSUME Grant PROVE Goal
  <2>1. /\ granting # <<>> /\ granting' = Tail(granting)
        /\ tasks' = IF ui.of = NoRequest THEN tasks
                    ELSE Append(tasks, Decision(ui.of, Head(granting).files, Head(granting).of))
        /\ UNCHANGED <<replies, decision, answers>>
    BY <1>4 DEF Grant
  <2>2. /\ Head(granting) \in Grants /\ Head(granting) \in Items(granting)
        /\ Items(granting') \subseteq Items(granting)
    BY <1>0, <2>1, GrantQueue
  <2>3. CASE ui.of = NoRequest
    BY <1>0, <2>1, <2>2, <2>3 DEF AnswerSteps, AnswersType
  <2>4. CASE ui.of # NoRequest
    <3> DEFINE t == Decision(ui.of, Head(granting).files, Head(granting).of)
    <3>1. /\ ui.of \in Requests /\ Head(granting).files \in SUBSET Answers
          /\ Head(granting).of \in Requests
      BY <2>2, <2>4 DEF AppType, UserType, Grants
    <3>2. t \in Tasks /\ t.files = Head(granting).files /\ t.asked = Head(granting).of
      BY <3>1 DEF Decision, Tasks
    <3>3. tasks' = Append(tasks, t)
      BY <2>1, <2>4
    <3> HIDE DEF t
    <3> QED
      BY <1>3, <2>1, <2>2, <3>2, <3>3
  <2> QED
    BY <2>3, <2>4
<1>5. ASSUME NEW a \in {{}, Declined}, Refuse(a) PROVE Goal
  <2>1. /\ ui.status = "waiting" /\ tasks' = Append(tasks, Decision(ui.of, a, ui.of))
        /\ UNCHANGED <<granting, replies, decision, answers>>
    BY <1>5 DEF Refuse
  <2>2. ui.of \in Requests /\ a \in SUBSET Answers
    BY <2>1, Fronts DEF Answers
  <2>3. Decision(ui.of, a, ui.of) \in Tasks /\ Decision(ui.of, a, ui.of).files = a
    BY <2>2 DEF Decision, Tasks
  <2> QED
    BY <1>3, <2>1, <2>3
<1>6. ASSUME UserCancels \/ OnFileUpload PROVE Goal
  <2>1. PICK r \in Requests : tasks' = tasks \/ tasks' = Append(tasks, Message("Cancel", r))
    <3>1. CASE UserCancels
      <4>1. ui.status # "none" /\ tasks' = Append(tasks, Message("Cancel", ui.of))
        BY <3>1 DEF UserCancels
      <4> QED
        BY <4>1, Fronts
    <3>2. CASE OnFileUpload
      <4>1. /\ port # <<>>
            /\ tasks' = tasks \/ tasks' = Append(tasks, Message("Cancel", Head(port).of))
        BY <3>2 DEF OnFileUpload, Received
      <4> QED
        BY <4>1, Fronts
    <3> QED
      BY <1>6, <3>1, <3>2
  <2>2. UNCHANGED <<granting, replies, decision, answers>>
    BY <1>6 DEF UserCancels, OnFileUpload
  <2>3. Message("Cancel", r) \in Tasks /\ Message("Cancel", r).kind # "Decision"
    BY TaskFacts
  <2> QED
    BY <1>3, <2>1, <2>2, <2>3
<1>7. ASSUME IsolateDecision \/ IsolateCancel PROVE Goal
  <2> DEFINE p == [files |-> Head(tasks).files, asked |-> Head(tasks).asked]
  <2>1. /\ tasks # <<>> /\ tasks' = Tail(tasks) /\ UNCHANGED <<granting, decision, answers>>
        /\ \/ replies' = replies
           \/ Head(tasks).kind = "Decision" /\ replies' = replies \cup {p}
    BY <1>7 DEF IsolateDecision, IsolateCancel
  <2>2. Head(tasks) \in Items(tasks) /\ Items(tasks') \subseteq Items(tasks)
    BY <1>0, <2>1, TaskQueue
  <2>3. p.files = Head(tasks).files /\ p.asked = Head(tasks).asked
    OBVIOUS
  <2> HIDE DEF p
  <2> QED
    BY <1>0, <2>1, <2>2, <2>3 DEF AnswerSteps, AnswersType
<1>8. ASSUME NEW reply \in replies, RespondPrepareUpload(reply) PROVE Goal
  <2>1. /\ UNCHANGED <<granting, tasks>> /\ replies' \subseteq replies
        /\ \/ UNCHANGED <<decision, answers>>
           \/ /\ pending # NoRequest
              /\ decision' = [decision EXCEPT ![pending] = <<reply.files>>]
              /\ answers' = [answers EXCEPT ![pending] = @ \cup {reply.asked}]
    BY <1>8 DEF RespondPrepareUpload
  <2>2. \A r \in Requests :
          \/ decision'[r] = decision[r] /\ answers'[r] = answers[r]
          \/ decision'[r] = <<reply.files>> /\ answers'[r] = answers[r] \cup {reply.asked}
    BY <1>0, <2>1
  <2>3. reply.asked \in Requests
    BY <1>0 DEF Replies
  <2>4. AnswersType'
    BY <1>0, <2>1, <2>3 DEF AnswersType
  <2> QED
    BY <2>1, <2>2, <2>4 DEF AnswerSteps
<1> QED
  BY <1>1, <1>2, <1>4, <1>5, <1>6, <1>7, <1>8, AnswerActions DEF AnswerActs

\* What an answer accepts was accepted in the request it was given to.
Granted(fs, q) == fs \cap Files \subseteq consent[q]

ConsentInv ==
  /\ AnswersType
  /\ \A g \in Items(granting) : Granted(g.files, g.of)
  /\ \A t \in Items(tasks) : t.kind = "Decision" => Granted(t.files, t.asked)
  /\ \A p \in replies : Granted(p.files, p.asked)
  /\ \A r \in Requests :
       decision[r] # <<>> => \E q \in answers[r] : Granted(decision[r][1], q)
  /\ Consented

LEMMA NextConsent ==
  ASSUME AppType, AppType', AttemptInv, PipeInv, ConsentInv, [Next]_vars
  PROVE  ConsentInv'
<1>0. /\ consent \in [Requests -> SUBSET Files] /\ UiType(ui)
      /\ up \in [Uploads -> UploadStates]
      /\ answers \in [Requests -> SUBSET Requests] /\ AnswersType'
      /\ Offered \in [Requests -> SUBSET Files] /\ "declined" \notin Files
      /\ AnswerSteps /\ UpSteps /\ ConsentSteps
  BY NextAnswers, NextServer, NextUser, ConstantsAssumption, DeclinedAssumption
     DEF AppType, ServerType, UserType, UiType, UiStatus, ConsentInv, AnswersType
<1>t. /\ \A g \in Items(granting) : g.of \in Requests
      /\ \A t \in Items(tasks) : t.kind = "Decision" => t.asked \in Requests
      /\ \A t \in Items(tasks') : t.kind = "Decision" => t.asked \in Requests
      /\ \A p \in replies : p.asked \in Requests
  <2>1. \A x, q : q \in Seq(x) => Items(q) \subseteq x
    BY DEF Items
  <2>2. /\ Items(granting) \subseteq Grants /\ Items(tasks) \subseteq Tasks
        /\ Items(tasks') \subseteq Tasks /\ replies \subseteq Replies
    BY <2>1 DEF AppType, UserType, QueueType
  <2> QED
    BY <2>2, TaskFacts DEF Grants, Replies
\* What Accept does to the consent.
<1>1. ASSUME NEW ids \in SUBSET Files, Accept(ids)
      PROVE  /\ ui.of \in Requests /\ consent[ui.of] = {} /\ ids \subseteq Offered[ui.of]
             /\ consent' = [consent EXCEPT ![ui.of] = ids]
  BY <1>1, Fronts DEF Accept, PipeInv
<1>2. \A r \in Requests : consent[r] \subseteq consent'[r]
  <2>1. ASSUME NEW ids \in SUBSET Files, Accept(ids)
        PROVE  \A r \in Requests : consent[r] \subseteq consent'[r]
    BY <1>0, <1>1, <2>1
  <2> QED
    BY <1>0, <2>1 DEF ConsentSteps
<1> DEFINE GrantedNow(fs, q) == fs \cap Files \subseteq consent'[q]
<1>3. \A fs, q : q \in Requests /\ Granted(fs, q) => GrantedNow(fs, q)
  BY <1>2 DEF Granted
<1>4. \A fs, q : fs \in {{}, Declined} => GrantedNow(fs, q)
  BY <1>0 DEF Declined
<1>5. ASSUME NEW ids \in SUBSET Files, Accept(ids) PROVE GrantedNow(ids, ui.of)
  BY <1>0, <1>1, <1>5
<1>6. \A g \in Items(granting') : GrantedNow(g.files, g.of)
  BY <1>0, <1>t, <1>3, <1>5 DEF AnswerSteps, ConsentInv
<1>7. \A t \in Items(tasks') : t.kind = "Decision" => GrantedNow(t.files, t.asked)
  <2>1. ASSUME NEW t \in Items(tasks'), t.kind = "Decision"
        PROVE  GrantedNow(t.files, t.asked)
    <3>1. CASE t \in Items(tasks)
      BY <1>t, <1>3, <2>1, <3>1 DEF ConsentInv
    <3>2. CASE t.files \in {{}, Declined}
      BY <1>4, <3>2
    <3>3. ASSUME NEW g \in Items(granting), t.files = g.files, t.asked = g.of
          PROVE  GrantedNow(t.files, t.asked)
      BY <1>t, <1>3, <3>3 DEF ConsentInv
    <3> QED
      BY <1>0, <2>1, <3>1, <3>2, <3>3 DEF AnswerSteps
  <2> QED
    BY <2>1
<1>8. \A p \in replies' : GrantedNow(p.files, p.asked)
  <2>1. ASSUME NEW p \in replies' PROVE GrantedNow(p.files, p.asked)
    <3>1. CASE p \in replies
      BY <1>t, <1>3, <3>1 DEF ConsentInv
    <3>2. ASSUME NEW t \in Items(tasks), t.kind = "Decision", p.files = t.files, p.asked = t.asked
          PROVE  GrantedNow(p.files, p.asked)
      BY <1>t, <1>3, <3>2 DEF ConsentInv
    <3> QED
      BY <1>0, <2>1, <3>1, <3>2 DEF AnswerSteps
  <2> QED
    BY <2>1
<1>g. \A r \in Requests : answers[r] \subseteq answers'[r] /\ answers[r] \subseteq Requests
  BY <1>0 DEF AnswerSteps
<1>9. ASSUME NEW r \in Requests, decision'[r] # <<>>
      PROVE  \E q \in answers'[r] : GrantedNow(decision'[r][1], q)
  <2>1. CASE decision'[r] = decision[r]
    <3>1. PICK q \in answers[r] : Granted(decision[r][1], q)
      BY <1>9, <2>1 DEF ConsentInv
    <3> QED
      BY <1>3, <1>g, <2>1, <3>1
  <2>2. ASSUME NEW p \in replies, decision'[r] = <<p.files>>, p.asked \in answers'[r]
        PROVE  \E q \in answers'[r] : GrantedNow(decision'[r][1], q)
    <3>1. decision'[r][1] = p.files
      BY <2>2
    <3>2. GrantedNow(p.files, p.asked)
      BY <1>t, <1>3 DEF ConsentInv
    <3> QED
      BY <2>2, <3>1, <3>2
  <2> QED
    BY <1>0, <2>1, <2>2 DEF AnswerSteps
<1>10. Consented'
  <2>f. \A u \in Uploads : u[1] \in Requests /\ u[2] \in Files
    BY DEF Uploads
  <2>1. ASSUME NEW u \in Uploads, up'[u] # "none"
        PROVE  u[2] \in Offered[u[1]] /\ \E q \in answers[u[1]] : u[2] \in consent[q]
    <3>1. CASE up[u] # "none"
      BY <3>1 DEF ConsentInv, Consented
    <3>2. CASE up[u] = "none"
      <4>1. PICK r \in Requests :
              /\ req[r] = "asking" /\ decision[r] # <<>>
              /\ up' = [v \in Uploads |->
                          IF v[1] = r /\ v[2] \in decision[r][1] \cap Offered[r]
                          THEN "pending" ELSE up[v]]
        <5>1. up' # up
          BY <2>1, <3>2
        <5>2. ASSUME NEW v \in Uploads, NEW st, up[v] # "none", up' = [up EXCEPT ![v] = st]
              PROVE  FALSE
          BY <1>0, <2>1, <3>2, <5>2
        <5>3. ASSUME NEW us, up' = Dropped(us) PROVE FALSE
          BY <2>1, <3>2, <5>3 DEF Dropped
        <5> QED
          BY <1>0, <5>1, <5>2, <5>3 DEF UpSteps
      <4>2. u[1] = r /\ u[2] \in decision[r][1] \cap Offered[r]
        BY <2>1, <3>2, <4>1
      <4>3. PICK q \in answers[r] : Granted(decision[r][1], q)
        BY <4>1 DEF ConsentInv
      <4> QED
        BY <2>f, <4>2, <4>3 DEF Granted
    <3> QED
      BY <3>1, <3>2
  <2>2. ASSUME NEW u \in Uploads, up'[u] # "none"
        PROVE  u[2] \in Offered[u[1]] /\ \E q \in answers'[u[1]] : u[2] \in consent'[q]
    <3>1. PICK q \in answers[u[1]] : u[2] \in consent[q]
      BY <2>1, <2>2
    <3> QED
      BY <1>2, <1>g, <2>1, <2>2, <2>f, <3>1
  <2> QED
    BY <2>2 DEF Consented
<1> QED
  BY <1>0, <1>6, <1>7, <1>8, <1>9, <1>10 DEF ConsentInv, Granted

-----------------------------------------------------------------------------
(* The report of a saved file, from the server to the page. *)

ShownInv ==
  /\ \A e \in Items(port) : e.kind = "Saved" => <<e.of, e.file>> \in saved
  /\ \A u \in Uploads : result[u] = "ok" => u \in saved
  /\ ShownIsTrue

PortActs ==
  \/ port' = port
  \/ \E u \in Uploads : PrepareFails(u) \/ RespondFileUpload(u)
                        \/ \E kept \in BOOLEAN : HandlerEnds(u, kept)
  \/ IsolatePrepareUpload \/ IsolateFileUpload \/ IsolateSessionEnd \/ IsolateAborted
  \/ port # <<>> /\ port' = Tail(port)

LEMMA PortActions == [Next]_vars => PortActs
<1> SUFFICES ASSUME [Next]_vars PROVE PortActs
  OBVIOUS
<1> USE DEF serverVars, bridgeVars, isolateVars, callVars, userVars, historyVars
<1>1. CASE UNCHANGED vars
  BY <1>1 DEF vars, PortActs
<1>2. ASSUME NEW r \in Requests,
             PrepareUpload(r) \/ AbortRequest(r) \/ SenderCancels(r) \/ TellAborted(r)
             \/ TakeDecision(r) \/ CancelSession(r) \/ OpenPage(r)
      PROVE  PortActs
  BY <1>2 DEF PrepareUpload, AbortRequest, SenderCancels, TellAborted, TakeDecision,
              CancelSession, OpenPage, PortActs
<1>3. ASSUME NEW u \in Uploads, StartUpload(u) \/ UploadBreaks(u)
             \/ UploadFails(u) \/ UploadSaved(u) \/ UploadMismatch(u) \/ Recorded(u)
      PROVE  PortActs
  BY <1>3 DEF StartUpload, UploadBreaks, UploadFails, UploadSaved, UploadMismatch,
              Recorded, PortActs
<1>4. ASSUME Listen \/ IsolateDecision \/ IsolateCancel
             \/ \E reply \in replies : RespondPrepareUpload(reply)
      PROVE  PortActs
  BY <1>4 DEF Listen, IsolateDecision, IsolateCancel, RespondPrepareUpload, PortActs
<1>5. ASSUME OnPrepareUpload \/ OnFileUpload \/ OnFailed \/ OnSaved \/ OnEnd PROVE PortActs
  BY <1>5 DEF OnPrepareUpload, OnFileUpload, OnFailed, OnSaved, OnEnd, Received, PortActs
<1>6. ASSUME (\E ids \in SUBSET Files : Accept(ids)) \/ Grant \/ Refuse({})
             \/ Refuse(Declined) \/ Whim
      PROVE  PortActs
  BY <1>6 DEF Accept, Grant, Refuse, Whim, UserCancels, UserCloses, PortActs
<1>7. CASE Sender
  BY <1>2, <1>3, <1>7 DEF Sender
<1>8. CASE Progress
  BY <1>2, <1>3, <1>4, <1>5, <1>6, <1>8 DEF Progress, PortActs
<1> QED
  BY <1>1, <1>6, <1>7, <1>8 DEF Next

\* A file is reported as saved only after the server learnt that it was.
LEMMA NextPort ==
  ASSUME AppType, [Next]_vars
  PROVE  \A e \in Items(port') : e.kind = "Saved" =>
           e \in Items(port) \/ \E u \in Uploads : result[u] = "ok" /\ <<e.of, e.file>> = u
<1>0. /\ port \in Seq(Messages) /\ sink \in Seq(Messages) /\ queued \subseteq Uploads
      /\ handlers \in [Uploads -> {"idle", "prepare", "wait"}]
  BY DEF AppType, QueueType, BridgeType
<1> DEFINE Goal == \A e \in Items(port') : e.kind = "Saved" =>
              e \in Items(port) \/ \E u \in Uploads : result[u] = "ok" /\ <<e.of, e.file>> = u
<1>1. ASSUME Items(port') \subseteq Items(port) PROVE Goal
  BY <1>1
<1>2. ASSUME NEW e \in Messages, e.kind # "Saved", port' = port \/ port' = Append(port, e)
      PROVE  Goal
  <2>1. Items(Append(port, e)) = Items(port) \cup {e}
    BY <1>0, MessageQueue
  <2> QED
    BY <1>2, <2>1
<1>3. ASSUME NEW u \in Uploads, NEW how \in FileKinds, HandlerOver(u, how),
             how = "Saved" => result[u] = "ok"
      PROVE  Goal
  <2>1. Items(port') \subseteq Items(port) \cup {FileMessage(how, u), FileMessage("FileUpload", u)}
    BY <1>0, <1>3, HandlerOverDoes
  <2>2. "FileUpload" \in FileKinds
    BY DEF FileKinds
  <2>3. /\ FileMessage(how, u).kind = how /\ FileMessage("FileUpload", u).kind = "FileUpload"
        /\ <<FileMessage(how, u).of, FileMessage(how, u).file>> = u
    BY <2>2, MessageFacts
  <2> QED
    BY <1>3, <2>1, <2>3
<1>4. ASSUME NEW u \in Uploads, PrepareFails(u) PROVE Goal
  BY <1>3, <1>4 DEF PrepareFails, FileKinds
<1>5. ASSUME NEW u \in Uploads, RespondFileUpload(u) PROVE Goal
  <2>1. port' = port \/ HandlerOver(u, "Failed")
    BY <1>5 DEF RespondFileUpload
  <2> QED
    BY <1>1, <1>3, <2>1 DEF FileKinds
<1>6. ASSUME NEW u \in Uploads, NEW kept \in BOOLEAN, HandlerEnds(u, kept) PROVE Goal
  <2>1. \/ HandlerOver(u, "Failed")
        \/ HandlerOver(u, "Saved") /\ result[u] = "ok"
    BY <1>6 DEF HandlerEnds
  <2> QED
    BY <1>3, <2>1 DEF FileKinds
<1>7. ASSUME IsolatePrepareUpload \/ IsolateSessionEnd \/ IsolateAborted PROVE Goal
  <2>1. /\ sink # <<>> /\ Head(sink).kind # "Saved"
        /\ port' = port \/ port' = Append(port, Head(sink))
    BY <1>7 DEF IsolatePrepareUpload, IsolateSessionEnd, IsolateAborted
  <2>2. Head(sink) \in Messages
    BY <1>0, <2>1, MessageQueue
  <2> QED
    BY <1>2, <2>1, <2>2
<1>8. ASSUME IsolateFileUpload PROVE Goal
  <2> DEFINE u == <<Head(sink).of, Head(sink).file>>
  <2>1. /\ sink # <<>> /\ Head(sink).kind = "FileUpload"
        /\ port' = port \/ port' = Append(port, FileMessage("FileUpload", u))
    BY <1>8 DEF IsolateFileUpload
  <2>2. u \in Uploads /\ "FileUpload" \in FileKinds
    BY <2>1, Fronts DEF FileKinds
  <2> HIDE DEF u
  <2>3. FileMessage("FileUpload", u) \in Messages /\ FileMessage("FileUpload", u).kind = "FileUpload"
    BY <2>2, MessageFacts
  <2> QED
    BY <1>2, <2>1, <2>3
<1>9. ASSUME port # <<>>, port' = Tail(port) PROVE Goal
  <2>1. Items(port') \subseteq Items(port)
    BY <1>0, <1>9, MessageQueue
  <2> QED
    BY <1>1, <2>1
<1> QED
  BY <1>1, <1>4, <1>5, <1>6, <1>7, <1>8, <1>9, PortActions DEF PortActs

\* What was saved stays so, and the server's word for it is true.
LEMMA NextSaved ==
  ASSUME AppType, [Next]_vars
  PROVE  /\ saved \subseteq saved'
         /\ \A u \in Uploads : result'[u] = "ok" => result[u] = "ok" \/ u \in saved'
<1>0. result \in [Uploads -> {"none", "ok", "failed"}]
  BY DEF AppType, ServerType
<1> USE DEF serverVars, bridgeVars, isolateVars, callVars, userVars, historyVars
<1> DEFINE Goal == /\ saved \subseteq saved'
                   /\ \A u \in Uploads : result'[u] = "ok" => result[u] = "ok" \/ u \in saved'
<1>1. ASSUME saved' = saved,
             result' = result \/ \E u \in Uploads, x \in {"none", "failed"} :
                                   result' = [result EXCEPT ![u] = x]
      PROVE  Goal
  BY <1>0, <1>1
<1>2. ASSUME NEW r \in Requests,
             PrepareUpload(r) \/ AbortRequest(r) \/ SenderCancels(r) \/ TellAborted(r)
             \/ TakeDecision(r) \/ CancelSession(r)
      PROVE  Goal
  BY <1>1, <1>2 DEF PrepareUpload, AbortRequest, SenderCancels, TellAborted, TakeDecision,
                    CancelSession
<1>3. ASSUME NEW u \in Uploads, StartUpload(u) \/ UploadBreaks(u) \/ UploadFails(u)
             \/ UploadMismatch(u) \/ PrepareFails(u) \/ RespondFileUpload(u)
      PROVE  Goal
  BY <1>1, <1>3 DEF StartUpload, UploadBreaks, UploadFails, UploadMismatch, PrepareFails,
                    RespondFileUpload
<1>4. ASSUME NEW u \in Uploads, UploadSaved(u) PROVE Goal
  BY <1>0, <1>4 DEF UploadSaved
<1>5. ASSUME Listen \/ \E reply \in replies : RespondPrepareUpload(reply) PROVE Goal
  BY <1>1, <1>5 DEF Listen, RespondPrepareUpload
<1> QED
  BY <1>1, <1>2, <1>3, <1>4, <1>5, ServerSteps DEF UploadSteps

LEMMA NextShown ==
  ASSUME AppType, ShownInv, [Next]_vars
  PROVE  ShownInv'
<1>1. /\ saved \subseteq saved'
      /\ \A u \in Uploads : result'[u] = "ok" => u \in saved'
  BY NextSaved DEF ShownInv
<1>2. \A e \in Items(port') : e.kind = "Saved" => <<e.of, e.file>> \in saved'
  BY <1>1, NextPort DEF ShownInv
<1>3. port # <<>> => Head(port) \in Items(port)
  <2>1. port \in Seq(Messages)
    BY DEF AppType, QueueType
  <2> QED
    BY <2>1, MessageQueue
<1>4. ShownSteps
  BY NextUser
<1>5. ShownIsTrue'
  BY <1>1, <1>3, <1>4 DEF ShownSteps, ShownInv, ShownIsTrue
<1> QED
  BY <1>1, <1>2, <1>5 DEF ShownInv

-----------------------------------------------------------------------------

AppInv == AppType /\ AttemptInv /\ PipeInv /\ ConsentInv /\ ShownInv

LEMMA InitApp == Init => AppInv
<1> SUFFICES ASSUME Init PROVE AppInv
  OBVIOUS
<1>1. AppType
  BY InitType
<1>2. AttemptInv
  BY ConstantsAssumption DEF Init, AttemptInv
<1>3. /\ events = <<>> /\ sink = <<>> /\ port = <<>> /\ tasks = <<>> /\ opening = <<>>
      /\ granting = <<>> /\ replies = {} /\ saved = {} /\ ui = Idle
      /\ consent = [r \in Requests |-> {}] /\ decision = [r \in Requests |-> <<>>]
      /\ up = [u \in Uploads |-> "none"] /\ result = [u \in Uploads |-> "none"]
      /\ shown = [u \in Uploads |-> "none"]
  BY DEF Init
<1>4. Items(<<>>) = {} /\ Once(<<>>) /\ Distinct(<<>>)
  BY DEF Items, Once, Distinct
<1>5. Prep(<<>>) = {}
  BY <1>4 DEF Prep
<1>6. PipeInv
  BY <1>3, <1>4, <1>5, UiFacts, RequestFacts DEF PipeInv, Pipe, QueuesOnce
<1>7. ConsentInv
  <2>1. answers = [r \in Requests |-> {}]
    BY DEF Init
  <2> QED
    BY <1>3, <1>4, <2>1 DEF ConsentInv, AnswersType, Consented
<1>8. ShownInv
  BY <1>3, <1>4 DEF ShownInv, ShownIsTrue
<1> QED
  BY <1>1, <1>2, <1>6, <1>7, <1>8 DEF AppInv

LEMMA NextApp ==
  ASSUME AppInv, [Next]_vars
  PROVE  AppInv'
<1>1. AppType /\ AttemptInv /\ PipeInv /\ ConsentInv /\ ShownInv /\ QueuesOnce
  BY DEF AppInv, PipeInv
<1>2. AppType' /\ AttemptInv'
  BY <1>1, NextServer, NextBridge, NextQueues, NextUser DEF AppType
<1> QED
  BY <1>1, <1>2, NextPipe, NextConsent, NextShown DEF AppInv

\* A file is received only if its request offered it and the user accepted its
\* ID in a request whose answer this one got, and is shown as received only if
\* it was saved: in receive_controller.dart, server_isolate.dart and
\* api/server.rs, whatever is on its way between them and whatever IDs the
\* senders give to their files.
THEOREM Accounted == Spec => []FilesAccountedFor
<1>2. AppInv => FilesAccountedFor
  <2> SUFFICES ASSUME AppInv PROVE FilesAccountedFor
    OBVIOUS
  <2>1. \A u \in Uploads : attempts[u] \in 0..MaxAttempts
    BY ConstantsAssumption DEF AppInv, AppType, ServerType, AttemptInv
  <2>2. attempts \in [Uploads -> 0..MaxAttempts]
    BY <2>1 DEF AppInv, AppType, ServerType
  <2>3. TypeOK
    BY <2>2 DEF AppInv, AppType, ServerType, BridgeType, UserType, RequestStates,
                UploadStates, TypeOK
  <2> QED
    BY <2>3 DEF AppInv, ConsentInv, ShownInv, FilesAccountedFor
<1> QED
  BY InitApp, NextApp, <1>2, PTL DEF Spec

-----------------------------------------------------------------------------
(* Uploads on their way from the server to the isolate.                     *)

\* The uploads a queue tells of, and that it tells of none twice.
Told(q) == {u \in Uploads : FileMessage("FileUpload", u) \in Items(q)}
Single(q) == \A i, j \in DOMAIN q : q[i].kind = "FileUpload" /\ q[i] = q[j] => i = j

\* Messages come and go at the ends of a queue.
LEMMA ToldQueue ==
  ASSUME NEW q \in Seq(Messages)
  PROVE  /\ \A e \in Messages :
              /\ e.kind # "FileUpload" => Told(Append(q, e)) = Told(q)
              /\ e.kind = "FileUpload" => Told(Append(q, e)) = Told(q) \cup {<<e.of, e.file>>}
              /\ Single(q) /\ (e.kind # "FileUpload" \/ <<e.of, e.file>> \notin Told(q)) =>
                   Single(Append(q, e))
         /\ q # <<>> /\ Single(q) =>
              /\ Single(Tail(q))
              /\ Head(q).kind # "FileUpload" => Told(Tail(q)) = Told(q)
              /\ Head(q).kind = "FileUpload" =>
                   /\ <<Head(q).of, Head(q).file>> \in Told(q)
                   /\ Told(Tail(q)) = Told(q) \ {<<Head(q).of, Head(q).file>>}
<1>0. /\ \A u \in Uploads : FileMessage("FileUpload", u).kind = "FileUpload"
                            /\ <<FileMessage("FileUpload", u).of, FileMessage("FileUpload", u).file>> = u
      /\ \A e \in Messages : e.kind = "FileUpload" =>
           <<e.of, e.file>> \in Uploads /\ e = FileMessage("FileUpload", <<e.of, e.file>>)
  <2>1. "FileUpload" \in FileKinds /\ "FileUpload" \notin PlainKinds
    BY DEF FileKinds, PlainKinds
  <2>2. ASSUME NEW e \in Messages, e.kind = "FileUpload"
        PROVE  <<e.of, e.file>> \in Uploads /\ e = FileMessage("FileUpload", <<e.of, e.file>>)
    <3>1. e \in [kind : FileKinds, of : Requests, file : Files]
      BY <2>1, <2>2 DEF Messages
    <3> QED
      BY <2>2, <3>1 DEF Uploads, FileMessage
  <2> QED
    BY <2>1, <2>2, MessageFacts
<1>1. ASSUME NEW e \in Messages
      PROVE  /\ e.kind # "FileUpload" => Told(Append(q, e)) = Told(q)
             /\ e.kind = "FileUpload" => Told(Append(q, e)) = Told(q) \cup {<<e.of, e.file>>}
             /\ Single(q) /\ (e.kind # "FileUpload" \/ <<e.of, e.file>> \notin Told(q)) =>
                  Single(Append(q, e))
  <2>1. Items(Append(q, e)) = Items(q) \cup {e}
    BY MessageQueue
  <2>2. ASSUME e.kind # "FileUpload" PROVE Told(Append(q, e)) = Told(q)
    BY <1>0, <2>1, <2>2 DEF Told
  <2>3. ASSUME e.kind = "FileUpload" PROVE Told(Append(q, e)) = Told(q) \cup {<<e.of, e.file>>}
    BY <1>0, <2>1, <2>3 DEF Told
  <2>4. ASSUME Single(q), e.kind # "FileUpload" \/ <<e.of, e.file>> \notin Told(q)
        PROVE  Single(Append(q, e))
    <3>1. /\ Len(q) \in Nat /\ DOMAIN q = 1..Len(q) /\ DOMAIN Append(q, e) = 1..(Len(q) + 1)
          /\ \A i \in 1..Len(q) : Append(q, e)[i] = q[i]
          /\ Append(q, e)[Len(q) + 1] = e
      OBVIOUS
    <3>2. \A i \in DOMAIN Append(q, e) : i \in 1..Len(q) \/ i = Len(q) + 1
      BY <3>1
    <3>3. e.kind # "FileUpload" \/ e \notin Items(q)
      BY <1>0, <2>4 DEF Told
    <3> QED
      BY <2>4, <3>1, <3>2, <3>3 DEF Items, Single
  <2> QED
    BY <2>2, <2>3, <2>4
<1>2. ASSUME q # <<>>, Single(q)
      PROVE  /\ Single(Tail(q))
             /\ Head(q).kind # "FileUpload" => Told(Tail(q)) = Told(q)
             /\ Head(q).kind = "FileUpload" =>
                  /\ <<Head(q).of, Head(q).file>> \in Told(q)
                  /\ Told(Tail(q)) = Told(q) \ {<<Head(q).of, Head(q).file>>}
  <2>1. /\ Head(q) \in Messages /\ Tail(q) \in Seq(Messages) /\ Len(q) \in Nat \ {0}
        /\ DOMAIN q = 1..Len(q) /\ DOMAIN Tail(q) = 1..(Len(q) - 1)
        /\ \A i \in 1..(Len(q) - 1) : Tail(q)[i] = q[i + 1]
        /\ Head(q) = q[1]
    BY <1>2
  <2>2. Items(q) = Items(Tail(q)) \cup {Head(q)}
    BY <1>2, MessageQueue
  <2>3. Single(Tail(q))
    <3> SUFFICES ASSUME NEW i \in DOMAIN Tail(q), NEW j \in DOMAIN Tail(q),
                        Tail(q)[i].kind = "FileUpload", Tail(q)[i] = Tail(q)[j]
                 PROVE  i = j
      BY DEF Single
    <3>1. /\ i + 1 \in DOMAIN q /\ j + 1 \in DOMAIN q
          /\ q[i + 1] = Tail(q)[i] /\ q[j + 1] = Tail(q)[j]
      BY <2>1
    <3>2. i + 1 = j + 1
      BY <1>2, <3>1 DEF Single
    <3> QED
      BY <2>1, <3>2
  <2>4. ASSUME Head(q).kind = "FileUpload", Head(q) \in Items(Tail(q)) PROVE FALSE
    <3>1. PICK i \in 1..(Len(q) - 1) : Head(q) = q[i + 1]
      BY <2>1, <2>4 DEF Items
    <3>2. 1 \in DOMAIN q /\ i + 1 \in DOMAIN q
      BY <2>1, <3>1
    <3>3. 1 = i + 1
      BY <1>2, <2>1, <2>4, <3>1, <3>2 DEF Single
    <3> QED
      BY <3>3, <2>1
  <2>5. ASSUME Head(q).kind # "FileUpload" PROVE Told(Tail(q)) = Told(q)
    BY <1>0, <2>2, <2>5 DEF Told
  <2>6. ASSUME Head(q).kind = "FileUpload"
        PROVE  /\ <<Head(q).of, Head(q).file>> \in Told(q)
               /\ Told(Tail(q)) = Told(q) \ {<<Head(q).of, Head(q).file>>}
    BY <1>0, <2>1, <2>2, <2>4, <2>6 DEF Told
  <2> QED
    BY <2>3, <2>5, <2>6
<1> QED
  BY <1>1, <1>2

\* How a file of the server gets into each of its states.
UpMove(u) ==
  \/ /\ TakeDecision(u[1]) /\ up'[u] = "pending"
     /\ u[2] \in decision[u[1]][1] \cap Offered[u[1]] /\ req'[u[1]] = "active"
  \/ up[u] = "writing" /\ up'[u] = "pending"
  \/ StartUpload(u) /\ up[u] = "pending" /\ up'[u] = "waiting"
  \/ /\ RespondFileUpload(u) /\ up[u] = "waiting" /\ up'[u] = "writing"
     /\ u \in responders /\ handlers[u] = "prepare"
  \/ up[u] # "none" /\ up'[u] \in {"finished", "failed", "dropped"}

LEMMA UpMoves ==
  ASSUME AppType, [Next]_vars, NEW u \in Uploads, up'[u] # up[u]
  PROVE  UpMove(u)
<1>0. /\ up \in [Uploads -> UploadStates] /\ req \in [Requests -> RequestStates]
      /\ u[1] \in Requests
  BY DEF AppType, ServerType, Uploads
<1> USE DEF serverVars, bridgeVars, isolateVars, callVars, userVars, historyVars
<1>1. CASE UNCHANGED <<serverVars, result, saved>>
  BY <1>1
<1>2. ASSUME NEW r \in Requests,
             PrepareUpload(r) \/ AbortRequest(r) \/ SenderCancels(r) \/ TellAborted(r)
      PROVE  FALSE
  BY <1>2 DEF PrepareUpload, AbortRequest, SenderCancels, TellAborted
<1>3. ASSUME NEW r \in Requests, TakeDecision(r) PROVE UpMove(u)
  <2> DEFINE files == decision[r][1] \cap Offered[r]
  <2>1. /\ files # {} /\ req' = [req EXCEPT ![r] = "active"]
        /\ up' = [v \in Uploads |-> IF v[1] = r /\ v[2] \in files THEN "pending" ELSE up[v]]
    <3>1. CASE files = {}
      BY <1>3, <3>1 DEF TakeDecision
    <3> QED
      BY <1>3, <3>1 DEF TakeDecision
  <2>2. u[1] = r /\ u[2] \in files /\ up'[u] = "pending"
    BY <2>1
  <2> QED
    BY <1>0, <1>3, <2>1, <2>2 DEF UpMove
\* Uploads that wait notice that their responders are dropped.
<1>4. ASSUME NEW us, up' = Dropped(us) PROVE UpMove(u)
  <2>1. up[u] = "waiting" /\ up'[u] = "dropped"
    BY <1>4, DroppedType DEF AppType
  <2> QED
    BY <2>1 DEF UpMove
<1>5. ASSUME Listen \/ \E r \in Requests : CancelSession(r) PROVE UpMove(u)
  BY <1>4, <1>5 DEF Listen, CancelSession
<1>6. ASSUME NEW reply \in replies, RespondPrepareUpload(reply) PROVE FALSE
  BY <1>6 DEF RespondPrepareUpload
\* Steps of one upload.
<1>7. ASSUME NEW v \in Uploads, NEW st, up' = [up EXCEPT ![v] = st] PROVE v = u /\ up'[u] = st
  BY <1>0, <1>7
<1>8. ASSUME NEW v \in Uploads, StartUpload(v) PROVE UpMove(u)
  <2>1. v = u /\ up'[u] = "waiting" /\ up[u] = "pending"
    BY <1>7, <1>8 DEF StartUpload
  <2> QED
    BY <1>8, <2>1 DEF UpMove
<1>9. ASSUME NEW v \in Uploads, UploadBreaks(v) \/ UploadFails(v) \/ UploadSaved(v)
      PROVE  UpMove(u)
  <2>1. PICK st \in {"finished", "failed"} : Finalize(v, st)
    BY <1>9 DEF UploadBreaks, UploadFails, UploadSaved
  <2>2. up' = [up EXCEPT ![v] = st]
    BY <2>1, FinalizeDoes
  <2>3. v = u /\ up'[u] = st
    BY <1>7, <2>2
  <2>4. up[v] # "none"
    BY <1>9 DEF UploadBreaks, UploadFails, UploadSaved
  <2> QED
    BY <2>3, <2>4 DEF UpMove
<1>10. ASSUME NEW v \in Uploads, UploadMismatch(v) PROVE UpMove(u)
  <2>1. PICK st \in {"pending", "failed"} : Finalize(v, st)
    <3>1. Finalize(v, IF attempts[v] < MaxAttempts THEN "pending" ELSE "failed")
      BY <1>10 DEF UploadMismatch
    <3> QED
      BY <3>1
  <2>2. up' = [up EXCEPT ![v] = st]
    BY <2>1, FinalizeDoes
  <2>3. v = u /\ up'[u] = st
    BY <1>7, <2>2
  <2>4. up[v] = "writing"
    BY <1>10 DEF UploadMismatch
  <2> QED
    BY <2>3, <2>4 DEF UpMove
<1>11. ASSUME NEW v \in Uploads, PrepareFails(v) PROVE UpMove(u)
  BY <1>4, <1>11 DEF PrepareFails
<1>12. ASSUME NEW v \in Uploads, RespondFileUpload(v) PROVE UpMove(u)
  <2>1. /\ up' = [up EXCEPT ![v] = "writing"]
        /\ v \in responders /\ up[v] = "waiting" /\ handlers[v] = "prepare"
    BY <1>12 DEF RespondFileUpload
  <2>2. v = u /\ up'[u] = "writing"
    BY <1>7, <2>1
  <2> QED
    BY <1>12, <2>1, <2>2 DEF UpMove
<1> QED
  BY <1>1, <1>2, <1>3, <1>5, <1>6, <1>8, <1>9, <1>10, <1>11, <1>12, ServerSteps DEF UploadSteps

\* No handler is about to answer the upload, nor will one be before its sender
\* tries again.
Shut(u) == u \notin queued /\ handlers[u] # "prepare"

\* Each attempt is told of once, and handled after that: while its responder
\* waits for the bridge no handler of its file asks for a target.
FlowInv ==
  /\ Single(events) /\ Single(sink) /\ Told(events) \cap Told(sink) = {}
  /\ \A u \in Uploads :
       /\ u \in Told(events) \cup Told(sink) =>
            Shut(u) /\ up[u] \notin {"none", "pending", "writing"}
       /\ up[u] \in {"none", "pending", "writing"} => Shut(u)
       /\ handlers[u] = "prepare" => u \notin queued
       /\ req[u[1]] \in {"new", "asking"} => up[u] = "none"

FlowActs ==
  \/ UNCHANGED <<events, sink, handlers, queued>>
  \/ \E r \in Requests : PrepareUpload(r) \/ TellAborted(r) \/ SenderCancels(r)
  \/ \E u \in Uploads : StartUpload(u) \/ UploadBreaks(u) \/ UploadFails(u)
                        \/ UploadSaved(u) \/ UploadMismatch(u)
                        \/ PrepareFails(u) \/ RespondFileUpload(u)
                        \/ \E kept \in BOOLEAN : HandlerEnds(u, kept)
  \/ Listen
  \/ IsolatePrepareUpload \/ IsolateFileUpload \/ IsolateSessionEnd \/ IsolateAborted

LEMMA FlowActions == [Next]_vars => FlowActs
<1> SUFFICES ASSUME [Next]_vars PROVE FlowActs
  OBVIOUS
<1> USE DEF serverVars, bridgeVars, isolateVars, callVars, userVars, historyVars
<1>1. CASE UNCHANGED vars
  BY <1>1 DEF vars, FlowActs
<1>2. ASSUME NEW r \in Requests,
             AbortRequest(r) \/ TakeDecision(r) \/ CancelSession(r) \/ OpenPage(r)
      PROVE  FlowActs
  BY <1>2 DEF AbortRequest, TakeDecision, CancelSession, OpenPage, FlowActs
<1>3. ASSUME NEW u \in Uploads, Recorded(u) PROVE FlowActs
  BY <1>3 DEF Recorded, FlowActs
<1>4. ASSUME IsolateDecision \/ IsolateCancel \/ \E reply \in replies : RespondPrepareUpload(reply)
      PROVE  FlowActs
  BY <1>4 DEF IsolateDecision, IsolateCancel, RespondPrepareUpload, FlowActs
<1>5. ASSUME OnPrepareUpload \/ OnFileUpload \/ OnFailed \/ OnSaved \/ OnEnd PROVE FlowActs
  BY <1>5 DEF OnPrepareUpload, OnFileUpload, OnFailed, OnSaved, OnEnd, FlowActs
<1>6. ASSUME (\E ids \in SUBSET Files : Accept(ids)) \/ Grant \/ Refuse({})
             \/ Refuse(Declined) \/ Whim
      PROVE  FlowActs
  BY <1>6 DEF Accept, Grant, Refuse, Whim, UserCancels, UserCloses, FlowActs
<1>7. CASE Sender
  BY <1>2, <1>7 DEF Sender, FlowActs
<1>8. CASE Progress
  BY <1>2, <1>3, <1>4, <1>5, <1>6, <1>8 DEF Progress, FlowActs
<1> QED
  BY <1>1, <1>6, <1>7, <1>8 DEF Next

\* A queue that tells of the same uploads.
SameTold(q, q1) == Told(q1) = Told(q) /\ (Single(q) => Single(q1))

\* What a step does to the uploads that are on their way.
FlowSteps ==
  \/ SameTold(events, events') /\ SameTold(sink, sink') /\ UNCHANGED <<handlers, queued>>
  \/ \E u \in Uploads :
       \/ StartUpload(u)
       \/ /\ SameTold(events, events') /\ SameTold(sink, sink')
          /\ PrepareFails(u) \/ RespondFileUpload(u) \/ \E kept \in BOOLEAN : HandlerEnds(u, kept)
  \/ Listen /\ Head(events).kind = "FileUpload"
  \/ IsolateFileUpload

LEMMA FlowDoes ==
  ASSUME AppType, Single(events), Single(sink), [Next]_vars
  PROVE  FlowSteps
<1>0. events \in Seq(Messages) /\ sink \in Seq(Messages)
  BY DEF AppType, QueueType
<1> USE DEF serverVars, bridgeVars, isolateVars, callVars, userVars, historyVars
<1>s. \A q : SameTold(q, q)
  BY DEF SameTold
<1>1. CASE UNCHANGED <<events, sink, handlers, queued>>
  BY <1>1, <1>s DEF FlowSteps
\* A message of another kind is sent.
<1>2. ASSUME NEW k \in PlainKinds, NEW r \in Requests,
             events' = events \/ events' = Append(events, Message(k, r)),
             UNCHANGED <<sink, handlers, queued>>
      PROVE  FlowSteps
  <2>1. Message(k, r) \in Messages /\ Message(k, r).kind # "FileUpload"
    BY <1>2, MessageFacts DEF PlainKinds
  <2>2. SameTold(events, events')
    BY <1>0, <1>2, <1>s, <2>1, ToldQueue DEF SameTold
  <2> QED
    BY <1>2, <1>s, <2>2 DEF FlowSteps
<1>3. ASSUME NEW r \in Requests, PrepareUpload(r) \/ TellAborted(r) \/ SenderCancels(r)
      PROVE  FlowSteps
  <2>1. \E k \in PlainKinds : events' = Append(events, Message(k, r))
    BY <1>3 DEF PrepareUpload, TellAborted, SenderCancels, PlainKinds
  <2>2. UNCHANGED <<sink, handlers, queued>>
    BY <1>3 DEF PrepareUpload, TellAborted, SenderCancels
  <2> QED
    BY <1>2, <2>1, <2>2
<1>4. ASSUME NEW u \in Uploads,
             UploadBreaks(u) \/ UploadFails(u) \/ UploadSaved(u) \/ UploadMismatch(u)
      PROVE  FlowSteps
  <2>1. \E st : Finalize(u, st)
    BY <1>4 DEF UploadBreaks, UploadFails, UploadSaved, UploadMismatch
  <2>2. UNCHANGED <<sink, handlers, queued>>
    BY <1>4 DEF UploadBreaks, UploadFails, UploadSaved, UploadMismatch
  <2>3. events' = events \/ events' = Append(events, Message("SessionFinished", u[1]))
    BY <2>1, FinalizeDoes
  <2>4. u[1] \in Requests /\ "SessionFinished" \in PlainKinds
    BY DEF Uploads, PlainKinds
  <2> QED
    BY <1>2, <2>2, <2>3, <2>4
<1>5. ASSUME NEW u \in Uploads,
             PrepareFails(u) \/ RespondFileUpload(u) \/ \E kept \in BOOLEAN : HandlerEnds(u, kept)
      PROVE  FlowSteps
  <2>1. events' = events /\ sink' = sink
    BY <1>5 DEF PrepareFails, RespondFileUpload, HandlerEnds
  <2>2. SameTold(events, events') /\ SameTold(sink, sink')
    BY <1>s, <2>1
  <2> QED
    BY <1>5, <2>2 DEF FlowSteps
<1>6. ASSUME Listen, Head(events).kind # "FileUpload" PROVE FlowSteps
  <2>1. /\ events # <<>> /\ events' = Tail(events) /\ sink' = Append(sink, Head(events))
        /\ UNCHANGED <<handlers, queued>>
    BY <1>6 DEF Listen
  <2>2. Head(events) \in Messages
    BY <1>0, <2>1, MessageQueue
  <2>3. SameTold(events, events') /\ SameTold(sink, sink')
    BY <1>0, <1>6, <2>1, <2>2, ToldQueue DEF SameTold
  <2> QED
    BY <2>1, <2>3 DEF FlowSteps
<1>7. ASSUME IsolatePrepareUpload \/ IsolateSessionEnd \/ IsolateAborted PROVE FlowSteps
  <2>1. /\ sink # <<>> /\ Head(sink).kind # "FileUpload" /\ sink' = Tail(sink)
        /\ UNCHANGED <<events, handlers, queued>>
    BY <1>7 DEF IsolatePrepareUpload, IsolateSessionEnd, IsolateAborted, Taken
  <2>2. SameTold(sink, sink')
    BY <1>0, <2>1, ToldQueue DEF SameTold
  <2> QED
    BY <1>s, <2>1, <2>2 DEF FlowSteps
<1>8. ASSUME (\E u \in Uploads : StartUpload(u)) \/ IsolateFileUpload
             \/ (Listen /\ Head(events).kind = "FileUpload")
      PROVE  FlowSteps
  BY <1>8 DEF FlowSteps
<1> QED
  BY <1>1, <1>3, <1>4, <1>5, <1>6, <1>7, <1>8, FlowActions DEF FlowActs

\* A request without an answer had none before.
LEMMA StillUnanswered ==
  ASSUME AppType, [Next]_vars, NEW r \in Requests, req'[r] \in {"new", "asking"}
  PROVE  req[r] \in {"new", "asking"}
<1>0. req \in [Requests -> RequestStates]
  BY DEF AppType, ServerType
<1> USE DEF serverVars, bridgeVars, isolateVars, callVars, userVars, historyVars
<1>2. ASSUME NEW q, req' = [req EXCEPT ![q] = "active"] \/ req' = [req EXCEPT ![q] = "over"]
      PROVE  req[r] \in {"new", "asking"}
  BY <1>0, <1>2
<1>3. ASSUME NEW q \in Requests, PrepareUpload(q) PROVE req[r] \in {"new", "asking"}
  <2>1. req[q] = "new" /\ req' = [req EXCEPT ![q] = "asking"]
    BY <1>3 DEF PrepareUpload
  <2> QED
    BY <1>0, <2>1
<1>4. ASSUME NEW q \in Requests, AbortRequest(q) PROVE req[r] \in {"new", "asking"}
  <2>1. req[q] = "asking" /\ req' = [req EXCEPT ![q] = "aborted"]
    BY <1>4 DEF AbortRequest
  <2> QED
    BY <1>0, <2>1
<1>5. ASSUME NEW q \in Requests, SenderCancels(q) \/ TellAborted(q) PROVE req[r] \in {"new", "asking"}
  BY <1>2, <1>5 DEF SenderCancels, TellAborted
<1>6. ASSUME NEW q \in Requests, TakeDecision(q) PROVE req[r] \in {"new", "asking"}
  <2>1. req' = [req EXCEPT ![q] = "active"] \/ req' = [req EXCEPT ![q] = "over"]
    BY <1>6 DEF TakeDecision
  <2> QED
    BY <1>2, <2>1
<1>7. ASSUME NEW q \in Requests, CancelSession(q) PROVE req[r] \in {"new", "asking"}
  <2>1. req' = req \/ req' = [req EXCEPT ![q] = "over"]
    BY <1>7 DEF CancelSession
  <2>2. CASE req' = req
    BY <2>2
  <2> QED
    BY <1>2, <2>1, <2>2
<1>8. ASSUME NEW u \in Uploads, NEW st, Finalize(u, st) PROVE req[r] \in {"new", "asking"}
  <2>1. req' = req \/ req' = [req EXCEPT ![u[1]] = "over"]
    BY <1>8, FinalizeDoes
  <2>2. CASE req' = req
    BY <2>2
  <2> QED
    BY <1>2, <2>1, <2>2
<1>9. ASSUME NEW u \in Uploads,
             UploadBreaks(u) \/ UploadFails(u) \/ UploadSaved(u) \/ UploadMismatch(u)
      PROVE  req[r] \in {"new", "asking"}
  BY <1>8, <1>9 DEF UploadBreaks, UploadFails, UploadSaved, UploadMismatch
<1>10. CASE req' = req
  BY <1>10
<1>11. ASSUME NEW u \in Uploads, StartUpload(u) \/ PrepareFails(u) \/ RespondFileUpload(u)
       PROVE  req' = req
  BY <1>11 DEF StartUpload, PrepareFails, RespondFileUpload
<1>12. ASSUME Listen \/ (\E reply \in replies : RespondPrepareUpload(reply))
              \/ UNCHANGED <<serverVars, result, saved>>
       PROVE  req' = req
  BY <1>12 DEF Listen, RespondPrepareUpload
<1> QED
  BY <1>3, <1>4, <1>5, <1>6, <1>7, <1>9, <1>10, <1>11, <1>12, ServerSteps DEF UploadSteps

LEMMA NextFlow ==
  ASSUME AppType, FlowInv, [Next]_vars
  PROVE  FlowInv'
<1>0. /\ events \in Seq(Messages) /\ sink \in Seq(Messages) /\ queued \subseteq Uploads
      /\ up \in [Uploads -> UploadStates] /\ req \in [Requests -> RequestStates]
      /\ handlers \in [Uploads -> {"idle", "prepare", "wait"}]
      /\ FlowSteps /\ \A u \in Uploads : u[1] \in Requests
  BY FlowDoes DEF AppType, ServerType, BridgeType, QueueType, FlowInv, Uploads
<1> USE DEF serverVars, bridgeVars, isolateVars, callVars, userVars, historyVars
\* A request that has no answer, or none yet, has no files.
<1>1. ASSUME NEW u \in Uploads, req'[u[1]] \in {"new", "asking"} PROVE up'[u] = "none"
  <2>1. req[u[1]] \in {"new", "asking"}
    BY <1>0, <1>1, StillUnanswered
  <2>2. up[u] = "none"
    BY <2>1 DEF FlowInv
  <2>3. CASE up'[u] # up[u]
    <3>1. UpMove(u)
      BY <2>3, UpMoves
    <3> QED
      BY <1>1, <2>2, <3>1 DEF UpMove
  <2> QED
    BY <2>2, <2>3
\* A file that is not told of, and that no handler is busy with, is so before.
<1>2. ASSUME NEW u \in Uploads, up'[u] \in {"none", "pending"}
      PROVE  up[u] \in {"none", "pending", "writing"}
  <2>1. CASE up'[u] # up[u]
    <3>1. UpMove(u)
      BY <2>1, UpMoves
    <3>2. TakeDecision(u[1]) => req[u[1]] = "asking"
      BY DEF TakeDecision
    <3> QED
      BY <1>2, <3>1, <3>2 DEF UpMove, FlowInv
  <2> QED
    BY <1>2, <2>1
<1>3. ASSUME NEW u \in Uploads, up'[u] = "writing"
      PROVE  up[u] = "writing" \/ (RespondFileUpload(u) /\ up[u] = "waiting" /\ handlers[u] = "prepare"
                                   /\ handlers'[u] = "wait" /\ queued' = queued)
  <2>1. CASE up'[u] # up[u]
    <3>1. UpMove(u)
      BY <2>1, UpMoves
    <3>2. RespondFileUpload(u) /\ up[u] = "waiting" /\ u \in responders /\ handlers[u] = "prepare"
      BY <1>3, <3>1 DEF UpMove
    <3>3. handlers' = [handlers EXCEPT ![u] = "wait"] /\ queued' = queued
      BY <3>2 DEF RespondFileUpload
    <3> QED
      BY <1>0, <3>2, <3>3
  <2> QED
    BY <1>3, <2>1
<1> DEFINE Goal == /\ Single(events') /\ Single(sink') /\ Told(events') \cap Told(sink') = {}
                   /\ \A u \in Uploads :
                        /\ u \in Told(events') \cup Told(sink') =>
                             Shut(u)' /\ up'[u] \notin {"none", "pending", "writing"}
                        /\ up'[u] \in {"none", "pending", "writing"} => Shut(u)'
                        /\ handlers'[u] = "prepare" => u \notin queued'
<1>4. ASSUME SameTold(events, events'), SameTold(sink, sink'), UNCHANGED <<handlers, queued>>
      PROVE  Goal
  <2>1. \A u \in Uploads : Shut(u)' = Shut(u)
    BY <1>4 DEF Shut
  <2>2. /\ Single(events') /\ Single(sink')
        /\ Told(events') = Told(events) /\ Told(sink') = Told(sink)
    BY <1>4 DEF SameTold, FlowInv
  <2>3. ASSUME NEW u \in Uploads, up'[u] \in {"none", "pending", "writing"}
        PROVE  up[u] \in {"none", "pending", "writing"}
    <3>1. CASE up'[u] = "writing"
      BY <1>0, <1>3, <1>4, <3>1
    <3> QED
      BY <1>2, <2>3, <3>1
  <2> QED
    BY <1>4, <2>1, <2>2, <2>3 DEF FlowInv
<1>5. ASSUME NEW v \in Uploads, StartUpload(v) PROVE Goal
  <2> DEFINE e == FileMessage("FileUpload", v)
  <2>1. /\ up[v] = "pending" /\ up' = [up EXCEPT ![v] = "waiting"]
        /\ events' = Append(events, e) /\ UNCHANGED <<sink, handlers, queued>>
    BY <1>5 DEF StartUpload
  <2>2. e \in Messages /\ e.kind = "FileUpload" /\ <<e.of, e.file>> = v
    BY MessageFacts DEF FileKinds
  <2> HIDE DEF e
  <2>3. v \notin Told(events) \cup Told(sink) /\ Shut(v)
    BY <2>1 DEF FlowInv
  <2>4. Single(events') /\ Told(events') = Told(events) \cup {v}
    BY <1>0, <2>1, <2>2, <2>3, ToldQueue DEF FlowInv
  <2>5. \A u \in Uploads : Shut(u)' = Shut(u)
    BY <2>1 DEF Shut
  <2>6. up'[v] = "waiting" /\ \A u \in Uploads : u # v => up'[u] = up[u]
    BY <1>0, <2>1
  <2> QED
    BY <2>1, <2>3, <2>4, <2>5, <2>6 DEF FlowInv
\* A handler ends, or its upload gets its target.
<1>6. ASSUME NEW v \in Uploads, SameTold(events, events'), SameTold(sink, sink'),
             PrepareFails(v) \/ RespondFileUpload(v) \/ \E kept \in BOOLEAN : HandlerEnds(v, kept)
      PROVE  Goal
  <2>1. /\ Single(events') /\ Single(sink')
        /\ Told(events') = Told(events) /\ Told(sink') = Told(sink)
    BY <1>6 DEF SameTold, FlowInv
  <2>2. \/ /\ \E how : HandlerOver(v, how)
           /\ up' = up \/ up' = Dropped(responders \cap {v})
        \/ /\ handlers[v] = "prepare" /\ up[v] = "waiting" /\ up' = [up EXCEPT ![v] = "writing"]
           /\ handlers' = [handlers EXCEPT ![v] = "wait"] /\ queued' = queued
    BY <1>6 DEF PrepareFails, RespondFileUpload, HandlerEnds
  <2>3. CASE /\ handlers[v] = "prepare" /\ up[v] = "waiting" /\ up' = [up EXCEPT ![v] = "writing"]
             /\ handlers' = [handlers EXCEPT ![v] = "wait"] /\ queued' = queued
    <3>1. v \notin Told(events) \cup Told(sink) /\ v \notin queued
      BY <2>3 DEF FlowInv, Shut
    <3>2. /\ handlers'[v] = "wait" /\ up'[v] = "writing"
          /\ \A u \in Uploads : u # v => up'[u] = up[u] /\ handlers'[u] = handlers[u]
      BY <1>0, <2>3
    <3>3. Shut(v)' /\ \A u \in Uploads : u # v => Shut(u)' = Shut(u)
      BY <2>3, <3>1, <3>2 DEF Shut
    <3> QED
      BY <2>1, <2>3, <3>1, <3>2, <3>3 DEF FlowInv
  <2>4. CASE /\ \E how : HandlerOver(v, how)
             /\ up' = up \/ up' = Dropped(responders \cap {v})
    <3>1. \/ /\ v \in queued /\ handlers' = [handlers EXCEPT ![v] = "prepare"] /\ queued' = queued \ {v}
          \/ /\ v \notin queued /\ handlers' = [handlers EXCEPT ![v] = "idle"] /\ queued' = queued
      BY <2>4 DEF HandlerOver
    <3>2. \A u \in Uploads : u # v => handlers'[u] = handlers[u] /\ (u \in queued' <=> u \in queued)
      BY <1>0, <3>1
    <3>3. handlers'[v] = "prepare" => v \in queued
      BY <1>0, <3>1
    <3>4. v \notin queued'
      BY <3>1
    <3>5. \A u \in Uploads : up'[u] = up[u] \/ (up'[u] = "dropped" /\ up[u] = "waiting")
      <4>1. CASE up' = up
        BY <4>1
      <4>2. CASE up' = Dropped(responders \cap {v})
        BY <4>2, DroppedType DEF AppType
      <4> QED
        BY <2>4, <4>1, <4>2
    <3>6. \A u \in Uploads : Shut(u) => Shut(u)'
      BY <3>2, <3>3, <3>4 DEF Shut
    <3>7. \A u \in Uploads : handlers'[u] = "prepare" => u \notin queued'
      BY <3>2, <3>4 DEF FlowInv
    <3> QED
      BY <2>1, <3>5, <3>6, <3>7 DEF FlowInv
  <2> QED
    BY <2>2, <2>3, <2>4
<1>7. ASSUME Listen, Head(events).kind = "FileUpload" PROVE Goal
  <2> DEFINE e == Head(events)
             v == <<e.of, e.file>>
  <2>1. /\ events # <<>> /\ events' = Tail(events) /\ sink' = Append(sink, e)
        /\ UNCHANGED <<handlers, queued>> /\ up' = up
    BY <1>7 DEF Listen
  <2>2. e \in Messages /\ v \in Uploads
    BY <1>0, <1>7, <2>1, MessageQueue, Fronts
  <2>3. v \in Told(events) /\ Single(events') /\ Told(events') = Told(events) \ {v}
    BY <1>0, <1>7, <2>1, ToldQueue DEF FlowInv
  <2>4. v \notin Told(sink)
    BY <2>3 DEF FlowInv
  <2>5. Single(sink') /\ Told(sink') = Told(sink) \cup {v}
    BY <1>0, <1>7, <2>1, <2>2, <2>4, ToldQueue DEF FlowInv
  <2> HIDE DEF v, e
  <2>6. \A u \in Uploads : Shut(u)' = Shut(u)
    BY <2>1 DEF Shut
  <2> QED
    BY <2>1, <2>2, <2>3, <2>4, <2>5, <2>6 DEF FlowInv
<1>8. ASSUME IsolateFileUpload PROVE Goal
  <2> DEFINE e == Head(sink)
             v == <<e.of, e.file>>
  <2>1. /\ sink # <<>> /\ e.kind = "FileUpload" /\ sink' = Tail(sink) /\ UNCHANGED <<events, up>>
        /\ \/ UNCHANGED <<handlers, queued>>
           \/ handlers[v] = "idle" /\ handlers' = [handlers EXCEPT ![v] = "prepare"] /\ queued' = queued
           \/ handlers[v] # "idle" /\ handlers' = handlers /\ queued' = queued \cup {v}
    BY <1>8 DEF IsolateFileUpload, Taken
  <2>2. v \in Uploads
    BY <2>1, Fronts
  <2>3. v \in Told(sink) /\ Single(sink') /\ Told(sink') = Told(sink) \ {v}
    BY <1>0, <2>1, ToldQueue DEF FlowInv
  <2> HIDE DEF v, e
  <2>4. Shut(v) /\ up[v] \notin {"none", "pending", "writing"} /\ v \notin Told(events)
    BY <2>2, <2>3 DEF FlowInv
  <2>5. \A u \in Uploads : u # v => handlers'[u] = handlers[u] /\ (u \in queued' <=> u \in queued)
    BY <1>0, <2>1, <2>2
  <2>6. \A u \in Uploads : u # v => Shut(u)' = Shut(u)
    BY <2>5 DEF Shut
  <2>7. \A u \in Uploads : handlers'[u] = "prepare" => u \notin queued'
    <3>1. handlers'[v] = "prepare" => v \notin queued'
      BY <1>0, <2>1, <2>2, <2>4 DEF Shut
    <3> QED
      BY <2>5, <3>1 DEF FlowInv
  <2> QED
    BY <2>1, <2>3, <2>4, <2>6, <2>7 DEF FlowInv
<1>9. Goal
  BY <1>0, <1>4, <1>5, <1>6, <1>7, <1>8 DEF FlowSteps
<1> QED
  BY <1>1, <1>9 DEF FlowInv

\* What the page is told of was asked for.
TellInv == \A u \in Told(port) : up[u] # "none"

LEMMA NextTell ==
  ASSUME AppType, FlowInv, TellInv, [Next]_vars
  PROVE  TellInv'
<1>0. /\ port \in Seq(Messages) /\ sink \in Seq(Messages)
      /\ handlers \in [Uploads -> {"idle", "prepare", "wait"}]
  BY DEF AppType, QueueType, BridgeType
<1>1. ASSUME NEW u \in Uploads, up[u] # "none" PROVE up'[u] # "none"
  <2>1. up'[u] # up[u] => UpMove(u)
    BY UpMoves
  <2> QED
    BY <1>1, <2>1 DEF UpMove
<1> USE DEF serverVars, bridgeVars, isolateVars, callVars, userVars, historyVars
<1> DEFINE Goal == \A u \in Told(port') : up[u] # "none"
<1>2. ASSUME Items(port') \subseteq Items(port) PROVE Goal
  BY <1>2 DEF Told, TellInv
\* A message is added.
<1>3. ASSUME NEW e \in Messages, port' = Append(port, e),
             e.kind = "FileUpload" => up[<<e.of, e.file>>] # "none"
      PROVE  Goal
  <2>1. Told(port') = Told(port) \/ (e.kind = "FileUpload" /\ Told(port') = Told(port) \cup {<<e.of, e.file>>})
    BY <1>0, <1>3, ToldQueue
  <2> QED
    BY <1>3, <2>1 DEF TellInv
<1>4. ASSUME NEW u \in Uploads, NEW how \in {"Failed", "Saved"}, HandlerOver(u, how) PROVE Goal
  <2> DEFINE a == FileMessage(how, u)
             b == FileMessage("FileUpload", u)
  <2>1. /\ a \in Messages /\ b \in Messages /\ a.kind # "FileUpload" /\ b.kind = "FileUpload"
        /\ <<b.of, b.file>> = u
    BY MessageFacts DEF FileKinds
  <2>2. \/ port' = Append(port, a)
        \/ u \in queued /\ port' = port \o <<a, b>>
    BY <1>4 DEF HandlerOver
  <2> HIDE DEF a, b
  <2>3. CASE port' = Append(port, a)
    BY <1>3, <2>1, <2>3
  <2>4. CASE u \in queued /\ port' = port \o <<a, b>>
    <3>1. port' = Append(Append(port, a), b) /\ Append(port, a) \in Seq(Messages)
      BY <1>0, <2>1, <2>4
    <3>2. Told(Append(port, a)) = Told(port)
      BY <1>0, <2>1, ToldQueue
    <3>3. Told(port') = Told(port) \cup {u}
      BY <2>1, <3>1, <3>2, ToldQueue
    <3>4. up[u] # "none"
      BY <2>4 DEF FlowInv, Shut
    <3> QED
      BY <3>3, <3>4 DEF TellInv
  <2> QED
    BY <2>2, <2>3, <2>4
<1>5. ASSUME NEW u \in Uploads,
             PrepareFails(u) \/ RespondFileUpload(u) \/ \E kept \in BOOLEAN : HandlerEnds(u, kept)
      PROVE  Goal
  <2>1. port' = port \/ \E how \in {"Failed", "Saved"} : HandlerOver(u, how)
    BY <1>5 DEF PrepareFails, RespondFileUpload, HandlerEnds
  <2>2. CASE port' = port
    BY <1>2, <2>2
  <2> QED
    BY <1>4, <2>1, <2>2
<1>6. ASSUME IsolatePrepareUpload \/ IsolateSessionEnd \/ IsolateAborted PROVE Goal
  <2>1. /\ sink # <<>> /\ Head(sink).kind # "FileUpload"
        /\ port' = port \/ port' = Append(port, Head(sink))
    BY <1>6 DEF IsolatePrepareUpload, IsolateSessionEnd, IsolateAborted
  <2>2. Head(sink) \in Messages
    BY <1>0, <2>1, MessageQueue
  <2>3. CASE port' = port
    BY <1>2, <2>3
  <2> QED
    BY <1>3, <2>1, <2>2, <2>3
<1>7. ASSUME IsolateFileUpload PROVE Goal
  <2> DEFINE v == <<Head(sink).of, Head(sink).file>>
  <2>1. /\ sink # <<>> /\ Head(sink).kind = "FileUpload"
        /\ port' = port \/ port' = Append(port, FileMessage("FileUpload", v))
    BY <1>7 DEF IsolateFileUpload
  <2>2. v \in Uploads
    BY <2>1, Fronts
  <2>3. v \in Told(sink)
    BY <1>0, <2>1, ToldQueue DEF FlowInv
  <2> HIDE DEF v
  <2>4. up[v] # "none"
    BY <2>2, <2>3 DEF FlowInv
  <2>5. /\ FileMessage("FileUpload", v) \in Messages
        /\ <<FileMessage("FileUpload", v).of, FileMessage("FileUpload", v).file>> = v
    BY <2>2, MessageFacts DEF FileKinds
  <2>6. CASE port' = port
    BY <1>2, <2>6
  <2> QED
    BY <1>3, <2>1, <2>4, <2>5, <2>6
<1>8. ASSUME port # <<>>, port' = Tail(port) PROVE Goal
  <2>1. Items(port') \subseteq Items(port)
    BY <1>0, <1>8, MessageQueue
  <2> QED
    BY <1>2, <2>1
<1>9. CASE port' = port
  <2>1. Goal
    BY <1>2, <1>9
  <2> QED
    BY <1>1, <2>1 DEF TellInv, Told
<1>10. Goal
  <2>1. CASE port' = port
    BY <1>2, <2>1
  <2> QED
    BY <1>5, <1>6, <1>7, <1>8, <2>1, PortActions DEF PortActs
<1> QED
  BY <1>1, <1>10 DEF TellInv, Told

-----------------------------------------------------------------------------
(* Answers and cancellations on their way to the server.                    *)

LEMMA ConsentGrows ==
  ASSUME AppType, PipeInv, [Next]_vars, NEW r \in Requests
  PROVE  consent[r] \subseteq consent'[r]
<1>0. consent \in [Requests -> SUBSET Files] /\ ConsentSteps
  BY NextUser DEF AppType, UserType
<1>1. CASE consent' = consent
  BY <1>1
<1>2. ASSUME NEW ids \in SUBSET Files, Accept(ids) PROVE consent[r] \subseteq consent'[r]
  <2>1. ui.of \in Requests /\ consent[ui.of] = {} /\ consent' = [consent EXCEPT ![ui.of] = ids]
    BY <1>2, Fronts DEF Accept, PipeInv
  <2> QED
    BY <1>0, <2>1
<1> QED
  BY <1>0, <1>1, <1>2 DEF ConsentSteps

Decided == {"sending", "errors", "finished"}

\* An acceptance that waits for the permission was given, and is that of the
\* session shown only if it is the last one.
GrantInv ==
  /\ \A g \in Items(granting) : consent[g.of] # {} /\ g.files \subseteq Offered[g.of]
  /\ \A i \in 1..(Len(granting) - 1) : granting[i].of # ui.of
  /\ ui.status \in Decided => consent[ui.of] # {}

\* What becomes of the session shown and of the acceptances.
PageSteps ==
  \/ /\ granting' = granting /\ consent' = consent
     /\ \/ ui' = Idle
        \/ ui'.of = ui.of /\ (ui'.status \in Decided => ui.status \in Decided)
        \/ \E r \in Requests : OpenPage(r) /\ ui'.of = r /\ ui'.status = "waiting"
  \/ Grant /\ granting # <<>> /\ granting' = Tail(granting) /\ UNCHANGED <<ui, consent>>
  \/ \E ids \in SUBSET Files :
       /\ Accept(ids) /\ ids # {} /\ ids \subseteq Offered[ui.of] /\ ui.status = "waiting"
       /\ granting' = Append(granting, [of |-> ui.of, files |-> ids])
       /\ consent' = [consent EXCEPT ![ui.of] = ids]
       /\ ui'.of = ui.of

LEMMA NextPage ==
  ASSUME AppType, [Next]_vars
  PROVE  PageSteps
<1>0. ui = [of |-> ui.of, status |-> ui.status]
  BY DEF AppType, UserType
<1> USE DEF serverVars, bridgeVars, isolateVars, callVars, userVars, historyVars
<1>1. CASE UNCHANGED <<opening, granting, ui, shown, recording, consent>>
  BY <1>1 DEF PageSteps
<1>2. ASSUME NEW r \in Requests, OpenPage(r) PROVE PageSteps
  BY <1>2 DEF OpenPage, PageSteps
<1>3. ASSUME OnPrepareUpload \/ Refuse({}) \/ Refuse(Declined) \/ UserCancels \/ UserCloses
      PROVE  PageSteps
  BY <1>3 DEF OnPrepareUpload, Refuse, UserCancels, UserCloses, CloseSession, PageSteps
<1>4. ASSUME UNCHANGED <<granting, consent>>, ui.status \in Decided,
             ui' = ui \/ \E st : ui' = [ui EXCEPT !.status = st]
      PROVE  PageSteps
  BY <1>0, <1>4 DEF PageSteps
<1>5. ASSUME UNCHANGED <<granting, consent>>,
             ui' = ui \/ ui' = [ui EXCEPT !.status = "cancelled"]
      PROVE  PageSteps
  BY <1>0, <1>5 DEF PageSteps, Decided
\* A result is shown, and may be the last one.
<1>6. ASSUME NEW display, UNCHANGED <<granting, consent>>, ui' = Concluded(display)
      PROVE  PageSteps
  <2>1. CASE ui' = ui
    BY <1>5, <1>6, <2>1
  <2>2. CASE ui' # ui
    <3>1. ui.status \in {"sending", "errors"} /\ \E st : ui' = [ui EXCEPT !.status = st]
      BY <1>6, <2>2 DEF Concluded
    <3> QED
      BY <1>4, <1>6, <3>1 DEF Decided
  <2> QED
    BY <2>1, <2>2
<1>7. ASSUME OnFileUpload PROVE PageSteps
  <2>1. /\ UNCHANGED <<granting, consent>>
        /\ \/ ui' = ui
           \/ ui.status \in {"sending", "errors"} /\ ui' = [ui EXCEPT !.status = "sending"]
    BY <1>7 DEF OnFileUpload, Receiving
  <2>2. CASE ui' = ui
    BY <1>5, <2>1, <2>2
  <2> QED
    BY <1>4, <2>1, <2>2 DEF Decided
<1>8. ASSUME OnFailed \/ OnSaved \/ OnEnd \/ \E u \in Uploads : Recorded(u) PROVE PageSteps
  <2>1. /\ UNCHANGED <<granting, consent>>
        /\ \/ ui' = ui \/ ui' = [ui EXCEPT !.status = "cancelled"]
           \/ \E display : ui' = Concluded(display)
    BY <1>8 DEF OnFailed, OnSaved, OnEnd, Recorded
  <2>2. CASE ui' = ui \/ ui' = [ui EXCEPT !.status = "cancelled"]
    BY <1>5, <2>1, <2>2
  <2> QED
    BY <1>6, <2>1, <2>2
<1>9. ASSUME NEW ids \in SUBSET Files, Accept(ids) PROVE PageSteps
  <2>1. ui'.of = ui.of
    BY <1>0, <1>9 DEF Accept
  <2> QED
    BY <1>9, <2>1 DEF Accept, PageSteps
<1>10. ASSUME Grant PROVE PageSteps
  BY <1>10 DEF Grant, PageSteps
<1> QED
  BY <1>1, <1>2, <1>3, <1>7, <1>8, <1>9, <1>10, UserActions DEF UserActs

LEMMA NextGrant ==
  ASSUME AppType, PipeInv, GrantInv, [Next]_vars
  PROVE  GrantInv'
<1>0. /\ granting \in Seq(Grants) /\ consent \in [Requests -> SUBSET Files] /\ PageSteps
      /\ opening \in Seq(Requests) /\ ui.of \in Requests \cup {NoRequest}
      /\ "none" \notin Decided /\ "waiting" \notin Decided
  BY NextPage DEF AppType, UserType, Decided
<1>1. \A r \in Requests : consent[r] # {} => consent'[r] # {}
  BY ConsentGrows
<1>2. \A i \in 1..Len(granting) : granting[i] \in Items(granting) /\ granting[i].of \in Requests
  <2>1. DOMAIN granting = 1..Len(granting) /\ \A i \in 1..Len(granting) : granting[i] \in Grants
    BY <1>0
  <2> QED
    BY <2>1 DEF Items, Grants
<1>3. \A g \in Items(granting) : g.of \in Requests
  <2>1. DOMAIN granting = 1..Len(granting)
    BY <1>0
  <2> QED
    BY <1>2, <2>1 DEF Items
<1>4. ui.status # "none" => ui.of \in Requests
  BY Fronts
\* The session shown is another one, or none.
<1>5. ASSUME granting' = granting, consent' = consent
      PROVE  GrantInv'
  <2>1. CASE ui' = Idle
    <3>1. ui'.of = NoRequest /\ ui'.status \notin Decided
      BY <1>0, <2>1, UiFacts
    <3>2. \A i \in 1..(Len(granting) - 1) : i \in 1..Len(granting)
      BY <1>0
    <3>3. \A i \in 1..(Len(granting) - 1) : granting[i].of # NoRequest
      BY <1>2, <3>2, RequestFacts
    <3> QED
      BY <1>5, <3>1, <3>3 DEF GrantInv
  <2>2. CASE ui'.of = ui.of /\ (ui'.status \in Decided => ui.status \in Decided)
    BY <1>5, <2>2 DEF GrantInv
  <2>3. ASSUME NEW r \in Requests, OpenPage(r), ui'.of = r, ui'.status = "waiting" PROVE GrantInv'
    <3>1. r \in Items(opening)
      BY <1>0, <2>3, OpenQueue DEF OpenPage
    <3>2. consent[r] = {}
      BY <3>1 DEF PipeInv, Pipe
    <3>3. \A i \in 1..Len(granting) : granting[i].of # r
      BY <1>2, <3>2 DEF GrantInv
    <3>4. \A i \in 1..(Len(granting) - 1) : i \in 1..Len(granting)
      BY <1>0
    <3> QED
      BY <1>0, <1>5, <2>3, <3>3, <3>4 DEF GrantInv
  <2>4. CASE Grant \/ \E ids \in SUBSET Files : Accept(ids)
    <3>1. granting' # granting
      <4>1. CASE Grant
        <5>1. granting # <<>> /\ granting' = Tail(granting)
          BY <4>1 DEF Grant
        <5>2. Len(Tail(granting)) # Len(granting)
          BY <1>0, <5>1
        <5> QED
          BY <5>1, <5>2
      <4>2. ASSUME NEW ids \in SUBSET Files, Accept(ids) PROVE granting' # granting
        <5>1. PICK a : granting' = Append(granting, a)
          BY <4>2 DEF Accept
        <5>2. Len(Append(granting, a)) = Len(granting) + 1
          BY <1>0
        <5> QED
          BY <1>0, <5>1, <5>2
      <4> QED
        BY <2>4, <4>1, <4>2
    <3> QED
      BY <1>5, <3>1
  <2> QED
    BY <1>0, <2>1, <2>2, <2>3, <2>4 DEF PageSteps
<1>6. ASSUME granting # <<>>, granting' = Tail(granting), UNCHANGED <<ui, consent>> PROVE GrantInv'
  <2>1. /\ Items(granting') \subseteq Items(granting)
        /\ Len(granting) \in Nat \ {0} /\ Len(granting') = Len(granting) - 1
        /\ \A i \in 1..(Len(granting) - 1) : granting'[i] = granting[i + 1]
    BY <1>0, <1>6, GrantQueue
  <2>2. \A i \in 1..(Len(granting') - 1) :
          i + 1 \in 1..(Len(granting) - 1) /\ i \in 1..(Len(granting) - 1)
    BY <2>1
  <2> QED
    BY <1>6, <2>1, <2>2 DEF GrantInv
<1>7. ASSUME NEW ids \in SUBSET Files, ids # {}, ids \subseteq Offered[ui.of], ui.status = "waiting",
             granting' = Append(granting, [of |-> ui.of, files |-> ids]),
             consent' = [consent EXCEPT ![ui.of] = ids], ui'.of = ui.of
      PROVE  GrantInv'
  <2> DEFINE a == [of |-> ui.of, files |-> ids]
  <2>1. ui.of \in Requests /\ consent[ui.of] = {} /\ consent'[ui.of] # {}
    BY <1>0, <1>4, <1>7 DEF PipeInv
  <2>2. a \in Grants /\ a.of = ui.of /\ a.files = ids
    BY <1>7, <2>1 DEF Grants, Answers
  <2>3. \A i \in 1..Len(granting) : granting[i].of # ui.of
    BY <1>2, <2>1 DEF GrantInv
  <2> HIDE DEF a
  <2>4. /\ Items(granting') = Items(granting) \cup {a}
        /\ Len(granting) \in Nat /\ Len(granting') = Len(granting) + 1
        /\ \A i \in 1..Len(granting) : granting'[i] = granting[i]
    BY <1>0, <1>7, <2>2, GrantQueue DEF a
  <2>5. \A i \in 1..(Len(granting') - 1) : i \in 1..Len(granting)
    BY <2>4
  <2> QED
    BY <1>1, <1>3, <1>7, <2>1, <2>2, <2>3, <2>4, <2>5 DEF GrantInv
<1> QED
  BY <1>0, <1>5, <1>6, <1>7 DEF PageSteps

\* What becomes of the tasks.
TaskSteps ==
  \/ tasks' = tasks
  \/ /\ ui.of \in Requests /\ granting # <<>> /\ granting' = Tail(granting) /\ ui' = ui
     /\ tasks' = Append(tasks, Decision(ui.of, Head(granting).files, Head(granting).of))
  \/ ui.status = "waiting" /\ \E a \in {{}, Declined} : tasks' = Append(tasks, Decision(ui.of, a, ui.of))
  \/ ui.status = "sending" /\ ui' = Idle /\ tasks' = Append(tasks, Message("Cancel", ui.of))
  \/ /\ port # <<>> /\ Head(port).kind = "FileUpload"
     /\ tasks' = Append(tasks, Message("Cancel", Head(port).of))
  \/ (IsolateDecision \/ IsolateCancel) /\ tasks # <<>> /\ tasks' = Tail(tasks)

LEMMA NextTask ==
  ASSUME AppType, [Next]_vars
  PROVE  TaskSteps
<1> USE DEF serverVars, bridgeVars, isolateVars, callVars, userVars, historyVars
<1>0. ui.of \in Requests \cup {NoRequest}
  BY DEF AppType, UserType
<1>1. CASE tasks' = tasks
  BY <1>1 DEF TaskSteps
<1>2. ASSUME (\E ids \in SUBSET Files : Accept(ids))
             \/ \E reply \in replies : RespondPrepareUpload(reply)
      PROVE  tasks' = tasks
  BY <1>2 DEF Accept, RespondPrepareUpload
<1>3. CASE Grant
  BY <1>0, <1>3 DEF Grant, TaskSteps
<1>4. CASE Refuse({}) \/ Refuse(Declined)
  BY <1>4 DEF Refuse, TaskSteps
<1>5. CASE UserCancels
  BY <1>5 DEF UserCancels, CloseSession, TaskSteps
<1>6. CASE OnFileUpload
  BY <1>6 DEF OnFileUpload, Received, TaskSteps
<1>7. CASE IsolateDecision \/ IsolateCancel
  BY <1>7 DEF IsolateDecision, IsolateCancel, TaskSteps
<1> QED
  BY <1>1, <1>2, <1>3, <1>4, <1>5, <1>6, <1>7, AnswerActions DEF AnswerActs

\* No decision is made any more for the request after the first tasks.
Settled(r, i) ==
  /\ consent[r] # {}
  /\ ui.of = r => granting = <<>>
  /\ \A j \in DOMAIN tasks : j > i /\ tasks[j].kind = "Decision" => tasks[j].of # r

\* No page opens for it again, and what is accepted is accepted elsewhere.
LEMMA PageSettled ==
  ASSUME AppType, PipeInv, [Next]_vars, NEW r \in Requests,
         consent[r] # {}, ui.of = r => granting = <<>>
  PROVE  /\ consent'[r] # {}
         /\ ui'.of = r => granting' = <<>>
         /\ ui.of = r => ui.status # "waiting"
<1>0. /\ PageSteps /\ opening \in Seq(Requests) /\ Idle.of = NoRequest /\ r # NoRequest
      /\ consent'[r] # {}
  BY NextPage, UiFacts, RequestFacts, ConsentGrows DEF AppType, UserType
<1>1. ui.of = r => ui.status # "waiting"
  BY DEF PipeInv
<1>2. ASSUME NEW q \in Requests, OpenPage(q) PROVE q # r
  <2>1. q \in Items(opening)
    BY <1>0, <1>2, OpenQueue DEF OpenPage
  <2> QED
    BY <2>1 DEF PipeInv, Pipe
<1> QED
  BY <1>0, <1>1, <1>2 DEF PageSteps

LEMMA StaysSettled ==
  ASSUME AppType, PipeInv, [Next]_vars, NEW r \in Requests, NEW i \in Nat, Settled(r, i)
  PROVE  /\ tasks' = Tail(tasks) /\ tasks # <<>> => \A k \in Nat : i <= k + 1 => Settled(r, k)'
         /\ ~(tasks' = Tail(tasks) /\ tasks # <<>>) => Settled(r, i)'
<1>0. /\ tasks \in Seq(Tasks) /\ granting \in Seq(Grants) /\ TaskSteps
      /\ consent'[r] # {} /\ (ui'.of = r => granting' = <<>>)
      /\ ui.of = r => ui.status # "waiting"
  BY NextTask, PageSettled DEF AppType, QueueType, UserType, Settled
<1>1. /\ Len(tasks) \in Nat /\ DOMAIN tasks = 1..Len(tasks)
      /\ \A j \in DOMAIN tasks : tasks[j].kind = "Decision" /\ tasks[j].of = r => j <= i
  BY <1>0 DEF Settled
<1>2. ASSUME tasks' = Tail(tasks), tasks # <<>>, NEW k \in Nat, i <= k + 1 PROVE Settled(r, k)'
  <2>1. /\ DOMAIN tasks' = 1..(Len(tasks) - 1)
        /\ \A j \in DOMAIN tasks' : tasks'[j] = tasks[j + 1] /\ j + 1 \in DOMAIN tasks
    BY <1>0, <1>1, <1>2
  <2>2. ASSUME NEW j \in DOMAIN tasks', j > k, tasks'[j].kind = "Decision", tasks'[j].of = r PROVE FALSE
    <3>1. j + 1 <= i /\ j \in Nat
      BY <1>1, <2>1, <2>2
    <3> QED
      BY <1>2, <2>2, <3>1
  <2> QED
    BY <1>0, <2>2 DEF Settled
<1>3. ASSUME NEW t, tasks' = Append(tasks, t), t.kind = "Decision" => t.of # r PROVE Settled(r, i)'
  <2>1. /\ DOMAIN tasks' = 1..(Len(tasks) + 1) /\ tasks'[Len(tasks) + 1] = t
        /\ \A j \in DOMAIN tasks : tasks'[j] = tasks[j]
    BY <1>0, <1>1, <1>3
  <2>2. \A j \in DOMAIN tasks' : j \in DOMAIN tasks \/ j = Len(tasks) + 1
    BY <1>1, <2>1
  <2>3. \A j \in DOMAIN tasks' : j > i /\ tasks'[j].kind = "Decision" => tasks'[j].of # r
    BY <1>3, <2>1, <2>2 DEF Settled
  <2> QED
    BY <1>0, <2>3 DEF Settled
<1>4. CASE tasks' = tasks
  <2>1. ~(tasks' = Tail(tasks) /\ tasks # <<>>)
    BY <1>0, <1>4
  <2>2. Settled(r, i)'
    BY <1>0, <1>4 DEF Settled
  <2> QED
    BY <2>1, <2>2
<1>5. \A q, a, s : Decision(q, a, s).of = q
  BY DEF Decision
<1>6. \A q : Message("Cancel", q).kind # "Decision"
  BY DEF Message
<1>7. CASE tasks' # tasks /\ ~(tasks' = Tail(tasks) /\ tasks # <<>>)
  <2>1. CASE /\ ui.of \in Requests /\ granting # <<>>
             /\ tasks' = Append(tasks, Decision(ui.of, Head(granting).files, Head(granting).of))
    <3>1. ui.of # r
      BY <2>1 DEF Settled
    <3>2. Decision(ui.of, Head(granting).files, Head(granting).of).of # r
      BY <1>5, <3>1
    <3> QED
      BY <1>3, <1>7, <2>1, <3>2
  <2>2. ASSUME NEW a, ui.status = "waiting", tasks' = Append(tasks, Decision(ui.of, a, ui.of))
        PROVE  Settled(r, i)'
    <3>1. Decision(ui.of, a, ui.of).of # r
      BY <1>0, <1>5, <2>2
    <3> QED
      BY <1>3, <2>2, <3>1
  <2>3. ASSUME NEW q, tasks' = Append(tasks, Message("Cancel", q)) PROVE Settled(r, i)'
    BY <1>3, <1>6, <2>3
  <2> QED
    BY <1>0, <1>7, <2>1, <2>2, <2>3 DEF TaskSteps
<1> QED
  BY <1>2, <1>4, <1>7

\* A task after which nothing is decided for a request any more: the files
\* of its acceptance, or its cancellation.
LastWord(t, r) ==
  IF t.kind = "Decision" THEN t.asked = r /\ t.files \cap Offered[r] # {} ELSE t.of = r

\* The acceptance has reached the isolate, or gone further.
Reached(r) ==
  \/ \E p \in replies : p.asked = r /\ p.files \cap Offered[r] # {}
  \/ decision[r] # <<>> /\ decision[r][1] \cap Offered[r] # {}
  \/ \E f \in Files : up[<<r, f>>] # "none"

Ending(r) == Reached(r) \/ r \in cancels \cup cancelled

\* All of this is lost for a request that got the answer to another one.
LastInv ==
  /\ \A i \in DOMAIN tasks, r \in Requests :
       LastWord(tasks[i], r) => Settled(r, i) \/ Misled(r)
  /\ \A r \in Requests : Ending(r) => Settled(r, 0) \/ Misled(r)

LEMMA MisledGrows ==
  ASSUME AppType, AnswersType, [Next]_vars, NEW r \in Requests, Misled(r)
  PROVE  Misled(r)'
<1>1. answers[r] \subseteq answers'[r]
  BY NextAnswers DEF AnswerSteps
<1> QED
  BY <1>1 DEF Misled

CancelActs ==
  \/ UNCHANGED <<cancels, cancelled>> /\ session' \in {session, NoSession}
  \/ IsolateFileUpload \/ IsolateDecision \/ IsolateCancel
  \/ \E r \in Requests : CancelSession(r)

LEMMA CancelActions == [Next]_vars => CancelActs
<1> SUFFICES ASSUME [Next]_vars PROVE CancelActs
  OBVIOUS
<1> USE DEF serverVars, bridgeVars, isolateVars, callVars, userVars, historyVars
<1>1. CASE UNCHANGED vars
  BY <1>1 DEF vars, CancelActs
<1>2. ASSUME NEW r \in Requests,
             PrepareUpload(r) \/ AbortRequest(r) \/ SenderCancels(r) \/ TellAborted(r)
             \/ TakeDecision(r) \/ OpenPage(r)
      PROVE  CancelActs
  BY <1>2 DEF PrepareUpload, AbortRequest, SenderCancels, TellAborted, TakeDecision,
              OpenPage, CancelActs
<1>3. ASSUME NEW u \in Uploads, StartUpload(u) \/ UploadBreaks(u)
             \/ UploadFails(u) \/ UploadSaved(u) \/ UploadMismatch(u)
             \/ PrepareFails(u) \/ RespondFileUpload(u) \/ Recorded(u)
             \/ \E kept \in BOOLEAN : HandlerEnds(u, kept)
      PROVE  CancelActs
  BY <1>3 DEF StartUpload, UploadBreaks, UploadFails, UploadSaved, UploadMismatch,
              PrepareFails, RespondFileUpload, Recorded, HandlerEnds, CancelActs
<1>4. ASSUME Listen \/ IsolatePrepareUpload \/ IsolateSessionEnd \/ IsolateAborted
             \/ \E reply \in replies : RespondPrepareUpload(reply)
      PROVE  CancelActs
  BY <1>4 DEF Listen, IsolatePrepareUpload, IsolateSessionEnd, IsolateAborted,
              RespondPrepareUpload, CancelActs
<1>5. ASSUME OnPrepareUpload \/ OnFileUpload \/ OnFailed \/ OnSaved \/ OnEnd PROVE CancelActs
  BY <1>5 DEF OnPrepareUpload, OnFileUpload, OnFailed, OnSaved, OnEnd, CancelActs
<1>6. ASSUME (\E ids \in SUBSET Files : Accept(ids)) \/ Grant \/ Refuse({})
             \/ Refuse(Declined) \/ Whim
      PROVE  CancelActs
  BY <1>6 DEF Accept, Grant, Refuse, Whim, UserCancels, UserCloses, CancelActs
<1>7. CASE Sender
  BY <1>2, <1>3, <1>7 DEF Sender
<1>8. CASE Progress
  BY <1>2, <1>3, <1>4, <1>5, <1>6, <1>8 DEF Progress, CancelActs
<1> QED
  BY <1>1, <1>6, <1>7, <1>8 DEF Next

\* Only a decision of the isolate calls the bridge.
LEMMA NewReply ==
  ASSUME [Next]_vars
  PROVE  \/ replies' \subseteq replies
         \/ /\ IsolateDecision /\ tasks # <<>> /\ Head(tasks).kind = "Decision"
            /\ replies' = replies \cup {[files |-> Head(tasks).files, asked |-> Head(tasks).asked]}
<1> USE DEF serverVars, bridgeVars, isolateVars, callVars, userVars, historyVars
<1>1. ASSUME NEW reply \in replies, RespondPrepareUpload(reply) PROVE replies' \subseteq replies
  BY <1>1 DEF RespondPrepareUpload
<1>2. ASSUME (\E ids \in SUBSET Files : Accept(ids)) \/ Grant \/ Refuse({}) \/ Refuse(Declined)
             \/ UserCancels \/ OnFileUpload \/ IsolateCancel
      PROVE  replies' = replies
  BY <1>2 DEF Accept, Grant, Refuse, UserCancels, OnFileUpload, IsolateCancel
<1>3. CASE IsolateDecision
  BY <1>3 DEF IsolateDecision
<1> QED
  BY <1>1, <1>2, <1>3, AnswerActions DEF AnswerActs

\* Only the isolate passes such a task on.
LEMMA EndingSteps ==
  ASSUME AppType, AnswersType, FlowInv, [Next]_vars, NEW r \in Requests, Ending(r)'
  PROVE  \/ Ending(r) \/ Misled(r)'
         \/ /\ IsolateDecision \/ IsolateCancel
            /\ tasks # <<>> /\ LastWord(Head(tasks), r)
<1>0. /\ sink \in Seq(Messages) /\ Offered \in [Requests -> SUBSET Files]
      /\ decision \in [Requests -> {<<>>} \cup {<<a>> : a \in SUBSET Answers}]
      /\ AnswerSteps
  BY NextAnswers, ConstantsAssumption DEF AppType, ServerType, QueueType
<1> USE DEF serverVars, bridgeVars, isolateVars, callVars, userVars, historyVars
<1> DEFINE Goal == \/ Ending(r) \/ Misled(r)'
                   \/ /\ IsolateDecision \/ IsolateCancel
                      /\ tasks # <<>> /\ LastWord(Head(tasks), r)
<1>1. ASSUME NEW p \in replies', p.asked = r, p.files \cap Offered[r] # {} PROVE Goal
  <2>1. CASE p \in replies
    BY <1>1, <2>1 DEF Ending, Reached
  <2>2. CASE p \notin replies
    <3>1. IsolateDecision /\ tasks # <<>> /\ Head(tasks).kind = "Decision"
      BY <1>1, <2>2, NewReply
    <3>2. p.files = Head(tasks).files /\ p.asked = Head(tasks).asked
      BY <1>1, <2>2, NewReply
    <3>3. LastWord(Head(tasks), r)
      BY <1>1, <3>1, <3>2 DEF LastWord
    <3> QED
      BY <3>1, <3>3
  <2> QED
    BY <2>1, <2>2
<1>2. ASSUME decision'[r] # <<>>, decision'[r][1] \cap Offered[r] # {} PROVE Goal
  <2>1. CASE decision'[r] = decision[r]
    BY <1>2, <2>1 DEF Ending, Reached
  <2>2. ASSUME NEW p \in replies, decision'[r] = <<p.files>>, p.asked \in answers'[r] PROVE Goal
    <3>1. decision'[r][1] = p.files
      BY <2>2
    <3>2. p.asked # r => Misled(r)'
      BY <2>2 DEF Misled
    <3> QED
      BY <1>2, <3>1, <3>2 DEF Ending, Reached
  <2> QED
    BY <1>0, <2>1, <2>2 DEF AnswerSteps
<1>3. ASSUME NEW f \in Files, up'[<<r, f>>] # "none" PROVE Ending(r)
  <2> DEFINE u == <<r, f>>
  <2>1. u \in Uploads /\ u[1] = r /\ u[2] = f
    BY DEF Uploads
  <2>2. CASE up[u] # "none"
    BY <2>2 DEF Ending, Reached
  <2>3. CASE up[u] = "none"
    <3>1. UpMove(u)
      BY <1>3, <2>1, <2>3, UpMoves
    <3>2. TakeDecision(u[1]) /\ u[2] \in decision[u[1]][1] \cap Offered[u[1]]
      BY <2>3, <3>1 DEF UpMove
    <3>3. decision[r] # <<>> /\ decision[r][1] \cap Offered[r] # {}
      BY <2>1, <3>2 DEF TakeDecision
    <3> QED
      BY <3>3 DEF Ending, Reached
  <2> QED
    BY <2>2, <2>3
<1>4. ASSUME r \in cancels' \cup cancelled', r \notin cancels \cup cancelled PROVE Goal
  <2>1. CASE IsolateCancel
    <3>1. tasks # <<>> /\ Head(tasks).kind = "Cancel" /\ r = Head(tasks).of
      BY <1>4, <2>1 DEF IsolateCancel
    <3> QED
      BY <2>1, <3>1 DEF LastWord
  <2>2. CASE IsolateFileUpload
    <3> DEFINE u == <<Head(sink).of, Head(sink).file>>
    <3>1. sink # <<>> /\ Head(sink).kind = "FileUpload" /\ r = u[1]
      BY <1>4, <2>2 DEF IsolateFileUpload
    <3>2. u \in Uploads
      BY <3>1, Fronts
    <3>3. u \in Told(sink)
      BY <1>0, <3>1, ToldQueue DEF FlowInv
    <3>4. up[u] # "none" /\ u[2] \in Files
      BY <3>2, <3>3 DEF FlowInv, Uploads
    <3>5. u = <<r, u[2]>>
      BY <3>1
    <3> QED
      BY <3>4, <3>5 DEF Ending, Reached
  <2>3. ASSUME IsolateDecision PROVE FALSE
    BY <1>4, <2>3 DEF IsolateDecision
  <2>4. ASSUME NEW q \in Requests, CancelSession(q) PROVE FALSE
    BY <1>4, <2>4 DEF CancelSession
  <2> QED
    BY <1>4, <2>1, <2>2, <2>3, <2>4, CancelActions DEF CancelActs
<1> QED
  BY <1>1, <1>2, <1>3, <1>4 DEF Ending, Reached

LEMMA NextLast ==
  ASSUME AppType, PipeInv, ConsentInv, GrantInv, FlowInv, TellInv, LastInv,
         [Next]_vars
  PROVE  LastInv'
<1>0. /\ granting \in Seq(Grants) /\ port \in Seq(Messages)
      /\ Offered \in [Requests -> SUBSET Files] /\ "declined" \notin Files
      /\ TaskSteps
  BY NextTask, ConstantsAssumption, DeclinedAssumption DEF AppType, QueueType, UserType
<1>q. tasks \in Seq(Tasks)
  BY DEF AppType, QueueType
<1>d. Len(tasks) \in Nat /\ DOMAIN tasks = 1..Len(tasks)
  BY <1>q
\* What was settled stays so.
<1>1. ASSUME NEW r \in Requests, NEW i \in Nat, Settled(r, i)
      PROVE  /\ tasks' = Tail(tasks) /\ tasks # <<>> => \A k \in Nat : i <= k + 1 => Settled(r, k)'
             /\ ~(tasks' = Tail(tasks) /\ tasks # <<>>) => Settled(r, i)'
  BY <1>1, StaysSettled
<1>m. \A r \in Requests : Misled(r) => Misled(r)'
  BY MisledGrows DEF ConsentInv
<1>2. \A r \in Requests : Ending(r)' => Settled(r, 0)' \/ Misled(r)'
  <2> TAKE r \in Requests
  <2> HAVE Ending(r)'
  <2>0. CASE Misled(r)'
    BY <2>0
  <2>1. CASE Ending(r)
    <3>1. Settled(r, 0) \/ Misled(r)
      BY <2>1 DEF LastInv
    <3> QED
      BY <1>m, <1>1, <3>1
  <2>2. CASE (IsolateDecision \/ IsolateCancel) /\ tasks # <<>> /\ LastWord(Head(tasks), r)
    <3>1. 1 \in DOMAIN tasks /\ Head(tasks) = tasks[1]
      BY <1>q, <2>2
    <3>2. Settled(r, 1) \/ Misled(r)
      BY <2>2, <3>1 DEF LastInv
    <3>3. tasks' = Tail(tasks)
      BY <2>2 DEF IsolateDecision, IsolateCancel
    <3> QED
      BY <1>m, <1>1, <2>2, <3>2, <3>3
  <2> QED
    BY <2>0, <2>1, <2>2, EndingSteps DEF ConsentInv
\* A task is added: no decision comes after it.
<1>3. ASSUME NEW t, tasks' = Append(tasks, t),
             \A r \in Requests : LastWord(t, r) =>
               \/ consent'[r] # {} /\ (ui'.of = r => granting' = <<>>)
               \/ Misled(r)'
      PROVE  \A i \in DOMAIN tasks', r \in Requests :
               LastWord(tasks'[i], r) => Settled(r, i)' \/ Misled(r)'
  <2>1. /\ DOMAIN tasks' = 1..(Len(tasks) + 1) /\ tasks'[Len(tasks) + 1] = t
        /\ \A j \in DOMAIN tasks : tasks'[j] = tasks[j]
    BY <1>q, <1>d, <1>3
  <2>t. ~(tasks' = Tail(tasks) /\ tasks # <<>>)
    <3>1. Len(tasks') = Len(tasks) + 1
      BY <1>q, <1>3
    <3>2. tasks # <<>> => Len(Tail(tasks)) # Len(tasks) + 1
      BY <1>q
    <3> QED
      BY <3>1, <3>2
  <2>2. ASSUME NEW i \in DOMAIN tasks, NEW r \in Requests, LastWord(tasks'[i], r)
        PROVE  Settled(r, i)' \/ Misled(r)'
    <3>1. i \in Nat
      BY <1>d
    <3>2. tasks'[i] = tasks[i]
      BY <2>1
    <3>3. LastWord(tasks[i], r)
      BY <2>2, <3>2
    <3>4. Settled(r, i) \/ Misled(r)
      BY <3>3 DEF LastInv
    <3> QED
      BY <1>m, <1>1, <2>t, <3>1, <3>4
  <2>a. \A n \in Nat : \A j \in 1..(n + 1) : ~(j > n + 1) /\ (j \in 1..n \/ j = n + 1)
    OBVIOUS
  <2>b. \A j \in DOMAIN tasks' :
          ~(j > Len(tasks) + 1) /\ (j \in DOMAIN tasks \/ j = Len(tasks) + 1)
    BY <1>d, <2>1, <2>a
  <2>3. ASSUME NEW i, i = Len(tasks) + 1, NEW r \in Requests, LastWord(t, r)
        PROVE  Settled(r, i)' \/ Misled(r)'
    <3>1. (consent'[r] # {} /\ (ui'.of = r => granting' = <<>>)) \/ Misled(r)'
      BY <1>3, <2>3
    <3>2. \A j \in DOMAIN tasks' : ~(j > i)
      BY <2>b, <2>3
    <3> QED
      BY <3>1, <3>2 DEF Settled
  <2>4. ASSUME NEW i \in DOMAIN tasks', NEW r \in Requests, LastWord(tasks'[i], r)
        PROVE  Settled(r, i)' \/ Misled(r)'
    <3>1. CASE i \in DOMAIN tasks
      BY <2>2, <2>4, <3>1
    <3>2. CASE i = Len(tasks) + 1
      <4>0. tasks'[i] = t
        BY <2>1, <3>2
      <4>1. LastWord(t, r)
        BY <2>4, <4>0
      <4> QED
        BY <2>3, <3>2, <4>1
    <3> QED
      BY <2>b, <3>1, <3>2
  <2> QED
    BY <2>4
<1> DEFINE Goal == \A i \in DOMAIN tasks', r \in Requests :
                     LastWord(tasks'[i], r) => Settled(r, i)' \/ Misled(r)'
<1>4. ASSUME tasks' = tasks PROVE Goal
  <2>1. ~(tasks' = Tail(tasks) /\ tasks # <<>>)
    BY <1>q, <1>4
  <2>2. \A i \in DOMAIN tasks : i \in Nat
    BY <1>d
  <2> QED
    BY <1>m, <1>1, <1>4, <2>1, <2>2 DEF LastInv
<1>5. ASSUME tasks' = Tail(tasks), tasks # <<>> PROVE Goal
  <2>1. \A i \in DOMAIN tasks' : /\ i \in Nat /\ i + 1 \in DOMAIN tasks /\ i + 1 \in Nat
                                 /\ tasks'[i] = tasks[i + 1]
    BY <1>q, <1>d, <1>5
  <2> TAKE i \in DOMAIN tasks', r \in Requests
  <2> HAVE LastWord(tasks'[i], r)
  <2>2. (Settled(r, i + 1) \/ Misled(r)) /\ i \in Nat /\ i + 1 \in Nat /\ i + 1 <= i + 1
    BY <2>1 DEF LastInv
  <2> QED
    BY <1>m, <1>1, <1>5, <2>2
\* What LastWord says of the tasks that are added.
<1>6. /\ \A q, a, s, r : LastWord(Decision(q, a, s), r) <=> s = r /\ a \cap Offered[r] # {}
      /\ \A q, r : LastWord(Message("Cancel", q), r) <=> q = r
  BY DEF LastWord, Decision, Message
<1>7. \A r \in Requests : consent[r] # {} => consent'[r] # {}
  BY ConsentGrows
\* The acceptance is sent: it was the last one of the session shown, if it is
\* an acceptance of that one.
<1>8. ASSUME ui.of \in Requests, granting # <<>>, granting' = Tail(granting), ui' = ui,
             tasks' = Append(tasks, Decision(ui.of, Head(granting).files, Head(granting).of))
      PROVE  Goal
  <2> DEFINE g == Head(granting)
  <2>0. Len(granting) \in Nat \ {0}
    BY <1>0, <1>8
  <2>1. g \in Items(granting) /\ g = granting[1]
    BY <1>0, <1>8, GrantQueue
  <2>2. g.of \in Requests /\ consent[g.of] # {} /\ g.files \subseteq Offered[g.of]
    BY <1>0, <1>8, <2>1, GrantQueue DEF GrantInv, Grants
  <2>3. ASSUME NEW r \in Requests, LastWord(Decision(ui.of, g.files, g.of), r)
        PROVE  consent'[r] # {} /\ (ui'.of = r => granting' = <<>>)
    <3>2. g.of = r
      BY <1>6, <2>3
    <3>3. ASSUME ui.of = r PROVE Len(granting) = 1
      <4>1. ~(1 \in 1..(Len(granting) - 1))
        BY <2>1, <3>2, <3>3 DEF GrantInv
      <4>2. \A n \in Nat \ {0} : ~(1 \in 1..(n - 1)) => n = 1
        OBVIOUS
      <4> QED
        BY <2>0, <4>1, <4>2
    <3>4. Len(granting) = 1 => Tail(granting) = <<>>
      BY <1>0, <1>8
    <3> QED
      BY <1>7, <1>8, <2>2, <3>2, <3>3, <3>4
  <2> HIDE DEF g
  <2>4. tasks' = Append(tasks, Decision(ui.of, g.files, g.of))
    BY <1>8 DEF g
  <2> QED
    BY <1>3, <2>3, <2>4
<1>9. ASSUME NEW a \in {{}, Declined}, tasks' = Append(tasks, Decision(ui.of, a, ui.of)) PROVE Goal
  <2>1. \A r \in Requests : a \cap Offered[r] = {}
    BY <1>0 DEF Declined
  <2>2. \A r \in Requests : ~LastWord(Decision(ui.of, a, ui.of), r)
    BY <1>6, <2>1
  <2> QED
    BY <1>3, <1>9, <2>2
<1>10. ASSUME ui.status = "sending", ui' = Idle,
              tasks' = Append(tasks, Message("Cancel", ui.of))
       PROVE  Goal
  <2>1. consent[ui.of] # {}
    BY <1>10 DEF GrantInv, Decided
  <2>2. ASSUME NEW r \in Requests, LastWord(Message("Cancel", ui.of), r)
        PROVE  consent'[r] # {} /\ (ui'.of = r => granting' = <<>>)
    <3>1. r = ui.of
      BY <1>6, <2>2
    <3>2. ui'.of # r
      BY <1>10, UiFacts, RequestFacts
    <3> QED
      BY <1>7, <2>1, <3>1, <3>2
  <2> QED
    BY <1>3, <1>10, <2>2
<1>11. ASSUME port # <<>>, Head(port).kind = "FileUpload",
              tasks' = Append(tasks, Message("Cancel", Head(port).of))
       PROVE  Goal
  <2>0. /\ Head(port) \in Items(port) /\ Head(port) \in Messages
        /\ Head(port).of \in Requests /\ <<Head(port).of, Head(port).file>> \in Uploads
    BY <1>0, <1>11, MessageQueue, Fronts DEF FileKinds
  <2>p. PICK q \in Requests, f \in Files : q = Head(port).of /\ f = Head(port).file
    BY <2>0 DEF Uploads
  <2>1. Head(port) \in Items(port) /\ Head(port) \in Messages /\ <<q, f>> \in Uploads
    BY <2>0, <2>p
  <2>2. Head(port) = FileMessage("FileUpload", <<q, f>>)
    <3>1. Head(port) \in [kind : FileKinds, of : Requests, file : Files]
      BY <1>11, <2>1 DEF Messages, PlainKinds
    <3> QED
      BY <1>11, <2>p, <3>1 DEF FileMessage
  <2>3. <<q, f>> \in Told(port) /\ f \in Files
    BY <2>1, <2>2 DEF Told, Uploads
  <2>4. Settled(q, 0) \/ Misled(q)
    BY <2>1, <2>3 DEF TellInv, Ending, Reached, LastInv
  <2>5. (consent'[q] # {} /\ (ui'.of = q => granting' = <<>>)) \/ Misled(q)'
    BY <1>m, <2>1, <2>4, PageSettled DEF Settled
  <2>6. \A r \in Requests : LastWord(Message("Cancel", q), r) => r = q
    BY <1>6
  <2> QED
    BY <1>3, <1>11, <2>p, <2>5, <2>6
<1>12. Goal
  BY <1>0, <1>4, <1>5, <1>8, <1>9, <1>10, <1>11 DEF TaskSteps
<1> QED
  BY <1>2, <1>12 DEF LastInv

-----------------------------------------------------------------------------
(* The session of the isolate and the uploads of a cancelled one.           *)

\* What has come of the answers to a request is among these files.
Covered(r, fs) ==
  /\ \A p \in replies : p.asked = r => p.files \cap Offered[r] \subseteq fs
  /\ decision[r] # <<>> => decision[r][1] \cap Offered[r] \subseteq fs
  /\ \A f \in Files : up[<<r, f>>] # "none" => f \in fs

LEMMA StaysCovered ==
  ASSUME AppType, AnswersType, [Next]_vars, NEW r \in Requests, NEW fs, Covered(r, fs), ~Misled(r)',
         \A p \in replies' : p \in replies \/ p.files \cap Offered[r] \subseteq fs
  PROVE  Covered(r, fs)'
<1>0. /\ decision \in [Requests -> {<<>>} \cup {<<a>> : a \in SUBSET Answers}]
      /\ AnswerSteps
  BY NextAnswers DEF AppType, ServerType
<1>1. \A p \in replies' : p.asked = r => p.files \cap Offered[r] \subseteq fs
  BY DEF Covered
<1>2. ASSUME decision'[r] # <<>> PROVE decision'[r][1] \cap Offered[r] \subseteq fs
  <2>1. CASE decision'[r] = decision[r]
    BY <1>2, <2>1 DEF Covered
  <2>2. ASSUME NEW p \in replies, decision'[r] = <<p.files>>, p.asked \in answers'[r]
        PROVE  decision'[r][1] \cap Offered[r] \subseteq fs
    <3>1. decision'[r][1] = p.files /\ p.asked = r
      BY <2>2 DEF Misled
    <3> QED
      BY <3>1 DEF Covered
  <2> QED
    BY <1>0, <2>1, <2>2 DEF AnswerSteps
<1>3. ASSUME NEW f \in Files, up'[<<r, f>>] # "none" PROVE f \in fs
  <2> DEFINE u == <<r, f>>
  <2>1. u \in Uploads /\ u[1] = r /\ u[2] = f
    BY DEF Uploads
  <2>2. CASE up[u] # "none"
    BY <2>2 DEF Covered
  <2>3. CASE up[u] = "none"
    <3>1. UpMove(u)
      BY <1>3, <2>1, <2>3, UpMoves
    <3>2. TakeDecision(r) /\ f \in decision[r][1] \cap Offered[r]
      BY <2>1, <2>3, <3>1 DEF UpMove
    <3> QED
      BY <3>2 DEF TakeDecision, Covered
  <2> QED
    BY <2>2, <2>3
<1> QED
  BY <1>1, <1>2, <1>3 DEF Covered

\* The isolate's session has the files of the last answer that accepts some of
\* them, and no cancellation of it is under way or done.
SessionInv ==
  /\ session.of \in Requests \cup {NoRequest}
  /\ \A r \in Requests : session.of = r /\ ~Misled(r) =>
       Covered(r, session.files) /\ r \notin cancels \cup cancelled

LEMMA NextSession ==
  ASSUME AppType, AnswersType, FlowInv, LastInv, SessionInv, [Next]_vars
  PROVE  SessionInv'
<1>0. /\ tasks \in Seq(Tasks) /\ sink \in Seq(Messages) /\ NoRequest \notin Requests
      /\ cancels \subseteq Requests
  BY RequestFacts DEF AppType, QueueType
<1>n. session' = NoSession => SessionInv'
  BY <1>0 DEF NoSession, SessionInv
<1>m. \A r \in Requests : Misled(r) => Misled(r)'
  BY MisledGrows
<1> USE DEF serverVars, bridgeVars, isolateVars, callVars, userVars, historyVars
\* The session stays, and nothing is decided.
<1>1. ASSUME session' = session, replies' \subseteq replies,
             \A r \in Requests : r \in cancels' \cup cancelled' /\ r \notin cancels \cup cancelled =>
               session.of # r \/ Misled(r)
      PROVE  SessionInv'
  <2>1. ASSUME NEW r \in Requests, session.of = r, ~Misled(r)'
        PROVE  Covered(r, session.files)' /\ r \notin cancels' \cup cancelled'
    <3>1. ASSUME NEW fs, fs = session.files PROVE Covered(r, fs)'
      <4>1. Covered(r, fs)
        BY <1>m, <2>1, <3>1 DEF SessionInv
      <4> QED
        BY <1>1, <2>1, <4>1, StaysCovered
    <3>2. Covered(r, session.files)'
      BY <1>1, <3>1 DEF Covered
    <3> QED
      BY <1>m, <1>1, <2>1, <3>2 DEF SessionInv
  <2> QED
    BY <1>1, <2>1 DEF SessionInv
<1>2. ASSUME IsolateDecision PROVE SessionInv'
  <2> DEFINE t == Head(tasks)
  <2>1. /\ tasks # <<>> /\ t.kind = "Decision" /\ UNCHANGED <<cancels, cancelled>>
        /\ session' = NoSession \/ session' = [of |-> t.of, files |-> t.files]
        /\ replies' = replies \cup {[files |-> t.files, asked |-> t.asked]}
    BY <1>2 DEF IsolateDecision
  <2>2. /\ t \in Tasks /\ t.of \in Requests /\ 1 \in DOMAIN tasks /\ tasks[1] = t
    BY <1>0, <2>1, TaskQueue, TaskFacts
  <2> HIDE DEF t
  <2>3. ~Ending(t.of) \/ Misled(t.of)
    <3>1. ~Settled(t.of, 0)
      <4>1. 1 > 0
        OBVIOUS
      <4> QED
        BY <2>1, <2>2, <4>1 DEF Settled
    <3> QED
      BY <2>2, <3>1 DEF LastInv
  <2>4. ASSUME NEW r, r = t.of, NEW fs, fs = t.files, ~Misled(r)' PROVE Covered(r, fs)'
    <3>1. Covered(r, fs)
      BY <1>m, <2>2, <2>3, <2>4 DEF Ending, Reached, Covered
    <3>2. \A p \in replies' : p \in replies \/ p.files \cap Offered[r] \subseteq fs
      BY <2>1, <2>4
    <3> QED
      BY <2>2, <2>4, <3>1, <3>2, StaysCovered
  <2>5. CASE session' = [of |-> t.of, files |-> t.files]
    <3>1. session'.of = t.of /\ session'.files = t.files
      BY <2>5
    <3>2. \A r \in Requests : r = t.of /\ ~Misled(r)' => r \notin cancels' \cup cancelled'
      BY <1>m, <2>1, <2>3 DEF Ending
    <3>3. ASSUME NEW r \in Requests, r = t.of, ~Misled(r)' PROVE Covered(r, session.files)'
      BY <2>4, <3>1, <3>3 DEF Covered
    <3> QED
      BY <2>2, <3>1, <3>2, <3>3 DEF SessionInv
  <2> QED
    BY <1>n, <2>1, <2>5
<1>3. ASSUME IsolateCancel PROVE SessionInv'
  <2>1. /\ session' = NoSession \/ (session' = session /\ session.of # Head(tasks).of)
        /\ cancels' = cancels \cup {Head(tasks).of} /\ UNCHANGED <<cancelled, replies>>
    BY <1>3 DEF IsolateCancel
  <2>2. CASE session' = session /\ session.of # Head(tasks).of
    BY <1>1, <2>1, <2>2
  <2> QED
    BY <1>n, <2>1, <2>2
<1>4. ASSUME IsolateFileUpload PROVE SessionInv'
  <2> DEFINE u == <<Head(sink).of, Head(sink).file>>
  <2>1. /\ sink # <<>> /\ Head(sink).kind = "FileUpload" /\ UNCHANGED <<session, replies, cancelled>>
        /\ \/ cancels' = cancels
           \/ cancels' = cancels \cup {u[1]} /\ (session.of # u[1] \/ u[2] \notin session.files)
    BY <1>4 DEF IsolateFileUpload
  <2>2. u \in Uploads /\ u \in Told(sink)
    BY <1>0, <2>1, Fronts, ToldQueue DEF FlowInv
  <2> HIDE DEF u
  <2>3. u = <<u[1], u[2]>> /\ u[1] \in Requests /\ u[2] \in Files
    BY <2>2 DEF Uploads
  <2>4. up[u] # "none"
    BY <2>2 DEF FlowInv
  <2>5. session.of = u[1] => u[2] \in session.files \/ Misled(u[1])
    BY <2>3, <2>4 DEF SessionInv, Covered
  <2> QED
    BY <1>1, <2>1, <2>5
<1>5. ASSUME NEW q \in Requests, CancelSession(q) PROVE SessionInv'
  <2>1. /\ q \in cancels /\ cancels' \subseteq cancels /\ cancelled' = cancelled \cup {q}
        /\ UNCHANGED <<session, replies>>
    BY <1>5 DEF CancelSession
  <2> QED
    BY <1>1, <2>1
<1>6. ASSUME UNCHANGED <<cancels, cancelled>>, session' \in {session, NoSession} PROVE SessionInv'
  <2>1. CASE session' = session /\ replies' \subseteq replies
    BY <1>1, <1>6, <2>1
  <2> QED
    BY <1>2, <1>n, <1>6, <2>1, NewReply
<1> QED
  BY <1>2, <1>3, <1>4, <1>5, <1>6, CancelActions DEF CancelActs

\* No handler is about to give a target to an upload of a cancelled session.
Barred ==
  \A u \in responders :
    up[u] = "waiting" /\ u[1] \in cancelled /\ ~Misled(u[1]) => Shut(u)

LEMMA NextBarred ==
  ASSUME AppType, AnswersType, FlowInv, SessionInv, Barred, [Next]_vars
  PROVE  Barred'
<1>0. /\ events \in Seq(Messages) /\ responders \subseteq Uploads /\ queued \subseteq Uploads
      /\ handlers \in [Uploads -> {"idle", "prepare", "wait"}]
      /\ \A u \in Uploads : u[1] \in Requests
  BY DEF AppType, QueueType, BridgeType, Uploads
<1>m. \A r \in Requests : Misled(r) => Misled(r)'
  BY MisledGrows
<1> USE DEF serverVars, bridgeVars, isolateVars, callVars, userVars, historyVars
<1>1. ASSUME NEW r \in Requests, CancelSession(r) PROVE Barred'
  <2>1. /\ cancelled' = cancelled \cup {r} /\ responders' = Others(r)
        /\ up' = Dropped(responders \ Others(r)) /\ UNCHANGED <<handlers, queued>>
    BY <1>1 DEF CancelSession
  <2>2. \A u \in responders' : u \in responders /\ u[1] # r
    BY <2>1 DEF Others
  <2>3. \A u \in Uploads : up'[u] = "waiting" => up[u] = "waiting"
    BY <2>1, DroppedType DEF AppType
  <2>4. \A u \in Uploads : Shut(u)' = Shut(u)
    BY <2>1 DEF Shut
  <2> QED
    BY <1>m, <1>0, <2>1, <2>2, <2>3, <2>4 DEF Barred
\* Elsewhere no session is cancelled.
<1>2. ASSUME cancelled' = cancelled, NEW u \in responders', up'[u] = "waiting",
             u[1] \in cancelled, ~Misled(u[1])'
      PROVE  Shut(u)'
  <2>0. u \in Uploads
    <3>1. BridgeType'
      BY NextBridge
    <3> QED
      BY <3>1 DEF BridgeType
  <2>1. CASE up[u] # "waiting"
    <3>1. StartUpload(u) /\ up[u] = "pending"
      <4>1. UpMove(u)
        BY <1>2, <2>0, <2>1, UpMoves
      <4> QED
        BY <1>2, <4>1 DEF UpMove
    <3>2. UNCHANGED <<handlers, queued>>
      BY <3>1 DEF StartUpload
    <3>3. Shut(u)
      BY <2>0, <3>1 DEF FlowInv
    <3> QED
      BY <3>2, <3>3 DEF Shut
  <2>2. CASE up[u] = "waiting"
    <3>1. Shut(u)
      <4>1. CASE u \in responders
        BY <1>m, <1>0, <1>2, <2>0, <2>2, <4>1 DEF Barred
      <4>2. CASE u \notin responders
        <5>1. ASSUME NEW v \in Uploads,
                     PrepareFails(v) \/ RespondFileUpload(v) \/ \E kept \in BOOLEAN : HandlerEnds(v, kept)
              PROVE  responders' \subseteq responders
          BY <5>1 DEF PrepareFails, RespondFileUpload, HandlerEnds
        <5>2. ASSUME NEW r \in Requests, CancelSession(r) PROVE responders' \subseteq responders
          BY <5>2 DEF CancelSession, Others
        <5>3. ASSUME IsolateFileUpload \/ \E reply \in replies : RespondPrepareUpload(reply)
              PROVE  responders' = responders
          BY <5>3 DEF IsolateFileUpload, RespondPrepareUpload
        <5>4. Listen
          BY <1>2, <4>2, <5>1, <5>2, <5>3, BridgeActions DEF BridgeSteps
        <5>5. /\ events # <<>> /\ Head(events).kind = "FileUpload"
              /\ u = <<Head(events).of, Head(events).file>>
          BY <1>2, <4>2, <5>4 DEF Listen, Others
        <5>6. u \in Told(events)
          BY <1>0, <5>5, ToldQueue DEF FlowInv
        <5> QED
          BY <2>0, <5>6 DEF FlowInv
      <4> QED
        BY <4>1, <4>2
    <3>2. CASE UNCHANGED <<handlers, queued>>
      BY <3>1, <3>2 DEF Shut
    <3>3. CASE IsolateFileUpload
      <4> DEFINE v == <<Head(sink).of, Head(sink).file>>
      <4>1. /\ sink # <<>> /\ Head(sink).kind = "FileUpload"
            /\ \/ UNCHANGED <<handlers, queued>>
               \/ /\ session.of = v[1]
                  /\ handlers' = handlers \/ handlers' = [handlers EXCEPT ![v] = "prepare"]
                  /\ queued' = queued \/ queued' = queued \cup {v}
        BY <3>3 DEF IsolateFileUpload
      <4>2. v \in Uploads
        BY <4>1, Fronts
      <4> HIDE DEF v
      <4>3. session.of # u[1]
        BY <1>m, <1>0, <1>2, <2>0 DEF SessionInv
      <4>4. CASE session.of = v[1]
        <5>1. v # u
          BY <4>3, <4>4
        <5>2. handlers'[u] = handlers[u] /\ (u \in queued' <=> u \in queued)
          BY <1>0, <2>0, <4>1, <4>2, <5>1
        <5> QED
          BY <3>1, <5>2 DEF Shut
      <4> QED
        BY <3>2, <4>1, <4>4
    <3>4. ASSUME NEW v \in Uploads,
                 PrepareFails(v) \/ RespondFileUpload(v) \/ \E kept \in BOOLEAN : HandlerEnds(v, kept)
          PROVE  Shut(u)'
      <4>1. \/ /\ v \in queued /\ handlers' = [handlers EXCEPT ![v] = "prepare"] /\ queued' = queued \ {v}
            \/ /\ v \notin queued /\ handlers' = [handlers EXCEPT ![v] = "idle"] /\ queued' = queued
            \/ handlers' = [handlers EXCEPT ![v] = "wait"] /\ queued' = queued
        BY <3>4 DEF PrepareFails, RespondFileUpload, HandlerEnds, HandlerOver
      <4>2. CASE v = u
        <5>1. v \notin queued
          BY <3>1, <4>2 DEF Shut
        <5>2. queued' = queued /\ handlers'[u] \in {"idle", "wait"}
          BY <1>0, <2>0, <4>1, <4>2, <5>1
        <5> QED
          BY <4>2, <5>1, <5>2 DEF Shut
      <4>3. CASE v # u
        <5>1. handlers'[u] = handlers[u] /\ (u \in queued' <=> u \in queued)
          BY <1>0, <2>0, <4>1, <4>3
        <5> QED
          BY <3>1, <5>1 DEF Shut
      <4> QED
        BY <4>2, <4>3
    <3>5. ASSUME Listen \/ (\E reply \in replies : RespondPrepareUpload(reply))
                 \/ \E r \in Requests : CancelSession(r)
          PROVE  UNCHANGED <<handlers, queued>>
      BY <3>5 DEF Listen, RespondPrepareUpload, CancelSession
    <3> QED
      BY <3>2, <3>3, <3>4, <3>5, BridgeActions DEF BridgeSteps
  <2> QED
    BY <2>1, <2>2
<1>3. cancelled' = cancelled \/ \E r \in Requests : CancelSession(r)
  BY CancelActions DEF CancelActs, IsolateFileUpload, IsolateDecision, IsolateCancel
<1>4. CASE cancelled' = cancelled
  BY <1>2, <1>4 DEF Barred
<1> QED
  BY <1>1, <1>3, <1>4

CallInv ==
  AppInv /\ FlowInv /\ TellInv /\ GrantInv /\ LastInv /\ SessionInv /\ Barred

LEMMA InitCalls == Init => CallInv
<1> SUFFICES ASSUME Init PROVE CallInv
  OBVIOUS
<1>1. /\ events = <<>> /\ sink = <<>> /\ port = <<>> /\ tasks = <<>> /\ granting = <<>>
      /\ replies = {} /\ cancels = {} /\ cancelled = {} /\ responders = {} /\ queued = {}
      /\ ui = Idle /\ session = NoSession
      /\ decision = [r \in Requests |-> <<>>]
      /\ up = [u \in Uploads |-> "none"] /\ handlers = [u \in Uploads |-> "idle"]
  BY DEF Init
<1>2. Items(<<>>) = {} /\ Single(<<>>) /\ Told(<<>>) = {} /\ DOMAIN <<>> = {}
  BY DEF Items, Single, Told
<1>3. FlowInv
  BY <1>1, <1>2 DEF FlowInv, Shut
<1>4. TellInv
  BY <1>1, <1>2 DEF TellInv
<1>5. GrantInv
  <2>1. \A i \in 1..(Len(granting) - 1) : FALSE
    BY <1>1
  <2>2. ui.status \notin Decided
    BY <1>1, UiFacts DEF Decided
  <2> QED
    BY <1>1, <1>2, <2>1, <2>2 DEF GrantInv
<1>6. LastInv
  <2>1. \A r \in Requests, f \in Files : <<r, f>> \in Uploads
    BY DEF Uploads
  <2> QED
    BY <1>1, <1>2, <2>1 DEF LastInv, Ending, Reached
<1>7. SessionInv
  BY <1>1, RequestFacts DEF SessionInv, NoSession
<1>8. Barred
  BY <1>1 DEF Barred
<1> QED
  BY <1>3, <1>4, <1>5, <1>6, <1>7, <1>8, InitApp DEF CallInv

LEMMA NextCalls ==
  ASSUME CallInv, [Next]_vars
  PROVE  CallInv'
<1>1. /\ AppInv /\ FlowInv /\ TellInv /\ GrantInv /\ LastInv /\ SessionInv /\ Barred
      /\ AppType /\ PipeInv /\ ConsentInv /\ AnswersType
  BY DEF CallInv, AppInv, ConsentInv
<1>2. AppInv' /\ FlowInv' /\ TellInv' /\ GrantInv'
  BY <1>1, NextApp, NextFlow, NextTell, NextGrant
<1>3. LastInv' /\ SessionInv' /\ Barred'
  BY <1>1, NextLast, NextSession, NextBarred
<1> QED
  BY <1>2, <1>3 DEF CallInv

\* No upload gets a target once cancel_session of api/server.rs has run for its
\* session, in whatever order server_isolate.dart's calls to cancel, to answer
\* and to name a target arrive, unless the answer to another request started
\* the session: a cancellation comes after the last decision for its request,
\* so the isolate lets no handler of the session start after it.
THEOREM CancelledStaysCancelled == Spec => CancelledGetsNoTarget
<1> DEFINE Refused == \A u \in Uploads :
                        up[u] = "waiting" /\ up'[u] = "writing" =>
                          u[1] \notin cancelled \/ Misled(u[1])
<1>1. ASSUME CallInv, [Next]_vars PROVE [Refused]_vars
  <2>1. ASSUME NEW u \in Uploads, up[u] = "waiting", up'[u] = "writing", u[1] \in cancelled,
               ~Misled(u[1])
        PROVE  FALSE
    <3>1. UpMove(u)
      BY <1>1, <2>1, UpMoves DEF CallInv, AppInv
    <3>2. u \in responders /\ handlers[u] = "prepare"
      BY <2>1, <3>1 DEF UpMove
    <3> QED
      BY <1>1, <2>1, <3>2 DEF CallInv, Barred, Shut
  <2> QED
    BY <2>1
<1>2. Spec => []CallInv
  BY InitCalls, NextCalls, PTL DEF Spec
<1>3. Spec => [][Refused]_vars
  BY <1>1, <1>2, PTL DEF Spec
<1> QED
  BY <1>3 DEF CancelledGetsNoTarget
=============================================================================
