--------------------------- MODULE RemoteFsProofs ---------------------------
(***************************************************************************)
(* Proofs about RemoteFs, for any number of requests, paths and roots, any *)
(* limits, and any sequence of grants the user publishes.                  *)
(***************************************************************************)
EXTENDS RemoteFs, FiniteSetTheorems, TLAPS

-----------------------------------------------------------------------------
(* Types. *)

LEMMA InitType == Init => TypeOK
<1> SUFFICES ASSUME Init PROVE TypeOK
  OBVIOUS
<1> USE ConstantsAssumption DEF Init
<1>1. CoreType
  BY DEF CoreType, Busy
<1>2. BridgeType
  BY DEF BridgeType
<1>3. AppType
  BY DEF AppType, Grants
<1>4. FsType
  BY DEF FsType, Items
<1> QED
  BY <1>1, <1>2, <1>3, <1>4 DEF TypeOK

LEMMA FinishType ==
  ASSUME CoreType, NEW r \in Requests,
         NEW how \in {"none", "ok", "busy", "error", "unavailable"},
         Finish(r, how)
  PROVE  CoreType'
BY DEF CoreType, Finish

LEMMA GotoType ==
  ASSUME CoreType, NEW r \in Requests, NEW where \in Busy, Goto(r, where)
  PROVE  CoreType'
BY DEF CoreType, Goto

LEMMA RespondType ==
  ASSUME BridgeType, AppType, NEW r \in Requests,
         NEW how \in {"ok", "error"}, Respond(r, how)
  PROVE  /\ pending' \subseteq Requests
         /\ answer' \in [Requests -> {"none", "ok", "error", "closed"}]
         /\ app' \in [Requests -> {"idle", "event", "resolve", "check",
                                   "finish", "done"}]
BY DEF BridgeType, AppType, Respond

LEMMA DroppedType ==
  ASSUME BridgeType, NEW R
  PROVE  Dropped(R) \in [Requests -> {"none", "ok", "error", "closed"}]
BY DEF BridgeType, Dropped

LEMMA NextType == TypeOK /\ [Next]_vars => TypeOK'
<1> SUFFICES ASSUME CoreType, BridgeType, AppType, FsType, [Next]_vars
             PROVE  TypeOK'
  BY DEF TypeOK
<1>0. /\ UNCHANGED coreVars => CoreType'
      /\ UNCHANGED bridgeVars => BridgeType'
      /\ UNCHANGED appVars => AppType'
      /\ UNCHANGED fsVars => FsType'
  <2>1. UNCHANGED coreVars => CoreType'
    BY DEF coreVars, CoreType
  <2>2. UNCHANGED bridgeVars => BridgeType'
    BY DEF bridgeVars, BridgeType
  <2>3. UNCHANGED appVars => AppType'
    BY DEF appVars, AppType
  <2>4. UNCHANGED fsVars => FsType'
    BY DEF fsVars, FsType
  <2> QED
    BY <2>1, <2>2, <2>3, <2>4
<1> USE <1>0 DEF TypeOK
<1>1. ASSUME NEW r \in Requests, Handle(r) PROVE TypeOK'
  <2>1. CoreType'
    BY <1>1 DEF Handle, CoreType, Busy
  <2> QED
    BY <1>1, <2>1 DEF Handle
<1>2. ASSUME NEW r \in Requests, CollectJson(r) PROVE TypeOK'
  <2>1. CoreType'
    BY <1>2, FinishType, GotoType DEF CollectJson, Busy
  <2> QED
    BY <1>2, <2>1 DEF CollectJson
<1>3. ASSUME NEW r \in Requests, Dispatch(r) PROVE TypeOK'
  <2>1. CoreType'
    BY <1>3, FinishType, GotoType DEF Dispatch, Busy
  <2>2. queue' \in Seq(Requests) /\ Len(queue') <= Capacity
    BY <1>3, ConstantsAssumption DEF Dispatch, BridgeType
  <2> QED
    BY <1>3, <2>1, <2>2 DEF Dispatch, BridgeType
<1>4. ASSUME NEW r \in Requests, Timeout(r) PROVE TypeOK'
  BY <1>4, FinishType DEF Timeout
<1>5. ASSUME NEW r \in Requests, Receive(r) PROVE TypeOK'
  <2>1. CoreType'
    BY <1>5, FinishType, GotoType DEF Receive, CoreType, Busy
  <2>2. writer' \in [Requests -> {"none", "spawned", "open", "ok", "failed"}]
    BY <1>5 DEF Receive, FsType
  <2> QED
    BY <1>5, <2>1, <2>2 DEF Receive, FsType
<1>6. ASSUME NEW r \in Requests, StreamEnd(r) PROVE TypeOK'
  BY <1>6, FinishType DEF StreamEnd
<1>7. ASSUME NEW r \in Requests, SaveDone(r) PROVE TypeOK'
  BY <1>7, FinishType DEF SaveDone
<1>8. ASSUME NEW r \in Requests, Drop(r) PROVE TypeOK'
  <2>1. reply[r] \in {"none", "ok", "busy", "error", "unavailable"}
    BY DEF CoreType
  <2> QED
    BY <1>8, <2>1, FinishType DEF Drop
<1>9. ASSUME NEW r \in Requests, WriterOpen(r) PROVE TypeOK'
  <2>1. FsType'
    BY <1>9, ConstantsAssumption DEF WriterOpen, FsType, Items
  <2> QED
    BY <1>9, <2>1 DEF WriterOpen
<1>10. ASSUME NEW r \in Requests, WriterEnd(r) PROVE TypeOK'
  <2>1. FsType'
    BY <1>10 DEF WriterEnd, FsType
  <2> QED
    BY <1>10, <2>1 DEF WriterEnd
<1>11. ASSUME NEW r \in Requests, AppStart(r) PROVE TypeOK'
  <2>1. inbox' \in Seq(Requests)
    BY <1>11 DEF AppStart, BridgeType
  <2>2. access.grants[RootOf[Target[r]]] \in Grants
    BY ConstantsAssumption DEF AppType
  <2>3. CASE Authorized(r)
    BY <1>11, <2>1, <2>2, <2>3 DEF AppStart, BridgeType, AppType
  <2>4. CASE ~Authorized(r)
    <3>1. Respond(r, "error")
      BY <1>11, <2>4 DEF AppStart
    <3> QED
      BY <1>11, <2>1, <2>4, <3>1, RespondType DEF AppStart, BridgeType, AppType
  <2> QED
    BY <2>3, <2>4
<1>12. ASSUME NEW r \in Requests, AppResolve(r) PROVE TypeOK'
  <2>1. CASE Resolves(r)
    BY <1>12, <2>1 DEF AppResolve, BridgeType, AppType
  <2>2. CASE ~Resolves(r)
    BY <1>12, <2>2, RespondType DEF AppResolve, BridgeType, AppType
  <2> QED
    BY <2>1, <2>2
<1>13. ASSUME NEW r \in Requests, AppIoError(r) PROVE TypeOK'
  BY <1>13, RespondType DEF AppIoError, BridgeType, AppType
<1>14. ASSUME NEW r \in Requests, AppCheck(r) PROVE TypeOK'
  <2>1. CASE /\ fs' = Mutated(r)
             /\ executed' = executed \cup {r}
             /\ app' = [app EXCEPT ![r] = "finish"]
             /\ UNCHANGED <<pending, answer>>
    <3>1. fs' \in [Paths -> Items \cup {None}]
      BY <2>1, ConstantsAssumption DEF Mutated, FsType, Items
    <3> QED
      BY <1>14, <2>1, <3>1 DEF AppCheck, BridgeType, AppType, FsType
  <2>2. CASE UNCHANGED <<fs, executed>> /\ \E how \in {"ok", "error"} : Respond(r, how)
    BY <1>14, <2>2, RespondType DEF AppCheck, BridgeType, AppType, FsType
  <2> QED
    BY <1>14, <2>1, <2>2 DEF AppCheck
<1>15. ASSUME NEW r \in Requests, AppFinish(r) PROVE TypeOK'
  <2>1. \E how \in {"ok", "error"} : Respond(r, how)
    BY <1>15 DEF AppFinish
  <2> QED
    BY <1>15, <2>1, RespondType DEF AppFinish, BridgeType, AppType
<1>16. CASE BridgeEvent
  <2>1. Head(queue) \in Requests /\ queue' \in Seq(Requests) /\ Len(queue') <= Capacity
    BY <1>16, ConstantsAssumption DEF BridgeEvent, BridgeType
  <2>2. Pruned \subseteq Requests
    BY DEF Pruned, BridgeType
  <2>3. CASE Cardinality(Pruned) >= MaxConcurrent
    <3>1. answer' = Dropped({Head(queue)})
      BY <1>16, <2>3 DEF BridgeEvent
    <3>2. answer' \in [Requests -> {"none", "ok", "error", "closed"}]
      BY <3>1, DroppedType
    <3> QED
      BY <1>16, <2>1, <2>2, <2>3, <3>2 DEF BridgeEvent, BridgeType, AppType
  <2>4. CASE ~(Cardinality(Pruned) >= MaxConcurrent)
    <3>1. inbox' \in Seq(Requests)
      BY <1>16, <2>1, <2>4 DEF BridgeEvent, BridgeType
    <3> QED
      BY <1>16, <2>1, <2>2, <2>4, <3>1 DEF BridgeEvent, BridgeType, AppType
  <2> QED
    BY <2>3, <2>4
<1>17. CASE CleanupTick
  BY <1>17 DEF CleanupTick, Pruned, BridgeType
<1>18. CASE DartGone
  <2>1. app' \in [Requests -> {"idle", "event", "resolve", "check", "finish",
                            "done"}]
    BY <1>18 DEF DartGone
  <2>2. BridgeType'
    <3>1. inbox' \in Seq(Requests)
      BY <1>18 DEF DartGone
    <3>2. sink' \in BOOLEAN
      BY <1>18 DEF DartGone
    <3> QED
      BY <1>18, <3>1, <3>2 DEF DartGone, BridgeType
  <2>3. AppType'
    BY <1>18, <2>1 DEF DartGone, AppType
  <2> QED
    BY <1>18, <2>2, <2>3 DEF DartGone
<1>19. CASE ListenEnds
  <2>1. answer' \in [Requests -> {"none", "ok", "error", "closed"}]
    BY <1>19, DroppedType DEF ListenEnds
  <2>2. queue' \in Seq(Requests) /\ Len(queue') <= Capacity
    BY <1>19, ConstantsAssumption DEF ListenEnds
  <2> QED
    BY <1>19, <2>1, <2>2 DEF ListenEnds, BridgeType
<1>20. CASE UpdateAccess
  BY <1>20, ConstantsAssumption DEF UpdateAccess, AppType
<1>21. CASE UNCHANGED vars
  BY <1>21 DEF vars, coreVars, bridgeVars, appVars, fsVars
<1> QED
  BY <1>1, <1>2, <1>3, <1>4, <1>5, <1>6, <1>7, <1>8, <1>9, <1>10, <1>11, 
     <1>12, <1>13, <1>14, <1>15, <1>16, <1>17, <1>18, <1>19, <1>20, <1>21
     DEF Next, CoreStep, AppStep

\* Every variable has its type in every reachable state.
THEOREM TypeCorrect == Spec => []TypeOK
BY InitType, NextType, PTL DEF Spec

\* What the proofs below use of the types.
LEMMA TypeFunctions ==
  TypeOK =>
    /\ pc \in [Requests -> Busy \cup {"new", "done"}]
    /\ reply \in [Requests -> {"none", "ok", "busy", "error", "unavailable"}]
    /\ answer \in [Requests -> {"none", "ok", "error", "closed"}]
    /\ app \in [Requests -> {"idle", "event", "resolve", "check", "finish",
                             "done"}]
    /\ writer \in [Requests -> {"none", "spawned", "open", "ok", "failed"}]
    /\ fs \in [Paths -> Items \cup {None}]
BY DEF TypeOK, CoreType, BridgeType, AppType, FsType

-----------------------------------------------------------------------------
(* An answer tells the truth. *)

\* A handler that still waits has told its client nothing, and an ok that was
\* told is true.
Told ==
  /\ \A r \in Requests : reply[r] = "ok" => pc[r] \in {"stream", "done"}
  /\ \A r \in Requests : pc[r] = "stream" => reply[r] = "ok"
  /\ \A r \in Requests : writer[r] \in {"open", "ok"} => r \in executed
  /\ OkMeansDone

\* What is behind an ok on its way from the isolate to the client: the isolate
\* looks up the result only after the mutation, and the answer that is not a
\* file to read or write comes after that.
Answered ==
  /\ \A r \in Requests : app[r] = "finish" => r \in executed
  /\ \A r \in Requests :
       answer[r] = "ok" /\ Kind[r] \in {"create", "rename", "move", "delete"} =>
         r \in executed

DoneInv == Told /\ Answered

LEMMA InitDone == Init => DoneInv
BY DEF Init, DoneInv, Told, Answered, OkMeansDone

\* A handler may end when what it tells is true.
LEMMA FinishDone ==
  ASSUME TypeOK, Told, NEW r \in Requests, NEW how, Finish(r, how),
         UNCHANGED <<writer, executed>>,
         how = "ok" =>
           /\ Kind[r] \in {"create", "rename", "move", "delete", "write"} =>
                r \in executed
           /\ Kind[r] = "write" => writer[r] = "ok"
  PROVE  Told'
BY TypeFunctions DEF Told, OkMeansDone, Finish

LEMMA GotoDone ==
  ASSUME TypeOK, Told, NEW r \in Requests, pc[r] \in {"body", "send", "wait"},
         NEW where \in {"send", "wait"}, Goto(r, where), UNCHANGED <<writer, executed>>
  PROVE  Told'
BY TypeFunctions DEF Told, OkMeansDone, Goto

LEMMA NextDone == TypeOK /\ DoneInv /\ [Next]_vars => DoneInv'
<1> SUFFICES ASSUME TypeOK, Told, Answered, [Next]_vars
             PROVE  Told' /\ Answered'
  BY DEF DoneInv
<1>0. /\ UNCHANGED <<coreVars, fsVars>> => Told'
      /\ UNCHANGED <<coreVars, writer>> /\ executed \subseteq executed' => Told'
      /\ UNCHANGED <<answer, app>> /\ executed \subseteq executed' => Answered'
  BY DEF Told, OkMeansDone, Answered, coreVars, fsVars
<1> USE <1>0, TypeFunctions
<1>1. ASSUME NEW r \in Requests, Handle(r) PROVE Told' /\ Answered'
  <2>1. Answered'
    BY <1>1 DEF Handle, bridgeVars, appVars, fsVars
  <2>2. Told'
    BY <1>1 DEF Told, OkMeansDone, Handle, coreVars, fsVars
  <2> QED
    BY <2>1, <2>2
<1>2. ASSUME NEW r \in Requests, CollectJson(r) PROVE Told' /\ Answered'
  <2>1. Answered'
    BY <1>2 DEF CollectJson, bridgeVars, appVars, fsVars
  <2>2. Told'
    BY <1>2, FinishDone, GotoDone DEF CollectJson, coreVars, fsVars
  <2> QED
    BY <2>1, <2>2
<1>3. ASSUME NEW r \in Requests, Dispatch(r) PROVE Told' /\ Answered'
  <2>1. Answered'
    BY <1>3 DEF Dispatch, bridgeVars, appVars, fsVars
  <2>2. Told'
    BY <1>3, FinishDone, GotoDone DEF Dispatch, coreVars, fsVars
  <2> QED
    BY <2>1, <2>2
<1>4. ASSUME NEW r \in Requests, Timeout(r) PROVE Told' /\ Answered'
  <2>1. Answered'
    BY <1>4 DEF Timeout, bridgeVars, appVars, fsVars
  <2>2. Told'
    BY <1>4, FinishDone DEF Timeout, coreVars, fsVars
  <2> QED
    BY <2>1, <2>2
<1>5. ASSUME NEW r \in Requests, Receive(r) PROVE Told' /\ Answered'
  <2>1. Answered'
    BY <1>5 DEF Receive, bridgeVars, appVars, fsVars
  <2>2. CASE \E how \in {"unavailable", "error"} : Finish(r, how) /\ UNCHANGED writer
    BY <1>5, <2>1, <2>2, FinishDone DEF Receive
  <2>3. CASE /\ answer[r] = "ok"
             /\ Kind[r] \notin {"read", "write"}
             /\ Finish(r, "ok")
             /\ UNCHANGED writer
    <3>1. Kind[r] \in {"create", "rename", "move", "delete", "write"} => r \in executed
      BY <2>3 DEF Answered
    <3> QED
      BY <1>5, <2>1, <2>3, <3>1, FinishDone DEF Receive
  <2>4. CASE /\ Kind[r] = "read"
             /\ pc' = [pc EXCEPT ![r] = "stream"]
             /\ reply' = [reply EXCEPT ![r] = "ok"]
             /\ UNCHANGED <<free, writer>>
    BY <1>5, <2>1, <2>4 DEF Receive, Told, OkMeansDone
  <2>5. CASE /\ Goto(r, "save")
             /\ writer' = [writer EXCEPT ![r] = "spawned"]
    BY <1>5, <2>1, <2>5 DEF Receive, Goto, Told, OkMeansDone
  <2> QED
    BY <1>5, <2>2, <2>3, <2>4, <2>5 DEF Receive
<1>6. ASSUME NEW r \in Requests, StreamEnd(r) PROVE Told' /\ Answered'
  <2>1. Answered'
    BY <1>6 DEF StreamEnd, bridgeVars, appVars, fsVars
  <2>2. Told'
    BY <1>6 DEF StreamEnd, Finish, Told, OkMeansDone, fsVars
  <2> QED
    BY <2>1, <2>2
<1>7. ASSUME NEW r \in Requests, SaveDone(r) PROVE Told' /\ Answered'
  <2>1. Answered'
    BY <1>7 DEF SaveDone, bridgeVars, appVars, fsVars
  <2>2. Told'
    BY <1>7, FinishDone DEF SaveDone, Told, coreVars, fsVars
  <2> QED
    BY <2>1, <2>2
<1>8. ASSUME NEW r \in Requests, Drop(r) PROVE Told' /\ Answered'
  <2>1. Answered'
    BY <1>8 DEF Drop, bridgeVars, appVars, fsVars
  <2>2. Told'
    BY <1>8 DEF Drop, Finish, Told, OkMeansDone, fsVars
  <2> QED
    BY <2>1, <2>2
<1>9. ASSUME NEW r \in Requests, WriterOpen(r) PROVE Told' /\ Answered'
  <2>1. Answered'
    BY <1>9 DEF WriterOpen, bridgeVars, appVars, fsVars
  <2>2. Told'
    BY <1>9 DEF WriterOpen, Told, OkMeansDone, coreVars, fsVars
  <2> QED
    BY <2>1, <2>2
<1>10. ASSUME NEW r \in Requests, WriterEnd(r) PROVE Told' /\ Answered'
  <2>1. Answered'
    BY <1>10 DEF WriterEnd, bridgeVars, appVars, fsVars
  <2>2. Told'
    BY <1>10 DEF WriterEnd, Told, OkMeansDone, coreVars, fsVars
  <2> QED
    BY <2>1, <2>2
<1>11. ASSUME NEW r \in Requests, AppStart(r) PROVE Told' /\ Answered'
  <2>1. Told'
    BY <1>11 DEF AppStart, fsVars
  <2>2. Answered'
    BY <1>11 DEF AppStart, Respond, Answered, fsVars
  <2> QED
    BY <2>1, <2>2
<1>12. ASSUME NEW r \in Requests, AppResolve(r) PROVE Told' /\ Answered'
  <2>1. Told'
    BY <1>12 DEF AppResolve, fsVars
  <2>2. Answered'
    BY <1>12 DEF AppResolve, Respond, Answered, fsVars
  <2> QED
    BY <2>1, <2>2
<1>13. ASSUME NEW r \in Requests, AppIoError(r) PROVE Told' /\ Answered'
  <2>1. Told'
    BY <1>13 DEF AppIoError, fsVars
  <2>2. Answered'
    BY <1>13 DEF AppIoError, Respond, Answered, fsVars
  <2> QED
    BY <2>1, <2>2
<1>14. ASSUME NEW r \in Requests, AppCheck(r) PROVE Told' /\ Answered'
  <2>1. Told'
    BY <1>14 DEF AppCheck, fsVars
  <2>2. Answered'
    BY <1>14 DEF AppCheck, Respond, Answered, fsVars
  <2> QED
    BY <2>1, <2>2
<1>15. ASSUME NEW r \in Requests, AppFinish(r) PROVE Told' /\ Answered'
  <2>1. Told'
    BY <1>15 DEF AppFinish, fsVars
  <2>2. Answered'
    BY <1>15 DEF AppFinish, Respond, Answered, fsVars
  <2> QED
    BY <2>1, <2>2
<1>16. CASE BridgeEvent
  <2>1. Told'
    BY <1>16 DEF BridgeEvent, fsVars
  <2>2. Answered'
    BY <1>16 DEF BridgeEvent, Dropped, Answered, bridgeVars, appVars, fsVars
  <2> QED
    BY <2>1, <2>2
<1>17. CASE CleanupTick
  <2>1. Told'
    BY <1>17 DEF CleanupTick, fsVars
  <2>2. Answered'
    BY <1>17 DEF CleanupTick, Answered, bridgeVars, appVars, fsVars
  <2> QED
    BY <2>1, <2>2
<1>18. CASE DartGone
  <2>1. Told'
    BY <1>18 DEF DartGone, fsVars
  <2>2. Answered'
    BY <1>18 DEF DartGone, Answered, bridgeVars, appVars, fsVars
  <2> QED
    BY <2>1, <2>2
<1>19. CASE ListenEnds
  <2>1. Told'
    BY <1>19 DEF ListenEnds, fsVars
  <2>2. Answered'
    BY <1>19 DEF ListenEnds, Dropped, Answered, bridgeVars, appVars, fsVars
  <2> QED
    BY <2>1, <2>2
<1>20. CASE UpdateAccess
  <2>1. Told'
    BY <1>20 DEF UpdateAccess, fsVars
  <2>2. Answered'
    BY <1>20 DEF UpdateAccess, Answered, bridgeVars, appVars, fsVars
  <2> QED
    BY <2>1, <2>2
<1>21. CASE UNCHANGED vars
  BY <1>21 DEF vars, coreVars, fsVars
<1> QED
  BY <1>1, <1>2, <1>3, <1>4, <1>5, <1>6, <1>7, <1>8, <1>9, <1>10, <1>11,
     <1>12, <1>13, <1>14, <1>15, <1>16, <1>17, <1>18, <1>19, <1>20, <1>21
     DEF Next, CoreStep, AppStep

\* A client is told ok only of a change that took place.
THEOREM OkIsTrue == Spec => []OkMeansDone
<1>1. DoneInv => OkMeansDone
  BY DEF DoneInv, Told
<1> QED
  BY <1>1, InitType, NextType, InitDone, NextDone, PTL DEF Spec

-----------------------------------------------------------------------------
(* Read-only roots. *)

\* Some policy of the user lets this root be written.
MayBeWritten(root) == \E policy \in Policies : policy[root] = "rw"

\* The snapshot is one the user published, and whoever holds a file to write
\* was authorized by one that allows it.  A result is looked up only for the
\* operations of the isolate, not for writes.
AllowedInv ==
  /\ access.grants \in Policies
  /\ \A r \in Requests :
       /\ answer[r] = "ok" /\ Kind[r] = "write" =>
            MayBeWritten(RootOf[Target[r]])
       /\ writer[r] # "none" => MayBeWritten(RootOf[Target[r]])
       /\ app[r] = "finish" => Kind[r] # "write"
  /\ ReadOnlyUntouched

LEMMA InitAllowed == Init => AllowedInv
BY ConstantsAssumption DEF Init, AllowedInv, ReadOnlyUntouched

\* An authorized request writes to roots that may be written.
LEMMA AuthorizedRoots ==
  ASSUME AllowedInv, NEW r \in Requests, Authorized(r),
         Kind[r] \in {"create", "rename", "move", "delete", "write"}
  PROVE  /\ MayBeWritten(RootOf[Target[r]])
         /\ Kind[r] \in {"rename", "move"} => MayBeWritten(RootOf[Dest[r]])
BY ConstantsAssumption
   DEF AllowedInv, MayBeWritten, Authorized, RootsWritten

LEMMA NextAllowed == TypeOK /\ AllowedInv /\ [Next]_vars => AllowedInv'
<1> SUFFICES ASSUME TypeOK, AllowedInv, [Next]_vars PROVE AllowedInv'
  OBVIOUS
<1> USE ConstantsAssumption, TypeFunctions
    DEF AllowedInv, ReadOnlyUntouched, MayBeWritten, vars, coreVars,
        bridgeVars, appVars, fsVars
<1>1. ASSUME NEW r \in Requests, Handle(r) PROVE AllowedInv'
  BY <1>1 DEF Handle
<1>2. ASSUME NEW r \in Requests, CollectJson(r) PROVE AllowedInv'
  BY <1>2 DEF CollectJson, Goto, Finish
<1>3. ASSUME NEW r \in Requests, Dispatch(r) PROVE AllowedInv'
  BY <1>3 DEF Dispatch, Goto, Finish
<1>4. ASSUME NEW r \in Requests, Timeout(r) PROVE AllowedInv'
  BY <1>4 DEF Timeout, Finish
<1>5. ASSUME NEW r \in Requests, Receive(r) PROVE AllowedInv'
  BY <1>5 DEF Receive
<1>6. ASSUME NEW r \in Requests, StreamEnd(r) PROVE AllowedInv'
  BY <1>6 DEF StreamEnd, Finish
<1>7. ASSUME NEW r \in Requests, SaveDone(r) PROVE AllowedInv'
  BY <1>7 DEF SaveDone, Finish
<1>8. ASSUME NEW r \in Requests, Drop(r) PROVE AllowedInv'
  BY <1>8 DEF Drop, Finish
<1>9. ASSUME NEW r \in Requests, WriterOpen(r) PROVE AllowedInv'
  BY <1>9 DEF WriterOpen
<1>10. ASSUME NEW r \in Requests, WriterEnd(r) PROVE AllowedInv'
  BY <1>10 DEF WriterEnd
<1>11. ASSUME NEW r \in Requests, AppStart(r) PROVE AllowedInv'
  BY <1>11 DEF AppStart, Respond, IsClosed
<1>12. ASSUME NEW r \in Requests, AppResolve(r) PROVE AllowedInv'
  BY <1>12 DEF AppResolve, Respond, IsClosed
<1>13. ASSUME NEW r \in Requests, AppIoError(r) PROVE AllowedInv'
  BY <1>13 DEF AppIoError, Respond, IsClosed
<1>14. ASSUME NEW r \in Requests, AppCheck(r) PROVE AllowedInv'
  <2>1. CASE UNCHANGED fs
    <3>1. GrantCurrent(r) /\ Kind[r] = "write" => MayBeWritten(RootOf[Target[r]])
      BY AuthorizedRoots DEF GrantCurrent
    <3>2. answer'[r] = "ok" /\ Kind[r] = "write" => GrantCurrent(r) \/ answer[r] = "ok"
      BY <1>14 DEF AppCheck, Respond
    <3>3. \A q \in Requests : q # r => answer'[q] = answer[q]
      BY <1>14 DEF AppCheck, Respond
    <3>4. \A q \in Requests : app'[q] = "finish" => Kind[q] # "write"
      BY <1>14 DEF AppCheck, Respond
    <3>5. writer' = writer /\ access' = access
      BY <1>14 DEF AppCheck
    <3> QED
      BY <2>1, <3>1, <3>2, <3>3, <3>4, <3>5
  <2>2. CASE /\ GrantCurrent(r)
             /\ Kind[r] \in {"create", "rename", "move", "delete"}
             /\ fs' = Mutated(r)
             /\ UNCHANGED answer
    <3>1. /\ MayBeWritten(RootOf[Target[r]])
          /\ Kind[r] \in {"rename", "move"} => MayBeWritten(RootOf[Dest[r]])
      BY <2>2, AuthorizedRoots DEF GrantCurrent
    <3>2. \A p \in Paths : fs'[p] # fs[p] =>
             p = Target[r] \/ (Kind[r] \in {"rename", "move"} /\ p = Dest[r])
      BY <2>2 DEF Mutated
    <3>3. \A q \in Requests : app'[q] = "finish" => Kind[q] # "write"
      BY <1>14 DEF AppCheck, Respond
    <3>4. writer' = writer /\ access' = access
      BY <1>14 DEF AppCheck
    <3>5. ReadOnlyUntouched'
      BY <3>1, <3>2
    <3> QED
      BY <2>2, <3>3, <3>4, <3>5
  <2> QED
    BY <1>14, <2>1, <2>2 DEF AppCheck
<1>15. ASSUME NEW r \in Requests, AppFinish(r) PROVE AllowedInv'
  <2>1. PICK how \in {"ok", "error"} : Respond(r, how)
    BY <1>15 DEF AppFinish
  <2>2. Kind[r] # "write"
    BY <1>15 DEF AppFinish
  <2> QED
    BY <1>15, <2>1, <2>2 DEF AppFinish, Respond
<1>16. CASE BridgeEvent
  BY <1>16 DEF BridgeEvent, Dropped, IsClosed
<1>17. CASE CleanupTick
  BY <1>17 DEF CleanupTick
<1>18. CASE DartGone
  BY <1>18 DEF DartGone
<1>19. CASE ListenEnds
  BY <1>19 DEF ListenEnds, Dropped, IsClosed
<1>20. CASE UpdateAccess
  BY <1>20 DEF UpdateAccess
<1>21. CASE UNCHANGED vars
  BY <1>21
<1> QED
  BY <1>1, <1>2, <1>3, <1>4, <1>5, <1>6, <1>7, <1>8, <1>9, <1>10, <1>11, 
     <1>12, <1>13, <1>14, <1>15, <1>16, <1>17, <1>18, <1>19, <1>20, <1>21
     DEF Next, CoreStep, AppStep

\* What is only ever shared read-only is never changed.
THEOREM ReadOnlyKept == Spec => []ReadOnlyUntouched
<1>1. AllowedInv => ReadOnlyUntouched
  BY DEF AllowedInv
<1> QED
  BY <1>1, InitType, NextType, InitAllowed, NextAllowed, PTL DEF Spec

-----------------------------------------------------------------------------
(* The bounds.  A permit is either free or with exactly one operation that *)
(* is not over.                                                            *)

BusyRequests == {r \in Requests : pc[r] \in Busy}

PermitInv ==
  /\ IsFiniteSet(BusyRequests)
  /\ free + Cardinality(BusyRequests) = MaxConcurrent

LEMMA InitPermit == Init => PermitInv
<1> SUFFICES ASSUME Init PROVE PermitInv
  OBVIOUS
<1>1. BusyRequests = {}
  BY DEF Init, BusyRequests, Busy
<1> QED
  BY <1>1, FS_EmptySet, ConstantsAssumption DEF Init, PermitInv

LEMMA PermitTaken ==
  ASSUME TypeOK, PermitInv, NEW r \in Requests, pc[r] \notin Busy,
         NEW where \in Busy, pc' = [pc EXCEPT ![r] = where], free' = free - 1
  PROVE  PermitInv'
<1>1. BusyRequests' = BusyRequests \cup {r} /\ r \notin BusyRequests
  BY TypeFunctions DEF BusyRequests
<1>2. /\ IsFiniteSet(BusyRequests')
      /\ Cardinality(BusyRequests') = Cardinality(BusyRequests) + 1
      /\ Cardinality(BusyRequests) \in Nat
  BY <1>1, FS_AddElement, FS_CardinalityType DEF PermitInv
<1> QED
  BY <1>2, ConstantsAssumption DEF PermitInv, TypeOK, CoreType

LEMMA PermitReturned ==
  ASSUME TypeOK, PermitInv, NEW r \in Requests, pc[r] \in Busy, NEW how, Finish(r, how)
  PROVE  PermitInv'
<1>1. BusyRequests' = BusyRequests \ {r} /\ r \in BusyRequests
  BY TypeFunctions DEF BusyRequests, Finish, Busy
<1>2. /\ IsFiniteSet(BusyRequests')
      /\ Cardinality(BusyRequests') = Cardinality(BusyRequests) - 1
      /\ Cardinality(BusyRequests) \in Nat
  BY <1>1, FS_RemoveElement, FS_CardinalityType DEF PermitInv
<1> QED
  BY <1>2, ConstantsAssumption DEF PermitInv, TypeOK, CoreType, Finish

LEMMA PermitKept ==
  ASSUME TypeOK, PermitInv, UNCHANGED free,
         \A q \in Requests : pc'[q] \in Busy <=> pc[q] \in Busy
  PROVE  PermitInv'
<1>1. BusyRequests' = BusyRequests
  BY DEF BusyRequests
<1> QED
  BY <1>1 DEF PermitInv

LEMMA NextPermit == TypeOK /\ PermitInv /\ [Next]_vars => PermitInv'
<1> SUFFICES ASSUME TypeOK, PermitInv, [Next]_vars PROVE PermitInv'
  OBVIOUS
<1>g. ASSUME NEW r \in Requests, pc[r] \in Busy, NEW where \in Busy,
             pc' = [pc EXCEPT ![r] = where], UNCHANGED free
      PROVE  PermitInv'
  BY <1>g, PermitKept, TypeFunctions
<1>1. ASSUME NEW r \in Requests, Handle(r) PROVE PermitInv'
  <2>1. CASE free > 0 /\ free' = free - 1
    <3>1. \E where \in Busy : pc' = [pc EXCEPT ![r] = where]
      BY <1>1, <2>1, TypeFunctions DEF Handle, Busy, TypeOK, CoreType
    <3> QED
      BY <1>1, <2>1, <3>1, PermitTaken DEF Handle, Busy
  <2>2. CASE pc' = [pc EXCEPT ![r] = "done"] /\ UNCHANGED free
    BY <1>1, <2>2, PermitKept, TypeFunctions DEF Handle, Busy
  <2> QED
    BY <1>1, <2>1, <2>2 DEF Handle
<1>2. ASSUME NEW r \in Requests,
             \/ CollectJson(r) \/ Dispatch(r) \/ Timeout(r) \/ Receive(r)
             \/ StreamEnd(r) \/ SaveDone(r) \/ Drop(r)
      PROVE  PermitInv'
  <2>1. pc[r] \in Busy
    BY <1>2 DEF CollectJson, Dispatch, Timeout, Receive, StreamEnd, SaveDone, Drop, Busy
  <2>2. \/ \E how : Finish(r, how)
        \/ \E where \in Busy : pc' = [pc EXCEPT ![r] = where] /\ UNCHANGED free
    BY <1>2 DEF CollectJson, Dispatch, Timeout, Receive, StreamEnd, SaveDone, Drop, Goto, Busy
  <2> QED
    BY <1>g, <2>1, <2>2, PermitReturned
<1>3. ASSUME UNCHANGED coreVars PROVE PermitInv'
  BY <1>3, PermitKept DEF coreVars
<1>4. ASSUME NEW r \in Requests, WriterOpen(r) \/ WriterEnd(r) \/ AppStep(r)
      PROVE  UNCHANGED coreVars
  BY <1>4 DEF WriterOpen, WriterEnd, AppStep, AppStart, AppResolve, AppIoError,
       AppCheck, AppFinish
<1>5. ASSUME BridgeEvent \/ CleanupTick \/ DartGone \/ ListenEnds \/ UpdateAccess
             \/ UNCHANGED vars
      PROVE  UNCHANGED coreVars
  BY <1>5 DEF BridgeEvent, CleanupTick, DartGone, ListenEnds, UpdateAccess, vars, coreVars
<1> QED
  BY <1>1, <1>2, <1>3, <1>4, <1>5 DEF Next, CoreStep

\* No more than the configured number of complete operations is under way,
\* bodies of reads and writes included, whatever times out or disconnects.
THEOREM PermitsBound == Spec => []OperationsBounded
<1>1. TypeOK /\ PermitInv => OperationsBounded
  <2> SUFFICES ASSUME TypeOK, PermitInv
               PROVE  Cardinality(BusyRequests) <= MaxConcurrent
    BY DEF OperationsBounded, BusyRequests
  <2> QED
    BY FS_CardinalityType, ConstantsAssumption DEF PermitInv, TypeOK, CoreType
<1> QED
  BY <1>1, InitType, NextType, InitPermit, NextPermit, PTL DEF Spec

-----------------------------------------------------------------------------
(* The bound of the bridge.  A request is dispatched once, so an event in  *)
(* the channel is not in the map yet.                                      *)

Undispatched == {"new", "body", "send"}

QueueInv ==
  /\ \A i, j \in 1..Len(queue) : queue[i] = queue[j] => i = j
  /\ \A i \in 1..Len(queue) : /\ queue[i] \notin pending
                              /\ pc[queue[i]] \notin Undispatched
  /\ \A r \in pending : pc[r] \notin Undispatched

LEMMA QueueType ==
  ASSUME TypeOK
  PROVE  /\ queue \in Seq(Requests) /\ Len(queue) \in Nat
         /\ \A i \in 1..Len(queue) : queue[i] \in Requests
         /\ pending \subseteq Requests
BY DEF TypeOK, BridgeType

\* A step that sends no event; the handlers only move forward.
LEMMA QueueKept ==
  ASSUME TypeOK, QueueInv, pending' \subseteq pending,
         queue' = queue \/ queue' = <<>>,
         \A r \in Requests : pc[r] \notin Undispatched => pc'[r] \notin Undispatched
  PROVE  QueueInv'
<1> USE QueueType
<1>1. CASE queue' = queue
  BY <1>1 DEF QueueInv
<1>2. CASE queue' = <<>>
  <2>1. Len(queue') = 0
    BY <1>2
  <2> QED
    BY <2>1 DEF QueueInv
<1> QED
  BY <1>1, <1>2

LEMMA NextQueue == TypeOK /\ QueueInv /\ [Next]_vars => QueueInv'
<1> SUFFICES ASSUME TypeOK, QueueInv, [Next]_vars PROVE QueueInv'
  OBVIOUS
<1> USE QueueType, TypeFunctions
<1>0. ASSUME UNCHANGED <<queue, pending>>,
             \A r \in Requests : pc[r] \notin Undispatched => pc'[r] \notin Undispatched
      PROVE  QueueInv'
  BY <1>0, QueueKept
<1>1. ASSUME NEW r \in Requests, Dispatch(r) PROVE QueueInv'
  <2>1. CASE queue' = Append(queue, r) /\ pc' = [pc EXCEPT ![r] = "wait"]
    <3>1. /\ Len(queue') = Len(queue) + 1
          /\ \A i \in 1..Len(queue) : queue'[i] = queue[i]
          /\ queue'[Len(queue) + 1] = r
      BY <2>1
    <3>2. /\ r \notin pending
          /\ \A i \in 1..Len(queue) : queue[i] # r
      BY <1>1 DEF Dispatch, QueueInv, Undispatched
    <3>3. pending' = pending
      BY <1>1 DEF Dispatch
    <3>4. \A i \in 1..Len(queue') : i \in 1..Len(queue) \/ i = Len(queue) + 1
      BY <3>1
    <3>5. \A q \in Requests : pc[q] \notin Undispatched => pc'[q] \notin Undispatched
      BY <2>1 DEF Undispatched
    <3>6. pc'[r] \notin Undispatched
      BY <2>1 DEF Undispatched
    <3> QED
      BY <3>1, <3>2, <3>3, <3>4, <3>5, <3>6 DEF QueueInv
  <2>2. CASE Finish(r, "unavailable") /\ UNCHANGED queue
    BY <1>0, <1>1, <2>2 DEF Dispatch, Finish, Undispatched
  <2> QED
    BY <1>1, <2>1, <2>2 DEF Dispatch, Goto
<1>2. ASSUME NEW r \in Requests,
             \/ Handle(r) \/ CollectJson(r) \/ Timeout(r) \/ Receive(r)
             \/ StreamEnd(r) \/ SaveDone(r) \/ Drop(r)
      PROVE  QueueInv'
  <2>1. UNCHANGED <<queue, pending>>
    BY <1>2 DEF Handle, CollectJson, Timeout, Receive, StreamEnd, SaveDone, Drop, bridgeVars
  <2>2. \A q \in Requests : pc[q] \notin Undispatched => pc'[q] \notin Undispatched
    BY <1>2 DEF Handle, CollectJson, Timeout, Receive, StreamEnd, SaveDone, Drop,
         Finish, Goto, Undispatched, Busy
  <2> QED
    BY <1>0, <2>1, <2>2
<1>3. ASSUME NEW r \in Requests, WriterOpen(r) \/ WriterEnd(r) PROVE QueueInv'
  BY <1>0, <1>3 DEF WriterOpen, WriterEnd, coreVars, bridgeVars
<1>4. ASSUME NEW r \in Requests, AppStep(r) PROVE QueueInv'
  <2>1. UNCHANGED <<pc, queue>>
    BY <1>4 DEF AppStep, AppStart, AppResolve, AppIoError, AppCheck, AppFinish, coreVars
  <2>2. pending' \subseteq pending
    BY <1>4 DEF AppStep, AppStart, AppResolve, AppIoError, AppCheck, AppFinish, Respond
  <2> QED
    BY <2>1, <2>2, QueueKept
<1>5. CASE BridgeEvent
  <2>1. /\ Len(queue) > 0
        /\ Len(queue') = Len(queue) - 1
        /\ \A i \in 1..Len(queue') : queue'[i] = queue[i + 1]
        /\ Head(queue) = queue[1]
    BY <1>5 DEF BridgeEvent
  <2>2. pc' = pc /\ pending' \subseteq pending \cup {queue[1]}
    BY <1>5, <2>1 DEF BridgeEvent, Pruned, coreVars
  <2>3. \A i \in 1..Len(queue') : i + 1 \in 1..Len(queue) /\ 1 \in 1..Len(queue) /\ i + 1 # 1
    BY <2>1
  <2>4. \A i \in 1..Len(queue') : queue'[i] # queue[1]
    BY <2>1, <2>3 DEF QueueInv
  <2>5. \A i, j \in 1..Len(queue') : queue'[i] = queue'[j] => i = j
    <3> SUFFICES ASSUME NEW i \in 1..Len(queue'), NEW j \in 1..Len(queue'),
                        queue'[i] = queue'[j]
                 PROVE  i = j
      OBVIOUS
    <3>1. i + 1 = j + 1
      BY <2>1, <2>3 DEF QueueInv
    <3> QED
      BY <3>1, <2>1
  <2>6. \A i \in 1..Len(queue') : queue'[i] \notin pending /\ pc[queue'[i]] \notin Undispatched
    BY <2>1, <2>3 DEF QueueInv
  <2>7. pc[queue[1]] \notin Undispatched
    BY <2>1 DEF QueueInv
  <2> QED
    BY <2>2, <2>4, <2>5, <2>6, <2>7 DEF QueueInv
<1>6. CASE CleanupTick
  BY <1>6, QueueKept DEF CleanupTick, Pruned, coreVars
<1>7. CASE ListenEnds
  BY <1>7, QueueKept DEF ListenEnds, coreVars
<1>8. CASE DartGone \/ UpdateAccess \/ UNCHANGED vars
  BY <1>0, <1>8 DEF DartGone, UpdateAccess, coreVars, bridgeVars, vars
<1> QED
  BY <1>1, <1>2, <1>3, <1>4, <1>5, <1>6, <1>7, <1>8 DEF Next, CoreStep

\* When the event of a request that still waits arrives, the map has room
\* once it is pruned: every responder left in it belongs to another request
\* that waits, and each of them has a permit.
LEMMA RoomForWaiting ==
  ASSUME TypeOK, PermitInv, QueueInv, queue # <<>>, pc[Head(queue)] = "wait"
  PROVE  Cardinality(Pruned) < MaxConcurrent
<1> DEFINE r == Head(queue)
<1>1. r \in Requests /\ r = queue[1] /\ 1 \in 1..Len(queue)
  BY QueueType
<1>2. r \in BusyRequests /\ Pruned \subseteq BusyRequests
  BY <1>1, QueueType DEF BusyRequests, Busy, Pruned, IsClosed
<1>3. r \notin Pruned
  BY <1>1 DEF QueueInv, Pruned
<1>4. IsFiniteSet(Pruned) /\ IsFiniteSet(BusyRequests)
  BY <1>2, FS_Subset DEF PermitInv
<1>5. Cardinality(Pruned \cup {r}) = Cardinality(Pruned) + 1
  BY <1>3, <1>4, FS_AddElement
<1>6. Cardinality(Pruned \cup {r}) <= Cardinality(BusyRequests)
  BY <1>2, <1>4, FS_Subset
<1>7. Cardinality(Pruned) \in Nat /\ Cardinality(BusyRequests) \in Nat /\ free \in Nat
  BY <1>4, FS_CardinalityType DEF TypeOK, CoreType
<1> QED
  BY <1>5, <1>6, <1>7, ConstantsAssumption DEF PermitInv

LEMMA NextKeepsLive ==
  ASSUME TypeOK, PermitInv, QueueInv, [Next]_vars
  PROVE  \A r \in Requests : answer'[r] = "closed" /\ answer[r] # "closed" => ~sink
<1> USE TypeFunctions
<1> SUFFICES ASSUME NEW r \in Requests, answer'[r] = "closed", answer[r] # "closed"
             PROVE  ~sink
  OBVIOUS
<1>1. ASSUME NEW q \in Requests, CoreStep(q) PROVE FALSE
  BY <1>1 DEF CoreStep, Handle, CollectJson, Dispatch, Timeout, Receive,
       StreamEnd, SaveDone, Drop, WriterOpen, WriterEnd, bridgeVars
<1>2. ASSUME NEW q \in Requests, AppStep(q) PROVE FALSE
  <2>1. UNCHANGED answer \/ \E how \in {"ok", "error"} : Respond(q, how)
    BY <1>2 DEF AppStep, AppStart, AppResolve, AppIoError, AppCheck, AppFinish
  <2> QED
    BY <2>1 DEF Respond
<1>3. CASE BridgeEvent
  <2>1. CASE Cardinality(Pruned) >= MaxConcurrent
    <3>1. answer' = Dropped({Head(queue)}) /\ queue # <<>>
      BY <1>3, <2>1 DEF BridgeEvent
    <3>2. r = Head(queue) /\ pc[r] = "wait"
      BY <3>1 DEF Dropped, IsClosed
    <3>3. Cardinality(Pruned) < MaxConcurrent
      BY <3>1, <3>2, RoomForWaiting
    <3>4. IsFiniteSet(Pruned)
      <4>1. Pruned \subseteq BusyRequests
        BY QueueType DEF Pruned, IsClosed, BusyRequests, Busy
      <4> QED
        BY <4>1, FS_Subset DEF PermitInv
    <3>5. Cardinality(Pruned) \in Nat
      BY <3>4, FS_CardinalityType
    <3> QED
      BY <2>1, <3>3, <3>5, ConstantsAssumption
  <2>2. CASE ~(Cardinality(Pruned) >= MaxConcurrent)
    BY <1>3, <2>2 DEF BridgeEvent
  <2> QED
    BY <2>1, <2>2
<1>4. CASE ListenEnds
  BY <1>4 DEF ListenEnds
<1>5. CASE CleanupTick \/ DartGone \/ UpdateAccess \/ UNCHANGED vars
  BY <1>5 DEF CleanupTick, DartGone, UpdateAccess, bridgeVars, vars
<1> QED
  BY <1>1, <1>2, <1>3, <1>4, <1>5 DEF Next

\* The bound of the bridge's map never costs a request that still waits its
\* responder: it loses it only when the Dart side is gone.
THEOREM LiveKept == Spec => LiveRequestKept
<1>1. Init => QueueInv
  BY DEF Init, QueueInv
<1>2. TypeOK /\ PermitInv /\ QueueInv /\ [Next]_vars =>
        [\A r \in Requests : answer'[r] = "closed" /\ answer[r] # "closed" => ~sink]_vars
  BY NextKeepsLive
<1> QED
  BY <1>1, <1>2, InitType, NextType, InitPermit, NextPermit, NextQueue, PTL
     DEF Spec, LiveRequestKept
=============================================================================
