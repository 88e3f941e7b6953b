------------------------------ MODULE RemoteFs ------------------------------
(***************************************************************************)
(* The remote file system: a paired device works on the folders this       *)
(* device shares.  A request passes through                                *)
(*   - the HTTP handler (packages/core/src/http/server/firebox.rs), which  *)
(*     holds one of a bounded number of slots and waits at most 30 s,      *)
(*   - the bridge (packages/localsend_isolates/rust/src/api/server.rs),    *)
(*     which keeps the responder of each event given to the application,   *)
(*   - the server isolate (packages/localsend_isolates/lib/src/isolate/    *)
(*     child/server_isolate.dart), whose handlers run concurrently and     *)
(*     check a request against the shared folders the user grants.         *)
(* The provider is the one for local paths.  Shared folders are flat: a    *)
(* path is a name in one root.                                             *)
(***************************************************************************)
EXTENDS Integers, Sequences, FiniteSets, Functions

CONSTANTS
  Requests,       \* HTTP requests
  Kind,           \* the operation of each request
  Target,         \* the path it works on
  Dest,           \* the path a rename or move leads to
  Overwrite,      \* the requests that ask to overwrite
  Paths,          \* names in the shared roots
  Roots,          \* shared roots
  RootOf,         \* the root of each path
  InitialFiles,   \* paths that hold a file at the start
  Policies,       \* what the user may publish: a grant for each root
  MaxConcurrent,  \* DEFAULT_MAX_CONCURRENT_REQUESTS (64)
  Capacity,       \* capacity of the event channel (32)
  None            \* no item, no answer

Kinds == {"roots", "list", "metadata", "create", "rename", "move", "delete",
          "read", "write"}
Grants == {"none", "ro", "rw"}

ASSUME ConstantsAssumption ==
  /\ Kind \in [Requests -> Kinds]
  /\ Target \in [Requests -> Paths]
  /\ Dest \in [Requests -> Paths]
  /\ \A r \in Requests :
       Kind[r] = "rename" => RootOf[Dest[r]] = RootOf[Target[r]]
  /\ Overwrite \subseteq Requests
  /\ RootOf \in [Paths -> Roots]
  /\ InitialFiles \subseteq Paths
  /\ Policies \subseteq [Roots -> Grants]
  /\ MaxConcurrent \in Nat \ {0}
  /\ Capacity \in Nat \ {0}
  /\ None \notin Paths \cup Requests
  /\ Paths \cap Requests = {}

VARIABLES
  pc,         \* where the HTTP handler of each request is
  reply,      \* what its client was answered
  free,       \* permits left in request_slots
  queue,      \* the event channel to the bridge
  answer,     \* the oneshot channel of each dispatch
  listening,  \* the bridge's listen loop runs
  sink,       \* the Dart side of the stream is there
  pending,    \* pending_remote_fs: requests whose responder the bridge keeps
  inbox,      \* events on their way to the isolate
  app,        \* where the isolate's handler of each request is
  saved,      \* the grant it was authorized with
  access,     \* the published snapshot: is the peer trusted, which grants
  fs,         \* the item at each path
  writer,     \* the file writer of each write request
  executed    \* history: requests whose mutation took place

coreVars == <<pc, reply, free>>
bridgeVars == <<queue, answer, listening, sink, pending, inbox>>
appVars == <<app, saved, access>>
fsVars == <<fs, writer, executed>>
vars == <<pc, reply, free, queue, answer, listening, sink, pending, inbox,
          app, saved, access, fs, writer, executed>>

\* An item is named after where it was at the start or who made it.
Items == Paths \cup Requests
IsDir(x) == x \in Requests /\ Kind[x] = "create"
IsFile(x) == x # None /\ ~IsDir(x)

\* The handler is inside its complete operation and owns a permit.
Busy == {"body", "send", "wait", "stream", "save"}

CoreType ==
  /\ pc \in [Requests -> Busy \cup {"new", "done"}]
  /\ reply \in [Requests -> {"none", "ok", "busy", "error", "unavailable"}]
  /\ free \in Nat

BridgeType ==
  /\ queue \in Seq(Requests)
  /\ Len(queue) <= Capacity
  /\ answer \in [Requests -> {"none", "ok", "error", "closed"}]
  /\ listening \in BOOLEAN
  /\ sink \in BOOLEAN
  /\ pending \subseteq Requests
  /\ inbox \in Seq(Requests)

AppType ==
  /\ app \in [Requests -> {"idle", "event", "resolve", "check", "finish",
                           "done"}]
  /\ saved \in [Requests -> Grants]
  /\ access \in [trusted : BOOLEAN, grants : [Roots -> Grants]]

FsType ==
  /\ fs \in [Paths -> Items \cup {None}]
  /\ writer \in [Requests -> {"none", "spawned", "open", "ok", "failed"}]
  /\ executed \subseteq Requests

\* Every variable has its type.
TypeOK == CoreType /\ BridgeType /\ AppType /\ FsType

Init ==
  /\ pc = [r \in Requests |-> "new"]
  /\ reply = [r \in Requests |-> "none"]
  /\ free = MaxConcurrent
  /\ queue = <<>>
  /\ answer = [r \in Requests |-> "none"]
  /\ listening = TRUE
  /\ sink = TRUE
  /\ pending = {}
  /\ inbox = <<>>
  /\ app = [r \in Requests |-> "idle"]
  /\ saved = [r \in Requests |-> "none"]
  /\ access \in [trusted : {TRUE}, grants : Policies]
  /\ fs = [p \in Paths |-> IF p \in InitialFiles THEN p ELSE None]
  /\ writer = [r \in Requests |-> "none"]
  /\ executed = {}

-----------------------------------------------------------------------------
(* The HTTP handler. *)

\* The handler of r is over and its permit is returned.
Finish(r, how) ==
  /\ pc' = [pc EXCEPT ![r] = "done"]
  /\ reply' = [reply EXCEPT ![r] = how]
  /\ free' = free + 1

Goto(r, where) ==
  /\ pc' = [pc EXCEPT ![r] = where]
  /\ UNCHANGED <<reply, free>>

\* A request without a certificate or with an invalid query fails.  Others
\* take a permit or are refused as busy; create-directory, rename and move
\* then read a JSON body, the rest dispatches its event.
Handle(r) ==
  /\ pc[r] = "new"
  /\ \/ /\ pc' = [pc EXCEPT ![r] = "done"]
        /\ reply' = [reply EXCEPT ![r] = "error"]
        /\ UNCHANGED free
     \/ /\ free = 0
        /\ pc' = [pc EXCEPT ![r] = "done"]
        /\ reply' = [reply EXCEPT ![r] = "busy"]
        /\ UNCHANGED free
     \/ /\ free > 0
        /\ pc' = [pc EXCEPT ![r] =
                    IF Kind[r] \in {"create", "rename", "move"} THEN "body"
                                                                ELSE "send"]
        /\ free' = free - 1
        /\ UNCHANGED reply
  /\ UNCHANGED <<bridgeVars, appVars, fsVars>>

\* The body is complete and valid, or the request fails.
CollectJson(r) ==
  /\ pc[r] = "body"
  /\ Goto(r, "send") \/ Finish(r, "error")
  /\ UNCHANGED <<bridgeVars, appVars, fsVars>>

\* dispatch waits for room in the channel; without a receiver it fails.
Dispatch(r) ==
  /\ pc[r] = "send"
  /\ \/ /\ listening
        /\ Len(queue) < Capacity
        /\ queue' = Append(queue, r)
        /\ Goto(r, "wait")
     \/ /\ ~listening
        /\ Finish(r, "unavailable")
        /\ UNCHANGED queue
  /\ UNCHANGED <<answer, listening, sink, pending, inbox, appVars, fsVars>>

\* Broken variant of Timeout: the time limit covers the answer only.
TimeoutOfAnswer(r) ==
  /\ pc[r] = "wait"
  /\ answer[r] = "none"
  /\ Finish(r, "unavailable")
  /\ UNCHANGED <<bridgeVars, appVars, fsVars>>

\* EVENT_RESPONSE_TIMEOUT covers the send and the answer; an answer that is
\* there wins.
Timeout(r) ==
  /\ pc[r] \in {"send", "wait"}
  /\ answer[r] = "none"
  /\ Finish(r, "unavailable")
  /\ UNCHANGED <<bridgeVars, appVars, fsVars>>

\* Broken variant of Receive: a read returns its permit with the headers.
ReceiveReleases(r) ==
  /\ pc[r] = "wait"
  /\ \/ /\ answer[r] \in {"closed", "error"} \/ Kind[r] \notin {"read", "write"}
        /\ answer[r] # "none"
        /\ Finish(r, IF answer[r] = "ok" THEN "ok" ELSE "error")
        /\ UNCHANGED writer
     \/ /\ answer[r] = "ok" /\ Kind[r] = "read"
        /\ pc' = [pc EXCEPT ![r] = "stream"]
        /\ reply' = [reply EXCEPT ![r] = "ok"]
        /\ free' = free + 1
        /\ UNCHANGED writer
     \/ /\ answer[r] = "ok" /\ Kind[r] = "write"
        /\ Goto(r, "save")
        /\ writer' = [writer EXCEPT ![r] = "spawned"]
  /\ UNCHANGED <<bridgeVars, appVars, fs, executed>>

\* The answer of the application arrives.  A read goes on with its permit in
\* the response body, a write goes on with the writer of its target.
Receive(r) ==
  /\ pc[r] = "wait"
  /\ \/ /\ answer[r] = "closed"
        /\ Finish(r, "unavailable")
        /\ UNCHANGED writer
     \/ /\ answer[r] = "error"
        /\ Finish(r, "error")
        /\ UNCHANGED writer
     \/ /\ answer[r] = "ok"
        /\ Kind[r] \notin {"read", "write"}
        /\ Finish(r, "ok")
        /\ UNCHANGED writer
     \/ /\ answer[r] = "ok"
        /\ Kind[r] = "read"
        /\ pc' = [pc EXCEPT ![r] = "stream"]
        /\ reply' = [reply EXCEPT ![r] = "ok"]
        /\ UNCHANGED <<free, writer>>
     \/ /\ answer[r] = "ok"
        /\ Kind[r] = "write"
        /\ Goto(r, "save")
        /\ writer' = [writer EXCEPT ![r] = "spawned"]
  /\ UNCHANGED <<bridgeVars, appVars, fs, executed>>

\* The body of a read is sent to its end.
StreamEnd(r) ==
  /\ pc[r] = "stream"
  /\ Finish(r, "ok")
  /\ UNCHANGED <<bridgeVars, appVars, fsVars>>

\* Broken variant of SaveDone: the result of the writer is not looked at.
SaveDoneAnyway(r) ==
  /\ pc[r] = "save"
  /\ writer[r] \in {"ok", "failed"}
  /\ Finish(r, "ok")
  /\ UNCHANGED <<bridgeVars, appVars, fsVars>>

\* A write is answered with the result of its writer.
SaveDone(r) ==
  /\ pc[r] = "save"
  /\ writer[r] \in {"ok", "failed"}
  /\ Finish(r, IF writer[r] = "ok" THEN "ok" ELSE "error")
  /\ UNCHANGED <<bridgeVars, appVars, fsVars>>

\* The client disconnects: the handler, or the body it returned, is dropped.
Drop(r) ==
  /\ pc[r] \in Busy
  /\ Finish(r, reply[r])
  /\ UNCHANGED <<bridgeVars, appVars, fsVars>>

\* The writer is a task of its own: it creates or truncates the file even
\* when the handler is gone by then.
WriterOpen(r) ==
  /\ writer[r] = "spawned"
  /\ IF IsDir(fs[Target[r]])
     THEN /\ writer' = [writer EXCEPT ![r] = "failed"]
          /\ UNCHANGED <<fs, executed>>
     ELSE /\ writer' = [writer EXCEPT ![r] = "open"]
          /\ fs' = [fs EXCEPT ![Target[r]] = r]
          /\ executed' = executed \cup {r}
  /\ UNCHANGED <<coreVars, bridgeVars, appVars>>

\* All bytes were written, or the body was too short or too long.
WriterEnd(r) ==
  /\ writer[r] = "open"
  /\ \E how \in {"ok", "failed"} : writer' = [writer EXCEPT ![r] = how]
  /\ UNCHANGED <<coreVars, bridgeVars, appVars, fs, executed>>

-----------------------------------------------------------------------------
(* The bridge. *)

\* PendingRemoteFsResponder::is_closed: nobody waits for the answer any more.
IsClosed(r) == pc[r] # "wait"

\* The responders of R are dropped.
Dropped(R) ==
  [q \in Requests |-> IF q \in R /\ ~IsClosed(q) /\ answer[q] = "none"
                      THEN "closed" ELSE answer[q]]

Pruned == {q \in pending : ~IsClosed(q)}

\* Broken variant of BridgeEvent: only the timer prunes the map.
BridgeEventUnpruned ==
  /\ listening /\ sink
  /\ queue # <<>>
  /\ queue' = Tail(queue)
  /\ LET r == Head(queue) IN
     IF Cardinality(pending) >= MaxConcurrent
     THEN /\ answer' = Dropped({r})
          /\ UNCHANGED <<inbox, app, pending>>
     ELSE /\ pending' = pending \cup {r}
          /\ inbox' = Append(inbox, r)
          /\ app' = [app EXCEPT ![r] = "event"]
          /\ UNCHANGED answer
  /\ UNCHANGED <<coreVars, listening, sink, saved, access, fsVars>>

\* handle_remote_fs_event: the map is pruned, then bounded; the event goes to
\* the isolate and its responder into the map.
BridgeEvent ==
  /\ listening /\ sink
  /\ queue # <<>>
  /\ queue' = Tail(queue)
  /\ LET r == Head(queue) IN
     IF Cardinality(Pruned) >= MaxConcurrent
     THEN /\ pending' = Pruned
          /\ answer' = Dropped({r})
          /\ UNCHANGED <<inbox, app>>
     ELSE /\ pending' = Pruned \cup {r}
          /\ inbox' = Append(inbox, r)
          /\ app' = [app EXCEPT ![r] = "event"]
          /\ UNCHANGED answer
  /\ UNCHANGED <<coreVars, listening, sink, saved, access, fsVars>>

\* The timer of the listen loop prunes the map.
CleanupTick ==
  /\ listening
  /\ Pruned # pending
  /\ pending' = Pruned
  /\ UNCHANGED <<coreVars, queue, answer, listening, sink, inbox, appVars,
                 fsVars>>

\* The Dart side goes away (a hot restart) with all its handlers.
DartGone ==
  /\ sink
  /\ sink' = FALSE
  /\ inbox' = <<>>
  /\ app' = [r \in Requests |-> IF app[r] = "idle" THEN "idle" ELSE "done"]
  /\ UNCHANGED <<coreVars, queue, answer, listening, pending, saved, access,
                 fsVars>>

\* An event, of this or another channel, cannot be delivered: the loop ends,
\* with every responder it keeps and every event left in the channel.
ListenEnds ==
  /\ listening /\ ~sink
  /\ listening' = FALSE
  /\ answer' = Dropped(pending \cup Range(queue))
  /\ pending' = {}
  /\ queue' = <<>>
  /\ UNCHANGED <<coreVars, sink, inbox, appVars, fsVars>>

\* respond_remote_fs_*: the responder is taken from the map and answered;
\* the answer is lost when it is not there or its request has ended.
Respond(r, how) ==
  /\ app' = [app EXCEPT ![r] = "done"]
  /\ pending' = pending \ {r}
  /\ answer' = IF r \in pending /\ ~IsClosed(r)
               THEN [answer EXCEPT ![r] = how] ELSE answer

-----------------------------------------------------------------------------
(* The handlers of the isolate. *)

\* Broken variant of RootsWritten: a move is checked on its source alone.
RootsWrittenSource(r) ==
  IF Kind[r] \in {"create", "rename", "delete", "write", "move"}
  THEN {RootOf[Target[r]]} ELSE {}

\* The roots a request needs a write capability for.
RootsWritten(r) ==
  CASE Kind[r] = "move" -> {RootOf[Target[r]], RootOf[Dest[r]]}
    [] Kind[r] \in {"create", "rename", "delete", "write"} ->
         {RootOf[Target[r]]}
    [] OTHER -> {}

\* _authorizeGrant for every capability of the request; roots needs only a
\* trusted peer.
Authorized(r) ==
  /\ access.trusted
  /\ Kind[r] # "roots" => access.grants[RootOf[Target[r]]] # "none"
  /\ \A root \in RootsWritten(r) : access.grants[root] = "rw"

\* _ensureGrantCurrent: still authorized, and the grant is the one it was.
GrantCurrent(r) ==
  /\ Authorized(r)
  /\ Kind[r] # "roots" => access.grants[RootOf[Target[r]]] = saved[r]

\* What the provider finds when it resolves the paths of the request.
Resolves(r) ==
  LET item == fs[Target[r]] IN
  CASE Kind[r] \in {"roots", "list"} -> TRUE
    [] Kind[r] \in {"metadata", "delete"} -> item # None
    [] Kind[r] = "create" -> item = None
    [] Kind[r] \in {"rename", "move"} -> item # None /\ fs[Dest[r]] = None
    [] Kind[r] = "read" -> IsFile(item)
    [] Kind[r] = "write" -> item = None \/ (IsFile(item) /\ r \in Overwrite)

\* The handler starts: it runs up to its first await when the event arrives.
AppStart(r) ==
  /\ inbox # <<>> /\ r = Head(inbox)
  /\ inbox' = Tail(inbox)
  /\ IF Authorized(r)
     THEN /\ app' = [app EXCEPT ![r] = "resolve"]
          /\ saved' = [saved EXCEPT ![r] = access.grants[RootOf[Target[r]]]]
          /\ UNCHANGED <<pending, answer>>
     ELSE /\ Respond(r, "error")
          /\ UNCHANGED saved
  /\ UNCHANGED <<coreVars, queue, listening, sink, access, fsVars>>

\* The paths are resolved.
AppResolve(r) ==
  /\ app[r] = "resolve"
  /\ IF Resolves(r)
     THEN /\ app' = [app EXCEPT ![r] = "check"]
          /\ UNCHANGED <<pending, answer>>
     ELSE Respond(r, "error")
  /\ UNCHANGED <<coreVars, queue, listening, sink, inbox, saved, access,
                 fsVars>>

\* The platform fails on a path, in the mutation or in the look-up after it:
\* the exception becomes an error answer.
AppIoError(r) ==
  /\ \/ app[r] = "resolve"
     \/ app[r] = "check" /\ Kind[r] \in {"create", "rename", "move", "delete"}
     \/ app[r] = "finish" /\ Kind[r] # "delete"
  /\ Respond(r, "error")
  /\ UNCHANGED <<coreVars, queue, listening, sink, inbox, saved, access,
                 fsVars>>

\* The platform's mutations.  create leaves an existing directory alone;
\* rename replaces an existing file, a directory only by a directory.
Possible(r) ==
  CASE Kind[r] = "create" -> fs[Target[r]] = None \/ IsDir(fs[Target[r]])
    [] Kind[r] = "delete" -> fs[Target[r]] # None
    [] OTHER -> /\ fs[Target[r]] # None
                /\ \/ fs[Dest[r]] = None
                   \/ IsDir(fs[Dest[r]]) <=> IsDir(fs[Target[r]])

Mutated(r) ==
  CASE Kind[r] = "create" ->
         IF fs[Target[r]] = None THEN [fs EXCEPT ![Target[r]] = r] ELSE fs
    [] Kind[r] = "delete" -> [fs EXCEPT ![Target[r]] = None]
    [] OTHER -> [fs EXCEPT ![Target[r]] = None, ![Dest[r]] = fs[Target[r]]]

\* The grant is checked again and, in the same turn, the mutation is issued,
\* or the answer given that lets the core read or write the file.
AppCheck(r) ==
  /\ app[r] = "check"
  /\ IF ~GrantCurrent(r)
     THEN /\ Respond(r, "error")
          /\ UNCHANGED <<fs, executed>>
     ELSE IF Kind[r] \in {"create", "rename", "move", "delete"}
     THEN IF Possible(r)
          THEN /\ fs' = Mutated(r)
               /\ executed' = executed \cup {r}
               /\ app' = [app EXCEPT ![r] = "finish"]
               /\ UNCHANGED <<pending, answer>>
          ELSE /\ Respond(r, "error")
               /\ UNCHANGED <<fs, executed>>
     ELSE /\ Respond(r, "ok")
          /\ UNCHANGED <<fs, executed>>
  /\ UNCHANGED <<coreVars, queue, listening, sink, inbox, saved, access,
                 writer>>

\* The entry that results is looked up for the answer.
AppFinish(r) ==
  /\ app[r] = "finish"
  /\ LET place == IF Kind[r] = "create" THEN Target[r] ELSE Dest[r] IN
     Respond(r, IF Kind[r] = "delete" \/ fs[place] # None
                THEN "ok" ELSE "error")
  /\ UNCHANGED <<coreVars, queue, listening, sink, inbox, saved, access,
                 fsVars>>

\* HttpServerUpdateRemoteFsAccessTask: the user trusts or forgets the device,
\* shares a folder, makes it read-only or stops sharing it.
UpdateAccess ==
  /\ sink
  /\ access' \in [trusted : BOOLEAN, grants : Policies]
  /\ access' # access
  /\ UNCHANGED <<coreVars, bridgeVars, app, saved, fsVars>>

-----------------------------------------------------------------------------

CoreStep(r) ==
  \/ Handle(r) \/ CollectJson(r) \/ Dispatch(r) \/ Timeout(r) \/ Receive(r)
  \/ StreamEnd(r) \/ SaveDone(r) \/ Drop(r)
  \/ WriterOpen(r) \/ WriterEnd(r)

AppStep(r) ==
  AppStart(r) \/ AppResolve(r) \/ AppIoError(r) \/ AppCheck(r) \/ AppFinish(r)

Next ==
  \/ \E r \in Requests : CoreStep(r) \/ AppStep(r)
  \/ BridgeEvent \/ CleanupTick \/ DartGone \/ ListenEnds
  \/ UpdateAccess

Spec == Init /\ [][Next]_vars

\* The runtime fires timers and runs the tasks that are ready.  Nothing is
\* assumed of the clients, of the isolate or of the user.
Fairness ==
  /\ WF_vars(CleanupTick)
  /\ \A r \in Requests : WF_vars(Timeout(r)) /\ WF_vars(Receive(r))

-----------------------------------------------------------------------------
(* Properties. *)

\* The limit bounds complete operations: the bodies of reads that are still
\* sent and of writes that are still received count (firebox.rs:179-182).
OperationsBounded ==
  Cardinality({r \in Requests : pc[r] \in Busy}) <= MaxConcurrent

\* The bound of the bridge never hits a request that still waits: such a
\* request loses its responder only when the Dart side is gone
\* (server.rs:803-813, the limit of the core comes first).
LiveRequestKept ==
  [][\A r \in Requests :
       answer'[r] = "closed" /\ answer[r] # "closed" => ~sink]_vars

\* A client is told "ok" only of its own request, and only when the change
\* it asked for took place and, for a write, was complete.
OkMeansDone ==
  \A r \in Requests : reply[r] = "ok" =>
    /\ Kind[r] \in {"create", "rename", "move", "delete", "write"} =>
         r \in executed
    /\ Kind[r] = "write" => writer[r] = "ok"

\* What is only ever shared read-only is never changed.
ReadOnlyUntouched ==
  \A p \in Paths :
    (\A policy \in Policies : policy[RootOf[p]] # "rw") =>
      fs[p] = IF p \in InitialFiles THEN p ELSE None

\* The time limit ends every dispatch, also one that waits for room in the
\* channel of an isolate that does not answer (firebox.rs:507-525).
DispatchEnds ==
  \A r \in Requests : pc[r] \in {"send", "wait"} ~> pc[r] \notin {"send", "wait"}

\* The bridge does not keep the responder of a request for ever
\* (server.rs:535-538, the timer prunes the map).
ResponderReleased ==
  \A r \in Requests : r \in pending ~> r \notin pending

\* A request occupies neither its handler nor the bridge for ever.
RequestsEnd == DispatchEnds /\ ResponderReleased
=============================================================================
