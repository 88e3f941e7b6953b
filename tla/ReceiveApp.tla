----------------------------- MODULE ReceiveApp -----------------------------
(***************************************************************************)
(* Receiving files in the application: the upload handlers of the HTTP     *)
(* server (core/src/http/server/v2.rs, in detail in UploadSession), the    *)
(* Rust bridge (localsend_isolates/rust/src/api/server.rs), the server     *)
(* isolate (child/server_isolate.dart) and the receive controller of the   *)
(* main isolate (receive_controller.dart) with its user.                   *)
(*                                                                         *)
(* Each of them sees the others only through queues: events travel from    *)
(* the server over the bridge and the isolate to the controller, tasks     *)
(* back from the controller to the isolate, and the calls of the isolate   *)
(* into Rust run as tasks of their own.  A new request may therefore be on *)
(* its way while the answer to the previous one travels in the opposite    *)
(* direction, and the bridge's answer to a request does not name it.       *)
(* An action is what one of them does between two awaits.                  *)
(***************************************************************************)
EXTENDS Integers, Sequences, FiniteSets

CONSTANTS
  Requests,     \* prepare-upload requests, in the order of their arrival
  Files,        \* file IDs
  Offered,      \* the IDs each request offers
  MaxAttempts,  \* MAX_UPLOAD_ATTEMPTS
  Retrying      \* requests whose sender tries a file again

\* Numbered from 1; 0 stands for no request.
ASSUME ConstantsAssumption ==
  /\ IsFiniteSet(Requests) /\ Requests = 1..Cardinality(Requests)
  /\ Offered \in [Requests -> (SUBSET Files) \ {{}}]
  /\ MaxAttempts \in Nat \ {0}
  /\ Retrying \subseteq Requests

NoRequest == 0
Declined == {"declined"}
Uploads == Requests \X Files

ASSUME DeclinedAssumption == "declined" \notin Files

VARIABLES
  slot,       \* the request that holds the single session slot
  req,        \* the state of each request
  decision,   \* its decision channel: no answer, or the one given
  up,         \* the state of each file of an accepted request
  attempts,   \* upload attempts of each file
  events,     \* the server's event channel
  pending,    \* pending_decision: the request whose responder is stored
  responders, \* pending_uploads
  sink,       \* the stream of events to the isolate
  session,    \* the isolate's receive session: its request and files
  handlers,   \* per file: the stage of the handler at work
  queued,     \* files with an attempt waiting behind it
  result,     \* what the handler at work learnt from the server
  replies,    \* calls of respond_prepare_upload under way
  cancels,    \* calls of cancel_session under way
  port,       \* events from the isolate to the controller
  tasks,      \* tasks from the controller to the isolate
  opening,    \* requests whose page is about to open
  granting,   \* an acceptance that waits for the storage permission
  ui,         \* the session shown, and its status
  shown,      \* the status shown of each file
  recording,  \* finished files on their way into the history
  consent,    \* history: the files of each request the user accepted
  saved,      \* history: the files saved
  cancelled,  \* history: sessions whose cancellation reached the server
  left,       \* history: sessions no longer shown
  unsent,     \* history: requests whose acceptance was never sent
  answers     \* history: per request, the requests the user was answering
              \* when he gave the answers that reached it

serverVars == <<slot, req, decision, up, attempts>>
bridgeVars == <<pending, responders>>
isolateVars == <<session, handlers, queued, result>>
callVars == <<replies, cancels>>
userVars == <<opening, granting, ui, shown, recording>>
historyVars == <<consent, saved, cancelled, left, unsent, answers>>
vars == <<serverVars, events, bridgeVars, sink, isolateVars, callVars, port,
          tasks, userVars, historyVars>>

NoSession == [of |-> NoRequest, files |-> {}]
Idle == [of |-> NoRequest, status |-> "none"]

Message(kind, r) == [kind |-> kind, of |-> r]
FileMessage(kind, u) == [kind |-> kind, of |-> u[1], file |-> u[2]]

\* A decision task: the files accepted, for the session the controller shows
\* when it is sent; or a refusal.  History: the request the user was asked
\* about, which nothing in the code passes on.
Decision(r, ids, asked) ==
  [kind |-> "Decision", of |-> r, files |-> ids, asked |-> asked]

Init ==
  /\ slot = NoRequest
  /\ req = [r \in Requests |-> "new"]
  /\ decision = [r \in Requests |-> <<>>]
  /\ up = [u \in Uploads |-> "none"]
  /\ attempts = [u \in Uploads |-> 0]
  /\ events = <<>> /\ sink = <<>> /\ port = <<>> /\ tasks = <<>>
  /\ pending = NoRequest /\ responders = {}
  /\ session = NoSession
  /\ handlers = [u \in Uploads |-> "idle"]
  /\ queued = {}
  /\ result = [u \in Uploads |-> "none"]
  /\ replies = {} /\ cancels = {}
  /\ opening = <<>> /\ granting = <<>> /\ recording = {}
  /\ ui = Idle
  /\ shown = [u \in Uploads |-> "none"]
  /\ consent = [r \in Requests |-> {}]
  /\ saved = {} /\ cancelled = {} /\ left = {} /\ unsent = {}
  /\ answers = [r \in Requests |-> {}]

-----------------------------------------------------------------------------
(* The server. *)

\* A request claims the free slot and asks the application.
PrepareUpload(r) ==
  /\ req[r] = "new" /\ slot = NoRequest
  /\ \A q \in 1..(r - 1) : req[q] # "new"
  /\ slot' = r
  /\ req' = [req EXCEPT ![r] = "asking"]
  /\ events' = Append(events, Message("PrepareUpload", r))
  /\ UNCHANGED <<decision, up, attempts, bridgeVars, sink, isolateVars,
                 callVars, port, tasks, userVars, historyVars>>

\* The sender disconnects or cancels before the decision is taken.  The
\* guard's task frees the slot and only then tells the application, so the
\* event of the next request may overtake this one.
AbortRequest(r) ==
  /\ req[r] = "asking"
  /\ req' = [req EXCEPT ![r] = "aborted"]
  /\ slot' = NoRequest
  /\ UNCHANGED <<decision, up, attempts, events, bridgeVars, sink, isolateVars,
                 callVars, port, tasks, userVars, historyVars>>

TellAborted(r) ==
  /\ req[r] = "aborted"
  /\ req' = [req EXCEPT ![r] = "over"]
  /\ events' = Append(events, Message("PrepareUploadAborted", r))
  /\ UNCHANGED <<slot, decision, up, attempts, bridgeVars, sink, isolateVars,
                 callVars, port, tasks, userVars, historyVars>>

\* Broken variant: any answer but a refusal accepts every file.
TakeDecisionWhole(r) ==
  /\ req[r] = "asking" /\ decision[r] # <<>>
  /\ LET files == IF decision[r][1] = Declined THEN {} ELSE Offered[r] IN
     IF files = {}
     THEN /\ req' = [req EXCEPT ![r] = "over"]
          /\ slot' = NoRequest
          /\ UNCHANGED up
     ELSE /\ req' = [req EXCEPT ![r] = "active"]
          /\ up' = [u \in Uploads |->
                      IF u[1] = r /\ u[2] \in files THEN "pending" ELSE up[u]]
          /\ UNCHANGED slot
  /\ UNCHANGED <<decision, attempts, events, bridgeVars, sink, isolateVars,
                 callVars, port, tasks, userVars, historyVars>>

\* The decision: refused (403), nothing of what was offered (204), or a
\* session with the accepted files.
TakeDecision(r) ==
  /\ req[r] = "asking" /\ decision[r] # <<>>
  /\ LET files == decision[r][1] \cap Offered[r] IN
     IF files = {}
     THEN /\ req' = [req EXCEPT ![r] = "over"]
          /\ slot' = NoRequest
          /\ UNCHANGED up
     ELSE /\ req' = [req EXCEPT ![r] = "active"]
          /\ up' = [u \in Uploads |->
                      IF u[1] = r /\ u[2] \in files THEN "pending" ELSE up[u]]
          /\ UNCHANGED slot
  /\ UNCHANGED <<decision, attempts, events, bridgeVars, sink, isolateVars,
                 callVars, port, tasks, userVars, historyVars>>

\* The sender uploads a file of the active session.
StartUpload(u) ==
  /\ slot = u[1] /\ req[u[1]] = "active"
  /\ up[u] = "pending"
  /\ attempts[u] > 0 => u[1] \in Retrying
  /\ up' = [up EXCEPT ![u] = "waiting"]
  /\ attempts' = [attempts EXCEPT ![u] = @ + 1]
  /\ events' = Append(events, FileMessage("FileUpload", u))
  /\ UNCHANGED <<slot, req, decision, bridgeVars, sink, isolateVars, callVars,
                 port, tasks, userVars, historyVars>>

Final == {"finished", "failed"}

\* finalize_file: the attempt's outcome, and the end of the session when no
\* file of it is left.  A session that is over keeps nothing of it.
Finalize(u, status) ==
  LET r == u[1]
      now == [up EXCEPT ![u] = status]
      done == /\ slot = r /\ req[r] = "active"
              /\ \A v \in Uploads : v[1] = r => now[v] \in Final \cup {"none"}
  IN  /\ up' = now
      /\ IF done
         THEN /\ slot' = NoRequest
              /\ req' = [req EXCEPT ![r] = "over"]
              /\ events' = Append(events, Message("SessionFinished", r))
         ELSE UNCHANGED <<slot, req, events>>

\* The sender leaves while its upload waits for a target.
UploadBreaks(u) ==
  /\ up[u] = "waiting"
  /\ Finalize(u, "failed")
  /\ UNCHANGED <<decision, attempts, bridgeVars, sink, isolateVars, callVars,
                 port, tasks, userVars, historyVars>>

\* The responder was dropped, or the body or the writer failed.
UploadFails(u) ==
  /\ up[u] \in {"dropped", "writing"}
  /\ Finalize(u, "failed")
  /\ result' = IF up[u] = "writing" THEN [result EXCEPT ![u] = "failed"] ELSE result
  /\ UNCHANGED <<decision, attempts, bridgeVars, sink, session, handlers, queued,
                 callVars, port, tasks, userVars, historyVars>>

UploadSaved(u) ==
  /\ up[u] = "writing"
  /\ Finalize(u, "finished")
  /\ result' = [result EXCEPT ![u] = "ok"]
  /\ saved' = saved \cup {u}
  /\ UNCHANGED <<decision, attempts, bridgeVars, sink, session, handlers, queued,
                 callVars, port, tasks, userVars, consent, cancelled, left, unsent,
                 answers>>

\* A checksum that does not match: the sender may try again.
UploadMismatch(u) ==
  /\ up[u] = "writing"
  /\ Finalize(u, IF attempts[u] < MaxAttempts THEN "pending" ELSE "failed")
  /\ result' = [result EXCEPT ![u] = "failed"]
  /\ UNCHANGED <<decision, attempts, bridgeVars, sink, session, handlers, queued,
                 callVars, port, tasks, userVars, historyVars>>

\* The sender ends the active session.
SenderCancels(r) ==
  /\ slot = r /\ req[r] = "active"
  /\ slot' = NoRequest
  /\ req' = [req EXCEPT ![r] = "over"]
  /\ events' = Append(events, Message("SessionCancelled", r))
  /\ UNCHANGED <<decision, up, attempts, bridgeVars, sink, isolateVars, callVars,
                 port, tasks, userVars, historyVars>>

\* Uploads that wait for a target whose responder is dropped notice it.
Dropped(us) == [u \in Uploads |->
                  IF u \in us /\ up[u] = "waiting" THEN "dropped" ELSE up[u]]

-----------------------------------------------------------------------------
(* The bridge: the loop that forwards events and keeps their responders. *)

Others(r) == {u \in responders : u[1] # r}

\* handle_server_event.  The responder of a new request replaces a stored
\* one; the end of a session drops its responders; an aborted request drops
\* the stored responder only if it is its own.
Listen ==
  /\ events # <<>>
  /\ LET e == Head(events) IN
     /\ pending' = CASE e.kind = "PrepareUpload" -> e.of
                     [] e.kind = "PrepareUploadAborted" /\ pending = e.of -> NoRequest
                     [] OTHER -> pending
     /\ responders' =
          CASE e.kind = "FileUpload" -> responders \cup {<<e.of, e.file>>}
            [] e.kind \in {"SessionFinished", "SessionCancelled"} -> Others(e.of)
            [] OTHER -> responders
     /\ up' = IF e.kind \in {"SessionFinished", "SessionCancelled"}
              THEN Dropped(responders \ Others(e.of)) ELSE up
     /\ sink' = Append(sink, e)
  /\ events' = Tail(events)
  /\ UNCHANGED <<slot, req, decision, attempts, isolateVars, callVars, port,
                 tasks, userVars, historyVars>>

\* respond_prepare_upload answers the request whose responder is stored,
\* whichever that is; without one, or if its request is over, the call fails.
RespondPrepareUpload(reply) ==
  /\ reply \in replies
  /\ replies' = replies \ {reply}
  /\ pending' = NoRequest
  /\ IF pending = NoRequest \/ req[pending] # "asking"
     THEN UNCHANGED <<decision, answers>>
     ELSE /\ decision' = [decision EXCEPT ![pending] = <<reply.files>>]
          /\ answers' = [answers EXCEPT ![pending] = @ \cup {reply.asked}]
  /\ UNCHANGED <<slot, req, up, attempts, events, responders, sink, isolateVars,
                 cancels, port, tasks, userVars, consent, saved, cancelled,
                 left, unsent>>

\* Broken variant: the responders stay.
CancelSessionKeepsResponders(r) ==
  /\ r \in cancels
  /\ cancels' = cancels \ {r}
  /\ IF slot = r /\ req[r] = "active"
     THEN slot' = NoRequest /\ req' = [req EXCEPT ![r] = "over"]
     ELSE UNCHANGED <<slot, req>>
  /\ cancelled' = cancelled \cup {r}
  /\ UNCHANGED <<decision, up, responders, attempts, events, pending, sink, isolateVars, replies,
                 port, tasks, userVars, consent, saved, left, unsent,
                 answers>>

\* cancel_session ends the session if it is active (a request that still
\* waits is left alone) and drops its unanswered responders.
CancelSession(r) ==
  /\ r \in cancels
  /\ cancels' = cancels \ {r}
  /\ IF slot = r /\ req[r] = "active"
     THEN slot' = NoRequest /\ req' = [req EXCEPT ![r] = "over"]
     ELSE UNCHANGED <<slot, req>>
  /\ responders' = Others(r)
  /\ up' = Dropped(responders \ Others(r))
  /\ cancelled' = cancelled \cup {r}
  /\ UNCHANGED <<decision, attempts, events, pending, sink, isolateVars, replies,
                 port, tasks, userVars, consent, saved, left, unsent,
                 answers>>

-----------------------------------------------------------------------------
(* The isolate: events from the bridge. *)

Taken == sink' = Tail(sink)

\* A new request clears the session: the old one is over.
IsolatePrepareUpload ==
  /\ sink # <<>> /\ Head(sink).kind = "PrepareUpload"
  /\ Taken
  /\ session' = NoSession
  /\ port' = Append(port, Head(sink))
  /\ UNCHANGED <<serverVars, events, bridgeVars, handlers, queued, result, callVars,
                 tasks, userVars, historyVars>>

\* Broken variant: an upload that does not belong is ignored.
IsolateFileUploadIgnores ==
  /\ sink # <<>> /\ Head(sink).kind = "FileUpload"
  /\ Taken
  /\ LET u == <<Head(sink).of, Head(sink).file>> IN
     IF session.of # u[1] \/ u[2] \notin session.files
     THEN UNCHANGED <<queued, handlers, port>>
     ELSE IF handlers[u] = "idle"
          THEN /\ handlers' = [handlers EXCEPT ![u] = "prepare"]
               /\ port' = Append(port, FileMessage("FileUpload", u))
               /\ UNCHANGED queued
          ELSE /\ queued' = queued \cup {u}
               /\ UNCHANGED <<handlers, port>>
  /\ UNCHANGED <<serverVars, events, bridgeVars, session, result, callVars,
                 tasks, userVars, historyVars>>

\* An upload of another session, or of a file nobody accepted, is refused by
\* cancelling its session.  Any other one is handled at once, or waits for
\* the handler of the previous attempt.
IsolateFileUpload ==
  /\ sink # <<>> /\ Head(sink).kind = "FileUpload"
  /\ Taken
  /\ LET u == <<Head(sink).of, Head(sink).file>> IN
     IF session.of # u[1] \/ u[2] \notin session.files
     THEN /\ cancels' = cancels \cup {u[1]}
          /\ UNCHANGED <<queued, handlers, port>>
     ELSE /\ UNCHANGED cancels
          /\ IF handlers[u] = "idle"
             THEN /\ handlers' = [handlers EXCEPT ![u] = "prepare"]
                  /\ port' = Append(port, FileMessage("FileUpload", u))
                  /\ UNCHANGED queued
             ELSE /\ queued' = queued \cup {u}
                  /\ UNCHANGED <<handlers, port>>
  /\ UNCHANGED <<serverVars, events, bridgeVars, session, result,
                 replies, tasks, userVars, historyVars>>

\* The end of a session clears it, unless another one has taken its place.
\* The controller is told in any case; as it does nothing about a session
\* that finished, that message is left out.
IsolateSessionEnd ==
  /\ sink # <<>>
  /\ Head(sink).kind \in {"SessionFinished", "SessionCancelled"}
  /\ Taken
  /\ session' = IF session.of = Head(sink).of THEN NoSession ELSE session
  /\ port' = IF Head(sink).kind = "SessionCancelled" THEN Append(port, Head(sink))
             ELSE port
  /\ UNCHANGED <<serverVars, events, bridgeVars, handlers, queued, result, callVars,
                 tasks, userVars, historyVars>>

IsolateAborted ==
  /\ sink # <<>> /\ Head(sink).kind = "PrepareUploadAborted"
  /\ Taken
  /\ port' = Append(port, Head(sink))
  /\ UNCHANGED <<serverVars, events, bridgeVars, isolateVars, callVars, tasks,
                 userVars, historyVars>>

(* The isolate: tasks from the controller.  The calls into Rust are awaited *)
(* by their own task only.                                                  *)

\* The session follows the decision, then the bridge is called.  Accepting
\* nothing creates no session.
IsolateDecision ==
  /\ tasks # <<>> /\ Head(tasks).kind = "Decision"
  /\ tasks' = Tail(tasks)
  /\ session' = IF Head(tasks).files \subseteq Declined THEN NoSession
                ELSE [of |-> Head(tasks).of, files |-> Head(tasks).files]
  /\ replies' = replies \cup {[files |-> Head(tasks).files, asked |-> Head(tasks).asked]}
  /\ UNCHANGED <<serverVars, events, bridgeVars, sink, handlers, queued, result,
                 cancels, port, userVars, historyVars>>

IsolateCancel ==
  /\ tasks # <<>> /\ Head(tasks).kind = "Cancel"
  /\ tasks' = Tail(tasks)
  /\ session' = IF session.of = Head(tasks).of THEN NoSession ELSE session
  /\ cancels' = cancels \cup {Head(tasks).of}
  /\ UNCHANGED <<serverVars, events, bridgeVars, sink, handlers, queued, result,
                 replies, port, userVars, historyVars>>

(* The isolate: the handler of an upload. *)

\* The handler reports and the next attempt of its file starts, if there is
\* one.
HandlerOver(u, how) ==
  IF u \in queued
  THEN /\ handlers' = [handlers EXCEPT ![u] = "prepare"]
       /\ queued' = queued \ {u}
       /\ port' = port \o <<FileMessage(how, u), FileMessage("FileUpload", u)>>
  ELSE /\ handlers' = [handlers EXCEPT ![u] = "idle"]
       /\ port' = Append(port, FileMessage(how, u))
       /\ UNCHANGED queued

\* No target could be prepared: fail_file_upload drops the responder, and
\* the file has failed.
PrepareFails(u) ==
  /\ handlers[u] = "prepare"
  /\ responders' = responders \ {u}
  /\ up' = Dropped(responders \cap {u})
  /\ HandlerOver(u, "Failed")
  /\ UNCHANGED <<slot, req, decision, attempts, events, pending, sink, session,
                 result, callVars, tasks, userVars, historyVars>>

\* respond_file_upload: the target goes to the responder.  Without one, or
\* if its request is over, the file has failed.
RespondFileUpload(u) ==
  /\ handlers[u] = "prepare"
  /\ responders' = responders \ {u}
  /\ IF u \in responders /\ up[u] = "waiting"
     THEN /\ up' = [up EXCEPT ![u] = "writing"]
          /\ result' = [result EXCEPT ![u] = "none"]
          /\ handlers' = [handlers EXCEPT ![u] = "wait"]
          /\ UNCHANGED <<port, queued>>
     ELSE /\ HandlerOver(u, "Failed")
          /\ UNCHANGED <<up, result>>
  /\ UNCHANGED <<slot, req, decision, attempts, events, pending, sink, session,
                 callVars, tasks, userVars, historyVars>>

\* The result of the upload.  A saved file still has to reach the gallery,
\* which may fail although the sender was told that all went well.
HandlerEnds(u, kept) ==
  /\ handlers[u] = "wait" /\ result[u] # "none"
  /\ HandlerOver(u, IF result[u] = "ok" /\ kept THEN "Saved" ELSE "Failed")
  /\ UNCHANGED <<serverVars, events, bridgeVars, sink, session, result,
                 callVars, tasks, userVars, historyVars>>

-----------------------------------------------------------------------------
(* The controller: events from the isolate. *)

Received(kinds) ==
  /\ port # <<>> /\ Head(port).kind \in kinds
  /\ port' = Tail(port)

\* closeSession: the page and its files are forgotten.
CloseSession ==
  /\ ui' = Idle
  /\ shown' = [u \in Uploads |-> IF u[1] = ui.of THEN "none" ELSE shown[u]]
  /\ left' = left \cup ({ui.of} \ {NoRequest})

\* onPrepareUpload closes what is shown and looks up directories; the new
\* session is stored after that, and other events come in between.
OnPrepareUpload ==
  /\ Received({"PrepareUpload"})
  /\ CloseSession
  /\ opening' = Append(opening, Head(port).of)
  /\ UNCHANGED <<serverVars, events, bridgeVars, sink, isolateVars, callVars,
                 tasks, granting, recording, consent, saved, cancelled, unsent,
                 answers>>

\* The look-ups of two requests are the same calls and end in their order.
OpenPage(r) ==
  /\ opening # <<>> /\ Head(opening) = r
  /\ opening' = Tail(opening)
  /\ ui' = [of |-> r, status |-> "waiting"]
  /\ shown' = [u \in Uploads |->
                 IF u[1] = r /\ u[2] \in Offered[r] THEN "queue" ELSE shown[u]]
  /\ left' = (left \cup ({ui.of} \ {NoRequest})) \ {r}
  /\ UNCHANGED <<serverVars, events, bridgeVars, sink, isolateVars, callVars,
                 port, tasks, granting, recording, consent, saved, cancelled, unsent,
                 answers>>

Receiving(r) == ui.of = r /\ ui.status \in {"sending", "errors"}

\* onFileUpload: an upload that does not belong to the session shown cancels
\* its session on the server.
OnFileUpload ==
  /\ Received({"FileUpload"})
  /\ LET u == <<Head(port).of, Head(port).file>> IN
     IF Receiving(u[1]) /\ shown[u] \notin {"none", "skipped"}
     THEN /\ shown' = [shown EXCEPT ![u] = "sending"]
          /\ ui' = [ui EXCEPT !.status = "sending"]
          /\ UNCHANGED tasks
     ELSE /\ tasks' = Append(tasks, Message("Cancel", u[1]))
          /\ UNCHANGED <<ui, shown>>
  /\ UNCHANGED <<serverVars, events, bridgeVars, sink, isolateVars, callVars,
                 opening, granting, recording, historyVars>>

\* The session shown is over once every file of it is.
Concluded(display) ==
  LET all == {display[<<ui.of, f>>] : f \in Offered[ui.of]} IN
  IF /\ ui.of # NoRequest
     /\ ui.status \in {"sending", "errors"}
     /\ all \subseteq Final \cup {"skipped"}
  THEN [ui EXCEPT !.status = IF "failed" \in all THEN "errors" ELSE "finished"]
  ELSE ui

\* onFileUploadResult: a failure is shown at once; a saved file goes into
\* the history first, and then whatever session is shown is looked at.
OnFailed ==
  /\ Received({"Failed"})
  /\ LET u == <<Head(port).of, Head(port).file>> IN
     IF Receiving(u[1]) /\ shown[u] \notin {"none", "skipped"}
     THEN /\ shown' = [shown EXCEPT ![u] = "failed"]
          /\ ui' = Concluded(shown')
     ELSE UNCHANGED <<ui, shown>>
  /\ UNCHANGED <<serverVars, events, bridgeVars, sink, isolateVars, callVars,
                 tasks, opening, granting, recording, historyVars>>

OnSaved ==
  /\ Received({"Saved"})
  /\ LET u == <<Head(port).of, Head(port).file>> IN
     IF Receiving(u[1]) /\ shown[u] \notin {"none", "skipped"}
     THEN /\ shown' = [shown EXCEPT ![u] = "finished"]
          /\ recording' = recording \cup {u}
     ELSE UNCHANGED <<shown, recording>>
  /\ UNCHANGED <<serverVars, events, bridgeVars, sink, isolateVars, callVars,
                 tasks, opening, granting, ui, historyVars>>

Recorded(u) ==
  /\ u \in recording
  /\ recording' = recording \ {u}
  /\ ui' = Concluded(shown)
  /\ UNCHANGED <<serverVars, events, bridgeVars, sink, isolateVars, callVars,
                 port, tasks, opening, granting, shown, historyVars>>

\* onSessionEnd, onPrepareUploadAborted: _cancelBySender, if the session is
\* the one shown; an aborted request only while it is undecided.
OnEnd ==
  /\ Received({"SessionCancelled", "PrepareUploadAborted"})
  /\ LET e == Head(port) IN
     ui' = IF /\ ui.of = e.of
              /\ \/ e.kind = "SessionCancelled"
                 \/ e.kind = "PrepareUploadAborted" /\ ui.status = "waiting"
           THEN [ui EXCEPT !.status = "cancelled"] ELSE ui
  /\ UNCHANGED <<serverVars, events, bridgeVars, sink, isolateVars, callVars,
                 tasks, opening, granting, shown, recording, historyVars>>

-----------------------------------------------------------------------------
(* The user. *)

\* acceptFileRequest.  Old versions of Android are asked for the permission
\* to write before the decision is sent; elsewhere Grant follows at once.
Accept(ids) ==
  /\ ui.status = "waiting"
  /\ ids \subseteq Offered[ui.of] /\ ids # {}
  /\ ui' = [ui EXCEPT !.status = "sending"]
  /\ shown' = [u \in Uploads |->
                 IF u[1] = ui.of /\ u[2] \in Offered[ui.of] \ ids THEN "skipped"
                 ELSE shown[u]]
  /\ granting' = Append(granting, [of |-> ui.of, files |-> ids])
  /\ consent' = [consent EXCEPT ![ui.of] = ids]
  /\ UNCHANGED <<serverVars, events, bridgeVars, sink, isolateVars, callVars,
                 port, tasks, opening, recording, saved, cancelled, left, unsent,
                 answers>>

\* The decision is sent for the session shown by now; none is sent when
\* nothing is shown any more.
Grant ==
  /\ granting # <<>>
  /\ granting' = Tail(granting)
  /\ tasks' = IF ui.of = NoRequest THEN tasks
              ELSE Append(tasks, Decision(ui.of, Head(granting).files, Head(granting).of))
  /\ unsent' = unsent \cup ({Head(granting).of} \ {ui.of})
  /\ UNCHANGED <<serverVars, events, bridgeVars, sink, isolateVars, callVars,
                 port, opening, ui, shown, recording, consent, saved, cancelled,
                 left, answers>>

\* declineFileRequest, and accepting a message, which has no files.
Refuse(answer) ==
  /\ ui.status = "waiting"
  /\ tasks' = Append(tasks, Decision(ui.of, answer, ui.of))
  /\ CloseSession
  /\ UNCHANGED <<serverVars, events, bridgeVars, sink, isolateVars, callVars,
                 port, opening, granting, recording, consent, saved, cancelled, unsent,
                 answers>>

\* cancelSession
UserCancels ==
  /\ ui.status = "sending"
  /\ tasks' = Append(tasks, Message("Cancel", ui.of))
  /\ CloseSession
  /\ UNCHANGED <<serverVars, events, bridgeVars, sink, isolateVars, callVars,
                 port, opening, granting, recording, consent, saved, cancelled, unsent,
                 answers>>

UserCloses ==
  /\ ui.status \in {"finished", "errors", "cancelled"}
  /\ CloseSession
  /\ UNCHANGED <<serverVars, events, bridgeVars, sink, isolateVars, callVars,
                 port, tasks, opening, granting, recording, consent, saved,
                 cancelled, unsent, answers>>

-----------------------------------------------------------------------------

\* What the sender decides to do, and when.
Sender ==
  \/ \E r \in Requests : PrepareUpload(r) \/ AbortRequest(r) \/ SenderCancels(r)
  \/ \E u \in Uploads : StartUpload(u) \/ UploadBreaks(u)

\* What the user does of his own accord.
Whim == UserCancels \/ UserCloses

\* What happens if nobody does anything more: the handlers, the bridge, the
\* isolate and the controller go on, and the user answers what he is asked.
Progress ==
  \/ \E r \in Requests :
       TellAborted(r) \/ TakeDecision(r) \/ CancelSession(r) \/ OpenPage(r)
  \/ \E u \in Uploads :
       \/ UploadFails(u) \/ UploadSaved(u) \/ UploadMismatch(u)
       \/ PrepareFails(u) \/ RespondFileUpload(u)
       \/ \E kept \in BOOLEAN : HandlerEnds(u, kept)
       \/ Recorded(u)
  \/ Listen
  \/ \E reply \in replies : RespondPrepareUpload(reply)
  \/ IsolatePrepareUpload \/ IsolateFileUpload \/ IsolateSessionEnd
  \/ IsolateAborted \/ IsolateDecision \/ IsolateCancel
  \/ OnPrepareUpload \/ OnFileUpload \/ OnFailed \/ OnSaved \/ OnEnd
  \/ \E ids \in SUBSET Files : Accept(ids)
  \/ Grant
  \/ Refuse({}) \/ Refuse(Declined)

Next == Sender \/ Whim \/ Progress

Spec == Init /\ [][Next]_vars

\* Every request, upload and message is bounded, so no behaviour goes on for
\* ever: it is enough that it does not stop while any of them can move.
FairSpec == Spec /\ WF_vars(Progress)

-----------------------------------------------------------------------------
(* Properties. *)

\* Every variable has its type.
TypeOK ==
  /\ slot \in Requests \cup {NoRequest}
  /\ req \in [Requests -> {"new", "asking", "aborted", "active", "over"}]
  /\ up \in [Uploads -> {"none", "pending", "waiting", "dropped", "writing",
                         "finished", "failed"}]
  /\ attempts \in [Uploads -> 0..MaxAttempts]
  /\ pending \in Requests \cup {NoRequest}
  /\ responders \subseteq Uploads
  /\ handlers \in [Uploads -> {"idle", "prepare", "wait"}]
  /\ queued \subseteq Uploads
  /\ opening \in Seq(Requests)
  /\ ui \in [of : Requests \cup {NoRequest},
             status : {"none", "waiting", "sending", "finished", "errors", "cancelled"}]
  /\ ui.of = NoRequest <=> ui.status = "none"
  /\ shown \in [Uploads -> {"none", "queue", "skipped", "sending", "finished",
                            "failed"}]

\* A file is received only if its request offered it and the user accepted a
\* file of its ID in a request whose answer reached this one.  That is this
\* very request, unless the answer to another one came late: an answer names
\* no request on its way to the server, and the upload page numbers the files
\* of every request from 0 (upload.html), so the IDs do not tell them apart.
Consented ==
  \A u \in Uploads :
    up[u] # "none" => /\ u[2] \in Offered[u[1]]
                      /\ \E q \in answers[u[1]] : u[2] \in consent[q]

\* What the page shows as finished was saved, and a file that failed on the
\* server is never shown as finished.
ShownIsTrue == \A u \in Uploads : shown[u] = "finished" => u \in saved

\* What arrives was accepted, and what is shown as received has arrived:
\* across the server, the bridge, the isolate and the receive controller.
FilesAccountedFor == TypeOK /\ Consented /\ ShownIsTrue

\* The answer to another request has reached request r.
Misled(r) == ~(answers[r] \subseteq {r})

\* No upload gets a target once the cancellation of its session has reached
\* the server, in whatever order the calls arrived.  Only a request that got
\* the answer to another one may become a session after it was cancelled, or
\* be decided after it.
CancelledGetsNoTarget ==
  [][\A u \in Uploads :
       up[u] = "waiting" /\ up'[u] = "writing" =>
         u[1] \notin cancelled \/ Misled(u[1])]_vars

\* No request waits, unless the user left its page between accepting it and
\* granting the permission: cancelling it then sends no decision, and the
\* server leaves a request alone that is not a session yet.
RequestsAnswered == \A r \in Requests : req[r] = "asking" => r \in unsent

\* No upload waits for its target.
UploadsAnswered == \A u \in Uploads : up[u] # "waiting"

\* The result of every saved file is shown, unless its page was left, the
\* sender had cancelled the session, or the answer to another request started
\* it: its results may then come before the user has answered, and are lost.
SavedShown ==
  \A u \in saved : \/ shown[u] \in Final
                   \/ u[1] \in left
                   \/ Misled(u[1])
                   \/ ui.of = u[1] /\ ui.status = "cancelled"

\* Every behaviour comes to rest in such a state: whatever order the four
\* queues and the calls deliver in, no sender is left waiting for an answer
\* and no result is lost, but for those SavedShown names.
ComesToRest == <>[](RequestsAnswered /\ UploadsAnswered /\ SavedShown)
=============================================================================
