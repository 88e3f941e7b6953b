------------------------------ MODULE WebSend ------------------------------
(***************************************************************************)
(* Web send: files offered to browsers                                     *)
(* (packages/core/src/http/server/web.rs).                                 *)
(*                                                                         *)
(* The sessions are keyed by the address of the browser, so all tabs and   *)
(* reloads of one browser share an entry.  As in UploadSession an action   *)
(* is what a task does between two awaits, and a request future can be     *)
(* dropped at each of them.  The PIN comes before all of this and is       *)
(* PinGate; a request it refuses is not written.                           *)
(***************************************************************************)
EXTENDS Integers, Sequences, FiniteSets

CONSTANTS
  Prepares,       \* prepare-download requests
  Downloads,      \* connections that carry download requests
  Browsers,       \* addresses of browsers
  PeerOf,         \* the address each prepare-download request comes from
  WebCapacity,    \* capacity of the event channel (16 in the application)
  UnguardedDrop,  \* requests that may be dropped after their guard was disarmed
  NoPeer          \* no address, no connection

ASSUME WebAssumption ==
  /\ PeerOf \in [Prepares -> Browsers]
  /\ WebCapacity \in Nat \ {0}
  /\ UnguardedDrop \subseteq Prepares
  /\ NoPeer \notin Browsers \cup Downloads

VARIABLES
  sessions,  \* WebPageState.sessions: the state of each address's entry
  pc,        \* where each prepare-download handler waits
  answer,    \* what its browser was answered
  decision,  \* its decision channel
  abort,     \* requests whose dropped guard spawned a task
  dpc,       \* where each download handler waits
  dip,       \* the address of its request
  events,    \* the event channel to the application
  rxOpen,    \* the application still holds the receiver
  granted    \* history: addresses the application accepted a request of

prepareVars  == <<pc, answer, decision, abort>>
downloadVars == <<dpc, dip>>
channelVars  == <<events, rxOpen>>
webVars == <<sessions, pc, answer, decision, abort, dpc, dip, events, rxOpen,
          granted>>

Event ==
  [type : {"PrepareDownload"}, req : Prepares]
  \cup [type : {"FileDownload"}, down : Downloads \cup {NoPeer}]

PrepareDownloadEvent(r) == [type |-> "PrepareDownload", req |-> r]
FileDownloadEvent(d) == [type |-> "FileDownload", down |-> d]

\* Every variable has its type, and the channel keeps to its capacity.
WebType ==
  /\ sessions \in [Browsers -> {"none", "pending", "accepted"}]
  /\ pc \in [Prepares -> {"new", "insert", "send", "decide", "clear", "accept",
                          "done"}]
  /\ answer \in [Prepares -> {"none", "ok", "rejected", "error"}]
  /\ decision \in [Prepares -> {"empty", "asked", "accept", "decline", "lost"}]
  /\ abort \subseteq Prepares
  /\ dpc \in [Downloads -> {"idle", "send", "queued", "asked"}]
  /\ dip \in [Downloads -> Browsers \cup {NoPeer}]
  /\ events \in Seq(Event)
  /\ Len(events) <= WebCapacity
  /\ rxOpen \in BOOLEAN
  /\ granted \subseteq Browsers

WebInit ==
  /\ sessions = [p \in Browsers |-> "none"]
  /\ pc = [r \in Prepares |-> "new"]
  /\ answer = [r \in Prepares |-> "none"]
  /\ decision = [r \in Prepares |-> "empty"]
  /\ abort = {}
  /\ dpc = [d \in Downloads |-> "idle"]
  /\ dip = [d \in Downloads |-> NoPeer]
  /\ events = <<>>
  /\ rxOpen = TRUE
  /\ granted = {}

\* A send waits for room and fails at once when the receiver is gone.
Send(e) ==
  /\ ~rxOpen \/ Len(events) < WebCapacity
  /\ events' = IF rxOpen THEN Append(events, e) ELSE events
  /\ UNCHANGED rxOpen

\* The handler of r is over.
Finish(r, how) ==
  /\ pc' = [pc EXCEPT ![r] = "done"]
  /\ answer' = [answer EXCEPT ![r] = how]

\* Is p accepted?  A session is found by its ID, the address it belongs to,
\* and only for that address.
Valid(p) == sessions[p] = "accepted"

-----------------------------------------------------------------------------
(* prepare-download. *)

\* A request arrives.  One that names the accepted session of its address
\* gets the file list again; any other one asks for a session.
PrepareDownload(r, named) ==
  /\ pc[r] = "new"
  /\ IF named /\ Valid(PeerOf[r])
     THEN Finish(r, "ok")
     ELSE /\ pc' = [pc EXCEPT ![r] = "insert"]
          /\ UNCHANGED answer
  /\ UNCHANGED <<sessions, decision, abort, downloadVars, channelVars, granted>>

\* A new request replaces any previous session of its address.
InsertPending(r) ==
  /\ pc[r] = "insert"
  /\ sessions' = [sessions EXCEPT ![PeerOf[r]] = "pending"]
  /\ pc' = [pc EXCEPT ![r] = "send"]
  /\ UNCHANGED <<answer, decision, abort, downloadVars, channelVars, granted>>

\* Broken variant of SendPrepareDownload: a full channel loses the event.
SendPrepareDownloadLossy(r) ==
  /\ pc[r] = "send"
  /\ events' = IF rxOpen /\ Len(events) < WebCapacity
               THEN Append(events, PrepareDownloadEvent(r)) ELSE events
  /\ IF rxOpen
     THEN /\ pc' = [pc EXCEPT ![r] = "decide"]
          /\ UNCHANGED <<answer, abort>>
     ELSE /\ Finish(r, "error")
          /\ abort' = abort \cup {r}
  /\ UNCHANGED <<rxOpen, sessions, decision, downloadVars, granted>>

\* Asks the application; without a receiver the armed guard is dropped.
SendPrepareDownload(r) ==
  /\ pc[r] = "send"
  /\ Send(PrepareDownloadEvent(r))
  /\ IF rxOpen
     THEN /\ pc' = [pc EXCEPT ![r] = "decide"]
          /\ UNCHANGED <<answer, abort>>
     ELSE /\ Finish(r, "error")
          /\ abort' = abort \cup {r}
  /\ UNCHANGED <<sessions, decision, downloadVars, granted>>

\* A lost decision leaves with the guard armed, a decline disarms it first.
ReceiveDecision(r) ==
  /\ pc[r] = "decide"
  /\ \/ /\ decision[r] = "lost"
        /\ Finish(r, "error")
        /\ abort' = abort \cup {r}
     \/ /\ decision[r] = "decline"
        /\ pc' = [pc EXCEPT ![r] = "clear"]
        /\ UNCHANGED <<answer, abort>>
     \/ /\ decision[r] = "accept"
        /\ pc' = [pc EXCEPT ![r] = "accept"]
        /\ UNCHANGED <<answer, abort>>
  /\ UNCHANGED <<sessions, decision, downloadVars, channelVars, granted>>

\* Broken variant of Cleared: an accepted session is removed as well.
ClearedAnyway(p) == [sessions EXCEPT ![p] = "none"]

\* clear_pending_session
Cleared(p) == [sessions EXCEPT ![p] = IF @ = "pending" THEN "none" ELSE @]

\* PendingWebSessionGuard::clear has the lock.
GuardClear(r) ==
  /\ pc[r] = "clear"
  /\ sessions' = Cleared(PeerOf[r])
  /\ Finish(r, "rejected")
  /\ UNCHANGED <<decision, abort, downloadVars, channelVars, granted>>

\* The entry of the address is accepted if there still is one; the browser
\* gets the file list in any case.
AcceptSession(r) ==
  /\ pc[r] = "accept"
  /\ sessions' = [sessions EXCEPT ![PeerOf[r]] =
                    IF @ = "none" THEN "none" ELSE "accepted"]
  /\ Finish(r, "ok")
  /\ UNCHANGED <<decision, abort, downloadVars, channelVars, granted>>

\* The browser goes away.
DropPrepare(r) ==
  /\ pc[r] \in {"insert", "send", "decide", "clear", "accept"}
  /\ pc[r] = "clear" => r \in UnguardedDrop
  /\ pc' = [pc EXCEPT ![r] = "done"]
  /\ abort' = IF pc[r] \in {"send", "decide", "accept"} THEN abort \cup {r}
              ELSE abort
  /\ UNCHANGED <<sessions, answer, decision, downloadVars, channelVars, granted>>

\* The task PendingWebSessionGuard::drop spawned.
AbortClear(r) ==
  /\ r \in abort
  /\ sessions' = Cleared(PeerOf[r])
  /\ abort' = abort \ {r}
  /\ UNCHANGED <<pc, answer, decision, downloadVars, channelVars, granted>>

-----------------------------------------------------------------------------
(* download. *)

\* Broken variant of Download: a pending session is enough.
DownloadPending(d, p) ==
  /\ dpc[d] = "idle"
  /\ sessions[p] # "none"
  /\ dpc' = [dpc EXCEPT ![d] = "send"]
  /\ dip' = [dip EXCEPT ![d] = p]
  /\ UNCHANGED <<sessions, prepareVars, channelVars, granted>>

\* A request for one of the offered files by an accepted address; every
\* other one is answered 403 or 400.
Download(d, p) ==
  /\ dpc[d] = "idle"
  /\ Valid(p)
  /\ dpc' = [dpc EXCEPT ![d] = "send"]
  /\ dip' = [dip EXCEPT ![d] = p]
  /\ UNCHANGED <<sessions, prepareVars, channelVars, granted>>

DownloadIdle(d) ==
  /\ dpc' = [dpc EXCEPT ![d] = "idle"]
  /\ dip' = [dip EXCEPT ![d] = NoPeer]

SendFileDownload(d) ==
  /\ dpc[d] = "send"
  /\ Send(FileDownloadEvent(d))
  /\ IF rxOpen
     THEN /\ dpc' = [dpc EXCEPT ![d] = "queued"]
          /\ UNCHANGED dip
     ELSE DownloadIdle(d)
  /\ UNCHANGED <<sessions, prepareVars, granted>>

\* The browser goes away; the responder in a queued event is dead then.
DropDownload(d) ==
  /\ dpc[d] # "idle"
  /\ DownloadIdle(d)
  /\ events' = [i \in 1..Len(events) |->
       IF events[i] = FileDownloadEvent(d) THEN FileDownloadEvent(NoPeer)
       ELSE events[i]]
  /\ UNCHANGED <<sessions, prepareVars, rxOpen, granted>>

-----------------------------------------------------------------------------
(* The application. *)

\* A responder whose request is gone is ignored.
AppReceive ==
  /\ rxOpen
  /\ events # <<>>
  /\ events' = Tail(events)
  /\ decision' = [r \in Prepares |->
       IF Head(events) = PrepareDownloadEvent(r) THEN "asked" ELSE decision[r]]
  /\ dpc' = [d \in Downloads |->
       IF Head(events) = FileDownloadEvent(d) THEN "asked" ELSE dpc[d]]
  /\ UNCHANGED <<sessions, pc, answer, abort, dip, rxOpen, granted>>

AppDecide(r, how) ==
  /\ pc[r] = "decide"
  /\ decision[r] = "asked"
  /\ decision' = [decision EXCEPT ![r] = how]
  /\ granted' = IF how = "accept" THEN granted \cup {PeerOf[r]} ELSE granted
  /\ UNCHANGED <<sessions, pc, answer, abort, downloadVars, channelVars>>

\* The content of the file, or a dropped responder (500), ends the handler.
AppContent(d) ==
  /\ dpc[d] = "asked"
  /\ DownloadIdle(d)
  /\ UNCHANGED <<sessions, prepareVars, channelVars, granted>>

\* The receiver is dropped with the queued events and their responders.
AppClose ==
  /\ rxOpen
  /\ rxOpen' = FALSE
  /\ events' = <<>>
  /\ decision' = [r \in Prepares |->
       IF pc[r] = "decide" /\ decision[r] = "empty" THEN "lost" ELSE decision[r]]
  /\ dpc' = [d \in Downloads |-> IF dpc[d] = "queued" THEN "idle" ELSE dpc[d]]
  /\ dip' = [d \in Downloads |-> IF dpc[d] = "queued" THEN NoPeer ELSE dip[d]]
  /\ UNCHANGED <<sessions, pc, answer, abort, granted>>

-----------------------------------------------------------------------------

PrepareStep(r) ==
  \/ \E named \in BOOLEAN : PrepareDownload(r, named)
  \/ InsertPending(r)
  \/ SendPrepareDownload(r)
  \/ ReceiveDecision(r)
  \/ GuardClear(r)
  \/ AcceptSession(r)
  \/ DropPrepare(r)
  \/ AbortClear(r)

DownloadStep(d) ==
  \/ \E p \in Browsers : Download(d, p)
  \/ SendFileDownload(d)
  \/ DropDownload(d)

AppNext ==
  \/ AppReceive
  \/ \E r \in Prepares, how \in {"accept", "decline", "lost"} : AppDecide(r, how)
  \/ \E d \in Downloads : AppContent(d)
  \/ AppClose

WebNext ==
  \/ \E r \in Prepares : PrepareStep(r)
  \/ \E d \in Downloads : DownloadStep(d)
  \/ AppNext

WebSpec == WebInit /\ [][WebNext]_webVars

-----------------------------------------------------------------------------
(* Properties. *)

\* Only a browser whose address the application accepted is served, however
\* its tabs' requests overlap: an entry that another request inserted, or
\* that was never accepted, does not let it in.
OnlyGrantedServed ==
  \A d \in Downloads : dpc[d] # "idle" => dip[d] \in granted

\* An accepted session ends only when its own address asks again: no
\* declined, failed or aborted request of another tab takes it away.
AcceptedUntilRenewed ==
  [][\A p \in Browsers :
       sessions[p] = "accepted" /\ sessions'[p] # "accepted" =>
         \E r \in Prepares : PeerOf[r] = p /\ pc[r] = "insert"]_webVars

\* The guard of r, or the task it spawned, will still remove the entry.
Holds(r) == pc[r] \in {"send", "decide", "clear", "accept"} \/ r \in abort

\* The requests of address p are only dropped where their guard covers them.
Guarded(p) == \A r \in UnguardedDrop : PeerOf[r] # p

\* A pending entry is not leaked: some request of its address will accept or
\* remove it ("The cleanup also runs on drop", web.rs:441).
PendingEntryNotLeaked ==
  \A p \in Browsers :
    Guarded(p) /\ sessions[p] = "pending" =>
      \E r \in Prepares : PeerOf[r] = p /\ Holds(r)

\* Browsers are served only on consent, and their pending entries always
\* have a request that answers for them (web.rs, PendingSessionGuard).
SessionsGuarded == WebType /\ OnlyGrantedServed /\ PendingEntryNotLeaked

-----------------------------------------------------------------------------
(* Liveness: the runtime polls tasks that can go on, tokio's channel queues *)
(* its senders, and the application takes and answers its events.           *)

Fairness ==
  /\ \A r \in Prepares :
       /\ WF_webVars(InsertPending(r))
       /\ SF_webVars(SendPrepareDownload(r))
       /\ WF_webVars(ReceiveDecision(r))
       /\ WF_webVars(GuardClear(r))
       /\ WF_webVars(AcceptSession(r))
       /\ WF_webVars(AbortClear(r))
       /\ WF_webVars(\E how \in {"accept", "decline", "lost"} : AppDecide(r, how))
  /\ \A d \in Downloads : SF_webVars(SendFileDownload(d))
  /\ WF_webVars(AppReceive)

FairWebSpec == WebSpec /\ Fairness

\* No address is left pending for ever, whichever of its requests are
\* dropped where their guard covers them or lose their decision.
EntrySettles ==
  \A p \in Browsers :
    Guarded(p) => (sessions[p] = "pending" ~> sessions[p] # "pending")
=============================================================================
