---------------------------- MODULE UploadSession ----------------------------
(***************************************************************************)
(* The upload sessions of the v2 HTTP server                               *)
(* (packages/core/src/http/server/v2.rs with common/session.rs,            *)
(* common/pin.rs and ServerHandle::cancel_v2_session).                     *)
(*                                                                         *)
(* One mutex protects one session slot.  Every request is a future that    *)
(* can be dropped at any of its awaits (sender gone, server stopped); two  *)
(* guards clean up on drop by spawning a task.  An action is what a task   *)
(* does between two awaits: a critical section of the mutex has no await   *)
(* in it and is one action, so "waiting for the lock" is a pc of its own.  *)
(*                                                                         *)
(* A prepare-upload request draws a fresh UUID for its session, so the     *)
(* request itself serves as the session ID.  Requests the handlers refuse  *)
(* without touching any state are stuttering steps and are not written.    *)
(***************************************************************************)
EXTENDS Integers, Sequences, FiniteSets

CONSTANTS
  Prepares,          \* prepare-upload requests = session IDs
  Uploads,           \* connections that carry upload requests
  Cancels,           \* connections that carry cancel requests
  Peers,             \* addresses of remote devices
  Files,             \* file IDs
  Sender,            \* the address each prepare-upload request comes from
  Offered,           \* the file IDs each prepare-upload request offers
  Capacity,          \* capacity of the event channel (16 in the application)
  MaxUploadAttempts, \* MAX_UPLOAD_ATTEMPTS
  MaxPinAttempts,    \* MAX_PIN_ATTEMPTS
  PinRequired,       \* ServerConfigV2.pin is set
  Registering,       \* addresses that call /register
  None               \* no session, no file, no address

ASSUME ConstantsAssumption ==
  /\ Sender \in [Prepares -> Peers]
  /\ Offered \in [Prepares -> SUBSET Files]
  /\ Capacity \in Nat \ {0}
  /\ MaxUploadAttempts \in Nat \ {0}
  /\ MaxPinAttempts \in Nat \ {0}
  /\ PinRequired \in BOOLEAN
  /\ Registering \subseteq Peers
  /\ None \notin Prepares \cup Files \cup Peers

VARIABLES
  slot,       \* V2State.session: which state, of which session
  files,      \* SessionFileV2.status of the active session's files
  attempts,   \* SessionFileV2.attempts
  pinFails,   \* V2State.pin_attempts
  pc,         \* where each prepare-upload handler waits
  decision,   \* its decision channel
  accepted,   \* the file IDs of an accepting decision
  cancelled,  \* its cancellation token
  abort,      \* the task its guard spawned on drop
  upc,        \* where each upload handler waits
  usid,       \* the session ID of its request
  ufile,      \* the file ID of its request
  ures,       \* the SaveResult it will report
  orphans,    \* finalize_file tasks spawned by dropped upload guards
  ending,     \* such tasks that still have to send SessionEnd
  cpc,        \* where each cancel handler waits
  csid,       \* the session ID of its request
  cip,        \* the address of its request
  events,     \* the event channel to the application
  rxOpen,     \* the application still holds the receiver
  abandoned   \* history: requests and uploads that were dropped while their
              \* disarmed guard waited for the lock

prepareVars == <<pc, decision, accepted, cancelled, abort>>
uploadVars  == <<upc, usid, ufile, ures, orphans, ending>>
cancelVars  == <<cpc, csid, cip>>
sessionVars == <<slot, files, attempts>>
channelVars == <<events, rxOpen>>
vars == <<slot, files, attempts, pinFails, pc, decision, accepted, cancelled,
          abort, upc, usid, ufile, ures, orphans, ending, cpc, csid, cip,
          events, rxOpen, abandoned>>

-----------------------------------------------------------------------------
(* Types. *)

SlotStates == {"None", "Pending", "Active"}
FileStatus == {"Absent", "Pending", "InProgress", "Finished", "Failed"}
SaveResult == {"Success", "Failed", "HashMismatch"}
PreparePc  == {"new", "claim", "send", "decide", "clear", "activate", "done"}
UploadPc   == {"idle", "send", "queued", "asked", "save", "finish", "notify"}
CancelPc   == {"idle", "active", "end", "received"}

Slot == [state : SlotStates, sid : Prepares \cup {None}]

NoSlot     == [state |-> "None", sid |-> None]
PendingOf(r) == [state |-> "Pending", sid |-> r]
ActiveOf(r)  == [state |-> "Active", sid |-> r]

\* The fields an event does not have are left out of the model: a file event
\* names the connection whose responder it carries.
Event ==
  [type : {"PrepareUpload", "PrepareUploadAborted", "Finished", "Cancelled",
           "CancelReceived"}, sid : Prepares]
  \cup [type : {"FileUpload"}, sid : Prepares, file : Files, up : Uploads]
  \cup [type : {"Register"}, ip : Peers]

SessionEvent(type, r) == [type |-> type, sid |-> r]
FileUpload(u) ==
  [type |-> "FileUpload", sid |-> usid[u], file |-> ufile[u], up |-> u]

TypeOK ==
  /\ slot \in Slot
  /\ files \in [Files -> FileStatus]
  /\ attempts \in [Files -> Nat]
  /\ pinFails \in [Peers -> Nat]
  /\ pc \in [Prepares -> PreparePc]
  /\ decision \in [Prepares -> {"empty", "asked", "accept", "decline", "lost"}]
  /\ accepted \in [Prepares -> SUBSET Files]
  /\ cancelled \in [Prepares -> BOOLEAN]
  /\ abort \in [Prepares -> {"no", "clear", "notify"}]
  /\ upc \in [Uploads -> UploadPc]
  /\ usid \in [Uploads -> Prepares \cup {None}]
  /\ ufile \in [Uploads -> Files \cup {None}]
  /\ ures \in [Uploads -> SaveResult]
  /\ orphans \subseteq Prepares \X Files
  /\ ending \subseteq Prepares
  /\ cpc \in [Cancels -> CancelPc]
  /\ csid \in [Cancels -> Prepares \cup {None}]
  /\ cip \in [Cancels -> Peers \cup {None}]
  /\ events \in Seq(Event)
  /\ rxOpen \in BOOLEAN
  /\ abandoned \subseteq Prepares \X (Files \cup {None})

Init ==
  /\ slot = NoSlot
  /\ files = [f \in Files |-> "Absent"]
  /\ attempts = [f \in Files |-> 0]
  /\ pinFails = [p \in Peers |-> 0]
  /\ pc = [r \in Prepares |-> "new"]
  /\ decision = [r \in Prepares |-> "empty"]
  /\ accepted = [r \in Prepares |-> {}]
  /\ cancelled = [r \in Prepares |-> FALSE]
  /\ abort = [r \in Prepares |-> "no"]
  /\ upc = [u \in Uploads |-> "idle"]
  /\ usid = [u \in Uploads |-> None]
  /\ ufile = [u \in Uploads |-> None]
  /\ ures = [u \in Uploads |-> "Failed"]
  /\ orphans = {}
  /\ ending = {}
  /\ cpc = [c \in Cancels |-> "idle"]
  /\ csid = [c \in Cancels |-> None]
  /\ cip = [c \in Cancels |-> None]
  /\ events = <<>>
  /\ rxOpen = TRUE
  /\ abandoned = {}

-----------------------------------------------------------------------------
(* The event channel.  A send waits for room and fails at once when the    *)
(* receiver is gone; the handlers below ignore the failure of the          *)
(* notifications they send last.                                           *)

CanSend == ~rxOpen \/ Len(events) < Capacity

Send(e) ==
  /\ CanSend
  /\ events' = IF rxOpen THEN Append(events, e) ELSE events
  /\ UNCHANGED rxOpen

\* register uses try_send: a full channel loses the event.
Register(p) ==
  /\ rxOpen
  /\ Len(events) < Capacity
  /\ events' = Append(events, [type |-> "Register", ip |-> p])
  /\ UNCHANGED <<rxOpen, sessionVars, pinFails, prepareVars, uploadVars,
                 cancelVars, abandoned>>

-----------------------------------------------------------------------------
(* Freeing the slot. *)

FreeSlot ==
  /\ slot' = NoSlot
  /\ files' = [f \in Files |-> "Absent"]
  /\ attempts' = [f \in Files |-> 0]

\* clear_pending_session: frees a pending slot whoever claimed it.
ClearPendingSession ==
  IF slot.state = "Pending" THEN FreeSlot ELSE UNCHANGED sessionVars

-----------------------------------------------------------------------------
(* prepare-upload. *)

\* check_pin with the PIN of the request ("absent", "wrong" or "right").
PinBlocked(p) == pinFails[p] >= MaxPinAttempts

CheckPin(p, pin) ==
  \/ /\ PinRequired /\ ~PinBlocked(p) /\ pin = "wrong"
     /\ pinFails' = [pinFails EXCEPT ![p] = @ + 1]
  \/ /\ PinRequired /\ ~PinBlocked(p) /\ pin = "right"
     /\ pinFails' = [pinFails EXCEPT ![p] = 0]
  \/ /\ ~PinRequired \/ PinBlocked(p) \/ pin = "absent"
     /\ UNCHANGED pinFails

PinAccepted(p, pin) == ~PinRequired \/ (~PinBlocked(p) /\ pin = "right")

\* A request arrives: the PIN is checked, then the body is read; a wrong PIN
\* (401), a blocked address (429) or an empty offer (400) end it.
PrepareUpload(r, pin) ==
  /\ pc[r] = "new"
  /\ CheckPin(Sender[r], pin)
  /\ pc' = [pc EXCEPT ![r] =
              IF PinAccepted(Sender[r], pin) /\ Offered[r] # {}
              THEN "claim" ELSE "done"]
  /\ UNCHANGED <<sessionVars, decision, accepted, cancelled, abort,
                 uploadVars, cancelVars, channelVars, abandoned>>

\* Broken variant of ClaimSlot: the slot is claimed without looking.
ClaimSlotBlindly(r) ==
  /\ pc[r] = "claim"
  /\ slot' = PendingOf(r)
  /\ pc' = [pc EXCEPT ![r] = "send"]
  /\ UNCHANGED <<files, attempts, pinFails, decision, accepted, cancelled,
                 abort, uploadVars, cancelVars, channelVars, abandoned>>

\* Claims the single session slot, or answers 409.
ClaimSlot(r) ==
  /\ pc[r] = "claim"
  /\ IF slot.state = "None"
     THEN /\ slot' = PendingOf(r)
          /\ pc' = [pc EXCEPT ![r] = "send"]
     ELSE /\ UNCHANGED slot
          /\ pc' = [pc EXCEPT ![r] = "done"]
  /\ UNCHANGED <<files, attempts, pinFails, decision, accepted, cancelled,
                 abort, uploadVars, cancelVars, channelVars, abandoned>>

\* Asks the application; without a receiver the request fails with 500 and
\* its armed guard is dropped.
SendPrepareUpload(r) ==
  /\ pc[r] = "send"
  /\ Send(SessionEvent("PrepareUpload", r))
  /\ IF rxOpen
     THEN /\ pc' = [pc EXCEPT ![r] = "decide"]
          /\ UNCHANGED abort
     ELSE /\ pc' = [pc EXCEPT ![r] = "done"]
          /\ abort' = [abort EXCEPT ![r] = "clear"]
  /\ UNCHANGED <<sessionVars, pinFails, decision, accepted, cancelled,
                 uploadVars, cancelVars, abandoned>>

\* Broken variant of ReceiveDecision: accepting nothing creates a session.
ReceiveDecisionEmpty(r) ==
  /\ pc[r] = "decide"
  /\ decision[r] \in {"accept", "decline", "lost"}
  /\ pc' = [pc EXCEPT ![r] =
              CASE decision[r] = "lost" -> "done"
                [] decision[r] = "accept" -> "activate"
                [] OTHER -> "clear"]
  /\ abort' = [abort EXCEPT ![r] = IF decision[r] = "lost" THEN "clear" ELSE @]
  /\ decision' = [decision EXCEPT ![r] = "empty"]
  /\ UNCHANGED <<sessionVars, pinFails, accepted, cancelled, uploadVars,
                 cancelVars, channelVars, abandoned>>

\* The decision branch of the select.  Declining, and accepting none of the
\* offered files (204), disarm the guard and then wait for the lock.
ReceiveDecision(r) ==
  /\ pc[r] = "decide"
  /\ decision[r] \in {"accept", "decline", "lost"}
  /\ pc' = [pc EXCEPT ![r] =
              CASE decision[r] = "lost" -> "done"
                [] decision[r] = "accept" /\ accepted[r] # {} -> "activate"
                [] OTHER -> "clear"]
  /\ abort' = [abort EXCEPT ![r] = IF decision[r] = "lost" THEN "clear" ELSE @]
  /\ decision' = [decision EXCEPT ![r] = "empty"]
  /\ UNCHANGED <<sessionVars, pinFails, accepted, cancelled, uploadVars,
                 cancelVars, channelVars, abandoned>>

\* The cancellation branch of the select: 403, guard still armed.
ReceiveCancellation(r) ==
  /\ pc[r] = "decide"
  /\ cancelled[r]
  /\ pc' = [pc EXCEPT ![r] = "done"]
  /\ abort' = [abort EXCEPT ![r] = "clear"]
  /\ UNCHANGED <<sessionVars, pinFails, decision, accepted, cancelled,
                 uploadVars, cancelVars, channelVars, abandoned>>

\* PendingSessionGuard::clear has the lock.
GuardClear(r) ==
  /\ pc[r] = "clear"
  /\ ClearPendingSession
  /\ pc' = [pc EXCEPT ![r] = "done"]
  /\ UNCHANGED <<pinFails, decision, accepted, cancelled, abort, uploadVars,
                 cancelVars, channelVars, abandoned>>

\* Replaces whatever the slot holds by the accepted session, disarms the
\* guard and answers 200.
Activate(r) ==
  /\ pc[r] = "activate"
  /\ slot' = ActiveOf(r)
  /\ files' = [f \in Files |-> IF f \in accepted[r] THEN "Pending" ELSE "Absent"]
  /\ attempts' = [f \in Files |-> 0]
  /\ accepted' = [accepted EXCEPT ![r] = {}]
  /\ pc' = [pc EXCEPT ![r] = "done"]
  /\ UNCHANGED <<pinFails, decision, cancelled, abort, uploadVars,
                 cancelVars, channelVars, abandoned>>

\* Broken variant of DropPrepare: the guard is disarmed before the lock is
\* taken to create the session.
DropPrepareEarlyDisarm(r) ==
  /\ pc[r] \in {"claim", "send", "decide", "clear", "activate"}
  /\ pc' = [pc EXCEPT ![r] = "done"]
  /\ abort' = [abort EXCEPT ![r] =
                 IF pc[r] \in {"send", "decide"} THEN "clear" ELSE @]
  /\ abandoned' = IF pc[r] = "clear" THEN abandoned \cup {<<r, None>>}
                  ELSE abandoned
  /\ UNCHANGED <<sessionVars, pinFails, decision, accepted, cancelled,
                 uploadVars, cancelVars, channelVars>>

\* The request future is dropped at an await: an armed guard spawns the
\* cleanup, a disarmed one that waits for the lock does nothing.
DropPrepare(r) ==
  /\ pc[r] \in {"claim", "send", "decide", "clear", "activate"}
  /\ pc' = [pc EXCEPT ![r] = "done"]
  /\ abort' = [abort EXCEPT ![r] =
                 IF pc[r] \in {"send", "decide", "activate"} THEN "clear" ELSE @]
  /\ abandoned' = IF pc[r] = "clear" THEN abandoned \cup {<<r, None>>}
                  ELSE abandoned
  /\ UNCHANGED <<sessionVars, pinFails, decision, accepted, cancelled,
                 uploadVars, cancelVars, channelVars>>

\* The task PendingSessionGuard::drop spawned.
AbortClear(r) ==
  /\ abort[r] = "clear"
  /\ ClearPendingSession
  /\ abort' = [abort EXCEPT ![r] = "notify"]
  /\ UNCHANGED <<pinFails, pc, decision, accepted, cancelled, uploadVars,
                 cancelVars, channelVars, abandoned>>

AbortNotify(r) ==
  /\ abort[r] = "notify"
  /\ Send(SessionEvent("PrepareUploadAborted", r))
  /\ abort' = [abort EXCEPT ![r] = "no"]
  /\ UNCHANGED <<sessionVars, pinFails, pc, decision, accepted, cancelled,
                 uploadVars, cancelVars, abandoned>>

-----------------------------------------------------------------------------
(* upload. *)

UploadIdle(u) ==
  /\ upc' = [upc EXCEPT ![u] = "idle"]
  /\ usid' = [usid EXCEPT ![u] = None]
  /\ ufile' = [ufile EXCEPT ![u] = None]
  /\ ures' = [ures EXCEPT ![u] = "Failed"]

\* Broken variant of Upload: a file in progress may be uploaded again.
UploadTwice(u, s, f, p) ==
  /\ upc[u] = "idle"
  /\ slot = ActiveOf(s)
  /\ Sender[s] = p
  /\ files[f] \in {"Pending", "InProgress"}
  /\ files' = [files EXCEPT ![f] = "InProgress"]
  /\ attempts' = [attempts EXCEPT ![f] = @ + 1]
  /\ upc' = [upc EXCEPT ![u] = "send"]
  /\ usid' = [usid EXCEPT ![u] = s]
  /\ ufile' = [ufile EXCEPT ![u] = f]
  /\ UNCHANGED <<slot, pinFails, prepareVars, ures, orphans, ending,
                 cancelVars, channelVars, abandoned>>

\* A request of address p with the token of file f of session s: every other
\* token is refused with 403, like any other failed check.
Upload(u, s, f, p) ==
  /\ upc[u] = "idle"
  /\ slot = ActiveOf(s)
  /\ Sender[s] = p
  /\ files[f] = "Pending"
  /\ files' = [files EXCEPT ![f] = "InProgress"]
  /\ attempts' = [attempts EXCEPT ![f] = @ + 1]
  /\ upc' = [upc EXCEPT ![u] = "send"]
  /\ usid' = [usid EXCEPT ![u] = s]
  /\ ufile' = [ufile EXCEPT ![u] = f]
  /\ UNCHANGED <<slot, pinFails, prepareVars, ures, orphans, ending,
                 cancelVars, channelVars, abandoned>>

\* Broken variant of SendFileUpload: a full channel loses the event.
SendFileUploadLossy(u) ==
  /\ upc[u] = "send"
  /\ events' = IF rxOpen /\ Len(events) < Capacity
               THEN Append(events, FileUpload(u)) ELSE events
  /\ upc' = [upc EXCEPT ![u] = IF rxOpen THEN "queued" ELSE "finish"]
  /\ UNCHANGED <<sessionVars, pinFails, prepareVars, usid, ufile, ures,
                 orphans, ending, cancelVars, rxOpen, abandoned>>

\* Asks the application for a target; without a receiver the file failed.
SendFileUpload(u) ==
  /\ upc[u] = "send"
  /\ Send(FileUpload(u))
  /\ upc' = [upc EXCEPT ![u] = IF rxOpen THEN "queued" ELSE "finish"]
  /\ UNCHANGED <<sessionVars, pinFails, prepareVars, usid, ufile, ures,
                 orphans, ending, cancelVars, abandoned>>

\* save_req_to_target returns.
SaveDone(u, res) ==
  /\ upc[u] = "save"
  /\ ures' = [ures EXCEPT ![u] = res]
  /\ upc' = [upc EXCEPT ![u] = "finish"]
  /\ UNCHANGED <<sessionVars, pinFails, prepareVars, usid, ufile, orphans,
                 ending, cancelVars, channelVars, abandoned>>

\* Broken variant of FinalStatus: one attempt too many.
FinalStatusOneMore(f, res) ==
  CASE res = "Success" -> "Finished"
    [] res = "HashMismatch" /\ attempts[f] <= MaxUploadAttempts -> "Pending"
    [] OTHER -> "Failed"

\* The status finalize_file gives a file.
FinalStatus(f, res) ==
  CASE res = "Success" -> "Finished"
    [] res = "HashMismatch" /\ attempts[f] < MaxUploadAttempts -> "Pending"
    [] OTHER -> "Failed"

\* The files after an upload of f ended with res.
FinalizedFiles(f, res) ==
  IF files[f] = "InProgress"
  THEN [files EXCEPT ![f] = FinalStatus(f, res)]
  ELSE files

\* UploadSessionV2::is_complete
IsComplete(fs) == \A f \in Files : fs[f] \in {"Absent", "Finished", "Failed"}

\* Whether finalize_file ends the session.
EndsSession(s, f, res) ==
  slot = ActiveOf(s) /\ IsComplete(FinalizedFiles(f, res))

\* The critical section of finalize_file.
FinalizeFile(s, f, res) ==
  \/ /\ slot # ActiveOf(s)
     /\ UNCHANGED sessionVars
  \/ /\ slot = ActiveOf(s)
     /\ EndsSession(s, f, res)
     /\ FreeSlot
  \/ /\ slot = ActiveOf(s)
     /\ ~EndsSession(s, f, res)
     /\ files' = FinalizedFiles(f, res)
     /\ UNCHANGED <<slot, attempts>>

\* UploadGuard::finish has the lock.
GuardFinish(u) ==
  /\ upc[u] = "finish"
  /\ FinalizeFile(usid[u], ufile[u], ures[u])
  /\ IF EndsSession(usid[u], ufile[u], ures[u])
     THEN /\ upc' = [upc EXCEPT ![u] = "notify"]
          /\ UNCHANGED <<usid, ufile, ures>>
     ELSE UploadIdle(u)
  /\ UNCHANGED <<pinFails, prepareVars, orphans, ending, cancelVars,
                 channelVars, abandoned>>

NotifyFinished(u) ==
  /\ upc[u] = "notify"
  /\ Send(SessionEvent("Finished", usid[u]))
  /\ UploadIdle(u)
  /\ UNCHANGED <<sessionVars, pinFails, prepareVars, orphans, ending,
                 cancelVars, abandoned>>

\* Broken variant of DropUpload: nothing is spawned while the body is saved.
DropUploadForgets(u) ==
  /\ upc[u] # "idle"
  /\ orphans' = IF upc[u] \in {"save", "finish", "notify"} THEN orphans
                ELSE orphans \cup {<<usid[u], ufile[u]>>}
  /\ abandoned' = IF upc[u] = "finish"
                  THEN abandoned \cup {<<usid[u], ufile[u]>>} ELSE abandoned
  /\ UploadIdle(u)
  /\ UNCHANGED <<sessionVars, pinFails, prepareVars, ending, cancelVars,
                 channelVars>>

\* The request future is dropped at an await: an armed guard spawns
\* finalize_file, a disarmed one (finish, notify) does nothing.
DropUpload(u) ==
  /\ upc[u] # "idle"
  /\ orphans' = IF upc[u] \in {"finish", "notify"} THEN orphans
                ELSE orphans \cup {<<usid[u], ufile[u]>>}
  /\ abandoned' = IF upc[u] = "finish"
                  THEN abandoned \cup {<<usid[u], ufile[u]>>} ELSE abandoned
  /\ UploadIdle(u)
  /\ UNCHANGED <<sessionVars, pinFails, prepareVars, ending, cancelVars,
                 channelVars>>

\* The task UploadGuard::drop spawned.
OrphanFinalize(s, f) ==
  /\ <<s, f>> \in orphans
  /\ FinalizeFile(s, f, "Failed")
  /\ orphans' = orphans \ {<<s, f>>}
  /\ ending' = IF EndsSession(s, f, "Failed") THEN ending \cup {s} ELSE ending
  /\ UNCHANGED <<pinFails, prepareVars, upc, usid, ufile, ures, cancelVars,
                 channelVars, abandoned>>

OrphanNotify(s) ==
  /\ s \in ending
  /\ Send(SessionEvent("Finished", s))
  /\ ending' = ending \ {s}
  /\ UNCHANGED <<sessionVars, pinFails, prepareVars, upc, usid, ufile, ures,
                 orphans, cancelVars, abandoned>>

-----------------------------------------------------------------------------
(* cancel. *)

CancelIdle(c) ==
  /\ cpc' = [cpc EXCEPT ![c] = "idle"]
  /\ csid' = [csid EXCEPT ![c] = None]
  /\ cip' = [cip EXCEPT ![c] = None]

\* Does a cancel of address p for session s (None: no sessionId) name the
\* pending request?
NamesPending(s, p) ==
  /\ slot.state = "Pending"
  /\ Sender[slot.sid] = p
  /\ s \in {None, slot.sid}

\* The first critical section: a pending request is cancelled and the sender
\* gets its 200; otherwise a named session is looked for.
Cancel(c, s, p) ==
  /\ cpc[c] = "idle"
  /\ \/ /\ NamesPending(s, p)
        /\ cancelled' = [cancelled EXCEPT ![slot.sid] = TRUE]
        /\ UNCHANGED cancelVars
     \/ /\ ~NamesPending(s, p)
        /\ s # None
        /\ cpc' = [cpc EXCEPT ![c] = "active"]
        /\ csid' = [csid EXCEPT ![c] = s]
        /\ cip' = [cip EXCEPT ![c] = p]
        /\ UNCHANGED cancelled
  /\ UNCHANGED <<sessionVars, pinFails, pc, decision, accepted, abort,
                 uploadVars, channelVars, abandoned>>

\* Broken variant of CancelActive: the slot is not freed.
CancelActiveKeeps(c) ==
  /\ cpc[c] = "active"
  /\ cpc' = [cpc EXCEPT ![c] =
               IF slot = ActiveOf(csid[c]) /\ Sender[csid[c]] = cip[c]
               THEN "end" ELSE "received"]
  /\ UNCHANGED <<sessionVars, pinFails, prepareVars, uploadVars, csid, cip,
                 channelVars, abandoned>>

\* The second critical section.
CancelActive(c) ==
  /\ cpc[c] = "active"
  /\ IF slot = ActiveOf(csid[c]) /\ Sender[csid[c]] = cip[c]
     THEN /\ FreeSlot
          /\ cpc' = [cpc EXCEPT ![c] = "end"]
     ELSE /\ UNCHANGED sessionVars
          /\ cpc' = [cpc EXCEPT ![c] = "received"]
  /\ UNCHANGED <<pinFails, prepareVars, uploadVars, csid, cip, channelVars,
                 abandoned>>

CancelNotify(c) ==
  /\ cpc[c] \in {"end", "received"}
  /\ Send(SessionEvent(IF cpc[c] = "end" THEN "Cancelled" ELSE "CancelReceived",
                       csid[c]))
  /\ CancelIdle(c)
  /\ UNCHANGED <<sessionVars, pinFails, prepareVars, uploadVars, abandoned>>

DropCancel(c) ==
  /\ cpc[c] # "idle"
  /\ CancelIdle(c)
  /\ UNCHANGED <<sessionVars, pinFails, prepareVars, uploadVars, channelVars,
                 abandoned>>

-----------------------------------------------------------------------------
(* The application.  It takes events in order and answers them whenever it *)
(* likes; answering a request that is gone has no effect.                  *)

\* The responder of a file event reaches the upload that sent it.
Reaches(e, u) ==
  /\ e.type = "FileUpload"
  /\ e.up = u
  /\ upc[u] = "queued"
  /\ usid[u] = e.sid
  /\ ufile[u] = e.file

AppReceive ==
  /\ rxOpen
  /\ events # <<>>
  /\ events' = Tail(events)
  /\ decision' = [r \in Prepares |->
       IF Head(events) = SessionEvent("PrepareUpload", r) /\ decision[r] = "empty"
       THEN "asked" ELSE decision[r]]
  /\ upc' = [u \in Uploads |->
       IF Reaches(Head(events), u) THEN "asked" ELSE upc[u]]
  /\ UNCHANGED <<sessionVars, pinFails, pc, accepted, cancelled, abort, usid,
                 ufile, ures, orphans, ending, cancelVars, rxOpen, abandoned>>

\* answer: the accepted IDs, a decline, or the responder dropped.
AppDecide(r, answer, ids) ==
  /\ pc[r] = "decide"
  /\ decision[r] = "asked"
  /\ decision' = [decision EXCEPT ![r] = answer]
  /\ accepted' = [accepted EXCEPT ![r] =
                    IF answer = "accept" THEN Offered[r] \cap ids ELSE {}]
  /\ UNCHANGED <<sessionVars, pinFails, pc, cancelled, abort, uploadVars,
                 cancelVars, channelVars, abandoned>>

\* The application gives a target, or drops the responder.
AppTarget(u, given) ==
  /\ upc[u] = "asked"
  /\ upc' = [upc EXCEPT ![u] = IF given THEN "save" ELSE "finish"]
  /\ UNCHANGED <<sessionVars, pinFails, prepareVars, usid, ufile, ures,
                 orphans, ending, cancelVars, channelVars, abandoned>>

\* ServerHandle::cancel_v2_session
CancelV2Session(s) ==
  /\ slot = ActiveOf(s)
  /\ FreeSlot
  /\ UNCHANGED <<pinFails, prepareVars, uploadVars, cancelVars, channelVars,
                 abandoned>>

\* The receiver is dropped: the queued events and their responders go with it.
AppClose ==
  /\ rxOpen
  /\ rxOpen' = FALSE
  /\ events' = <<>>
  /\ decision' = [r \in Prepares |->
       IF pc[r] = "decide" /\ decision[r] = "empty" THEN "lost" ELSE decision[r]]
  /\ upc' = [u \in Uploads |-> IF upc[u] = "queued" THEN "finish" ELSE upc[u]]
  /\ UNCHANGED <<sessionVars, pinFails, pc, accepted, cancelled, abort, usid,
                 ufile, ures, orphans, ending, cancelVars, abandoned>>

-----------------------------------------------------------------------------

PrepareStep(r) ==
  \/ \E pin \in {"absent", "wrong", "right"} : PrepareUpload(r, pin)
  \/ ClaimSlot(r)
  \/ SendPrepareUpload(r)
  \/ ReceiveDecision(r)
  \/ ReceiveCancellation(r)
  \/ GuardClear(r)
  \/ Activate(r)
  \/ DropPrepare(r)
  \/ AbortClear(r)
  \/ AbortNotify(r)

UploadStep(u) ==
  \/ \E s \in Prepares, f \in Files, p \in Peers : Upload(u, s, f, p)
  \/ SendFileUpload(u)
  \/ \E res \in SaveResult : SaveDone(u, res)
  \/ GuardFinish(u)
  \/ NotifyFinished(u)
  \/ DropUpload(u)

OrphanStep(s) ==
  \/ \E f \in Files : OrphanFinalize(s, f)
  \/ OrphanNotify(s)

CancelStep(c) ==
  \/ \E s \in Prepares \cup {None}, p \in Peers : Cancel(c, s, p)
  \/ CancelActive(c)
  \/ CancelNotify(c)
  \/ DropCancel(c)

\* What the server does on its own and for its senders.
ServerNext ==
  \/ \E p \in Registering : Register(p)
  \/ \E r \in Prepares : PrepareStep(r) \/ OrphanStep(r)
  \/ \E u \in Uploads : UploadStep(u)
  \/ \E c \in Cancels : CancelStep(c)

\* What the application does to the server.
AppNext ==
  \/ AppReceive
  \/ \E r \in Prepares, ids \in SUBSET Files : AppDecide(r, "accept", ids)
  \/ \E r \in Prepares, answer \in {"decline", "lost"} : AppDecide(r, answer, {})
  \/ \E u \in Uploads, given \in BOOLEAN : AppTarget(u, given)
  \/ \E s \in Prepares : CancelV2Session(s)
  \/ AppClose

Next == ServerNext \/ AppNext

Spec == Init /\ [][Next]_vars
-----------------------------------------------------------------------------
(* Properties. *)

\* The guard of request r still has to free the slot, on its own or through
\* the task it spawned; an accepted request still has to fill it.
Holds(r) ==
  \/ pc[r] \in {"send", "decide", "clear", "activate"}
  \/ abort[r] = "clear"

\* clear_pending_session frees any pending slot and Activate overwrites any
\* slot, neither compares session IDs.  Both are right only if a request with
\* that duty still owns the slot.
GuardOwnsSlot == \A r \in Prepares : Holds(r) => slot = PendingOf(r)

\* A pending slot is leaked in one way only: its request was dropped while
\* clear waited for the lock.  Otherwise a task will still free or fill it.
PendingSlotNotLeaked ==
  slot.state = "Pending" => Holds(slot.sid) \/ <<slot.sid, None>> \in abandoned

\* Connection u has file ufile[u] of session usid[u] in its hands.
Live(u) == upc[u] \in {"send", "queued", "asked", "save", "finish"}

\* No two tasks ever receive or finalize the same file of the same session,
\* whatever was cancelled, dropped or retried in between.
OneReceiverPerFile ==
  /\ \A u, v \in Uploads :
       Live(u) /\ Live(v) /\ usid[u] = usid[v] /\ ufile[u] = ufile[v] => u = v
  /\ \A u \in Uploads : Live(u) => <<usid[u], ufile[u]>> \notin orphans

\* A file in progress is stuck in one way only: its upload was dropped while
\* finish waited for the lock.  Otherwise a task will still finalize it.
FileNotStuck ==
  \A f \in Files :
    slot.state = "Active" /\ files[f] = "InProgress" =>
      \/ \E u \in Uploads : Live(u) /\ usid[u] = slot.sid /\ ufile[u] = f
      \/ <<slot.sid, f>> \in orphans \cup abandoned

\* A file that may still be uploaded has an attempt left, so no file is
\* received more often than MAX_UPLOAD_ATTEMPTS.
AttemptsBounded ==
  \A f \in Files :
    /\ attempts[f] <= MaxUploadAttempts
    /\ files[f] = "Pending" => attempts[f] < MaxUploadAttempts

\* Session s was told, or is about to be told, to have ended.
EndEvents(s) ==
  {i \in 1..Len(events) : /\ events[i].type \in {"Finished", "Cancelled"}
                          /\ events[i].sid = s}
EndTasks(s) ==
  {<<"upload", u>> : u \in {v \in Uploads : upc[v] = "notify" /\ usid[v] = s}}
  \cup {<<"cancel", c>> : c \in {d \in Cancels : cpc[d] = "end" /\ csid[d] = s}}
  \cup {<<"orphan", t>> : t \in ending \cap {s}}

\* SessionEnd is sent at most once per session, and never for the session
\* that still occupies the slot.
SessionEndsOnce ==
  \A s \in Prepares :
    /\ Cardinality(EndEvents(s)) + Cardinality(EndTasks(s)) <= 1
    /\ EndEvents(s) # {} \/ EndTasks(s) # {} => slot.sid # s

\* The abstract slot this module implements.
Slots == INSTANCE SessionSlot
  WITH Sessions <- Prepares,
       fresh <- {r \in Prepares : pc[r] \in {"new", "claim"}}

\* Tasks, guards, drops and retries together never do to the slot and its
\* files what SessionSlot does not allow: no session replaces another one,
\* none comes back, and only a settled or given up session ends.
ImplementsSessionSlot == Slots!Spec

-----------------------------------------------------------------------------
(* Liveness. *)

\* The runtime polls every task that can go on (weak fairness); tokio's
\* mutex and channel queue their waiters in order, so a task waiting for
\* room gets it although others compete for it (strong fairness).
TaskFairness ==
  /\ \A r \in Prepares :
       /\ SF_vars(SendPrepareUpload(r))
       /\ WF_vars(ReceiveDecision(r) \/ ReceiveCancellation(r))
       /\ WF_vars(GuardClear(r))
       /\ WF_vars(Activate(r))
       /\ WF_vars(AbortClear(r))
       /\ SF_vars(AbortNotify(r))
       /\ WF_vars(\E f \in Files : OrphanFinalize(r, f))
       /\ SF_vars(OrphanNotify(r))
  /\ \A u \in Uploads :
       /\ SF_vars(SendFileUpload(u))
       /\ WF_vars(GuardFinish(u))
       /\ SF_vars(NotifyFinished(u))
  /\ \A c \in Cancels :
       /\ WF_vars(CancelActive(c))
       /\ SF_vars(CancelNotify(c))

\* The application takes and answers its events (its documentation says it
\* must), and an upload's body ends or its connection breaks.
AppFairness ==
  /\ WF_vars(AppReceive)
  /\ \A r \in Prepares :
       WF_vars(\E answer \in {"accept", "decline", "lost"}, ids \in SUBSET Files :
                 AppDecide(r, answer, ids))
  /\ \A u \in Uploads :
       /\ WF_vars(\E given \in BOOLEAN : AppTarget(u, given))
       /\ WF_vars(\E res \in SaveResult : SaveDone(u, res))

FairSpec == Spec /\ TaskFairness /\ AppFairness

\* A claimed slot is always released or turned into a session, unless its
\* request is abandoned.
PendingSlotResolved ==
  \A r \in Prepares :
    slot = PendingOf(r) ~> slot # PendingOf(r) \/ <<r, None>> \in abandoned

\* A started upload always settles its file, unless the session ends first
\* or the upload is abandoned.
StartedFileSettles ==
  \A r \in Prepares, f \in Files :
    slot = ActiveOf(r) /\ files[f] = "InProgress"
      ~> \/ slot # ActiveOf(r) \/ files[f] # "InProgress"
         \/ <<r, f>> \in abandoned

\* Whatever a request or an upload has claimed is given back or completed in
\* the end (PendingSessionGuard and UploadGuard of v2.rs), but for drops at
\* the one await of each that no guard covers.
UploadsSettle == PendingSlotResolved /\ StartedFileSettles
=============================================================================
