---------------------------- MODULE UploadProofs ----------------------------
(***************************************************************************)
(* Proofs about uploads: UploadSession, for any number of requests,        *)
(* connections, files and addresses, any channel capacity and any attempt  *)
(* limit, with futures dropped at every await; and FileTransfer, for a     *)
(* file of any size, channels of any capacity and any number of attempts:  *)
(* nobody takes a file for complete that is not, a retry is welcome and    *)
(* meets no other writer.                                                  *)
(***************************************************************************)
EXTENDS UploadSession, FileTransfer, FiniteSetTheorems, TLAPS

-----------------------------------------------------------------------------
(* Types. *)

\* What a task's program counter says about the fields it uses.
Shape ==
  /\ slot.state = "None" <=> slot.sid = None
  /\ \A u \in Uploads : upc[u] # "idle" => usid[u] \in Prepares /\ ufile[u] \in Files
  /\ \A c \in Cancels : cpc[c] # "idle" => csid[c] \in Prepares

TypeInv == TypeOK /\ Shape

LEMMA SessionEventType ==
  ASSUME NEW r \in Prepares,
         NEW type \in {"PrepareUpload", "PrepareUploadAborted", "Finished",
                       "Cancelled", "CancelReceived"}
  PROVE  SessionEvent(type, r) \in Event
BY DEF SessionEvent, Event

LEMMA FileUploadType ==
  ASSUME NEW u \in Uploads, usid[u] \in Prepares, ufile[u] \in Files
  PROVE  FileUpload(u) \in Event
BY DEF FileUpload, Event

LEMMA SendType ==
  ASSUME NEW e \in Event, events \in Seq(Event), rxOpen \in BOOLEAN, Send(e)
  PROVE  events' \in Seq(Event) /\ rxOpen' \in BOOLEAN
BY DEF Send

LEMMA FreeSlotType ==
  ASSUME FreeSlot
  PROVE  /\ slot' \in Slot
         /\ files' \in [Files -> FileStatus]
         /\ attempts' \in [Files -> Nat]
         /\ slot'.state = "None" /\ slot'.sid = None
BY DEF FreeSlot, NoSlot, Slot, SlotStates, FileStatus

LEMMA CheckPinType ==
  ASSUME NEW p \in Peers, NEW pin, pinFails \in [Peers -> Nat],
         CheckPin(p, pin)
  PROVE  pinFails' \in [Peers -> Nat]
BY DEF CheckPin

LEMMA InitType == Init => TypeInv
BY ConstantsAssumption
   DEF Init, TypeInv, TypeOK, Shape, NoSlot, Slot, SlotStates, FileStatus,
       SaveResult, PreparePc, UploadPc, CancelPc

LEMMA PrepareType ==
  ASSUME TypeInv, NEW r \in Prepares, PrepareStep(r)
  PROVE  TypeInv'
<1> USE DEF TypeInv, TypeOK, Shape
<1>1. ASSUME NEW pin \in {"absent", "wrong", "right"}, PrepareUpload(r, pin)
      PROVE  TypeInv'
  <2>1. Sender[r] \in Peers
    BY ConstantsAssumption
  <2>4. CheckPin(Sender[r], pin)
    BY <1>1, Zenon DEF PrepareUpload
  <2>2. pinFails' \in [Peers -> Nat]
    BY <2>1, <2>4, CheckPinType
  <2>3. pc' \in [Prepares -> PreparePc]
    BY <1>1 DEF PrepareUpload, PreparePc
  <2> QED
    BY <1>1, <2>2, <2>3
       DEF PrepareUpload, sessionVars, uploadVars, cancelVars, channelVars
<1>2. CASE ClaimSlot(r)
  <2>1. pc' \in [Prepares -> PreparePc]
    BY <1>2 DEF ClaimSlot, PreparePc
  <2>2. r # None
    BY ConstantsAssumption
  <2>3. slot' \in Slot /\ (slot'.state = "None" <=> slot'.sid = None)
    BY <1>2, <2>2 DEF ClaimSlot, PendingOf, Slot, SlotStates
  <2> QED
    BY <1>2, <2>1, <2>3 DEF ClaimSlot, uploadVars, cancelVars, channelVars
<1>3. CASE SendPrepareUpload(r)
  <2>1. events' \in Seq(Event) /\ rxOpen' \in BOOLEAN
    BY <1>3, SessionEventType, SendType DEF SendPrepareUpload
  <2> QED
    BY <1>3, <2>1 DEF SendPrepareUpload, PreparePc, sessionVars, uploadVars,
         cancelVars
<1>4. CASE ReceiveDecision(r)
  BY <1>4 DEF ReceiveDecision, PreparePc, sessionVars, uploadVars, cancelVars,
       channelVars
<1>5. CASE ReceiveCancellation(r)
  BY <1>5 DEF ReceiveCancellation, PreparePc, sessionVars, uploadVars,
       cancelVars, channelVars
<1>6. CASE GuardClear(r)
  BY <1>6, FreeSlotType
     DEF GuardClear, ClearPendingSession, PreparePc, sessionVars, uploadVars,
         cancelVars, channelVars
<1>7. CASE Activate(r)
  BY <1>7, ConstantsAssumption
     DEF Activate, ActiveOf, Slot, SlotStates, FileStatus, PreparePc,
         uploadVars, cancelVars, channelVars
<1>8. CASE DropPrepare(r)
  BY <1>8 DEF DropPrepare, PreparePc, sessionVars, uploadVars, cancelVars,
       channelVars
<1>9. CASE AbortClear(r)
  BY <1>9, FreeSlotType
     DEF AbortClear, ClearPendingSession, sessionVars, uploadVars, cancelVars,
         channelVars
<1>10. CASE AbortNotify(r)
  <2>1. events' \in Seq(Event) /\ rxOpen' \in BOOLEAN
    BY <1>10, SessionEventType, SendType DEF AbortNotify
  <2> QED
    BY <1>10, <2>1 DEF AbortNotify, sessionVars, uploadVars, cancelVars
<1> QED
  BY <1>1, <1>2, <1>3, <1>4, <1>5, <1>6, <1>7, <1>8, <1>9, <1>10
     DEF PrepareStep

LEMMA FinalizeType ==
  ASSUME TypeInv, NEW s \in Prepares, NEW f \in Files, NEW res \in SaveResult,
         FinalizeFile(s, f, res)
  PROVE  /\ slot' \in Slot
         /\ files' \in [Files -> FileStatus]
         /\ attempts' \in [Files -> Nat]
         /\ slot'.state = "None" <=> slot'.sid = None
<1>1. FinalStatus(f, res) \in FileStatus
  BY DEF FinalStatus, FileStatus
<1>2. FinalizedFiles(f, res) \in [Files -> FileStatus]
  BY <1>1 DEF FinalizedFiles, TypeInv, TypeOK
<1>3. CASE FreeSlot
  BY <1>3, FreeSlotType
<1>4. CASE UNCHANGED sessionVars
  BY <1>4 DEF sessionVars, TypeInv, TypeOK, Shape
<1>5. CASE files' = FinalizedFiles(f, res) /\ UNCHANGED <<slot, attempts>>
  BY <1>2, <1>5 DEF TypeInv, TypeOK, Shape
<1> QED
  BY <1>3, <1>4, <1>5 DEF FinalizeFile

LEMMA UploadType ==
  ASSUME TypeInv, NEW u \in Uploads, UploadStep(u)
  PROVE  TypeInv'
<1> USE DEF TypeInv, TypeOK, Shape
<1>1. ASSUME NEW s \in Prepares, NEW f \in Files, NEW p \in Peers,
             Upload(u, s, f, p)
      PROVE  TypeInv'
  <2>1. files' \in [Files -> FileStatus] /\ attempts' \in [Files -> Nat]
    BY <1>1 DEF Upload, FileStatus
  <2>2. /\ upc' \in [Uploads -> UploadPc]
        /\ usid' \in [Uploads -> Prepares \cup {None}]
        /\ ufile' \in [Uploads -> Files \cup {None}]
        /\ \A v \in Uploads : upc'[v] # "idle" => usid'[v] \in Prepares /\ ufile'[v] \in Files
    BY <1>1 DEF Upload, UploadPc
  <2> QED
    BY <1>1, <2>1, <2>2 DEF Upload, prepareVars, cancelVars, channelVars
<1>2. CASE SendFileUpload(u)
  <2>1. usid[u] \in Prepares /\ ufile[u] \in Files
    BY <1>2 DEF SendFileUpload
  <2>2. events' \in Seq(Event) /\ rxOpen' \in BOOLEAN
    BY <1>2, <2>1, FileUploadType, SendType DEF SendFileUpload
  <2> QED
    BY <1>2, <2>2 DEF SendFileUpload, UploadPc, sessionVars, prepareVars,
         cancelVars
<1>3. ASSUME NEW res \in SaveResult, SaveDone(u, res)
      PROVE  TypeInv'
  BY <1>3 DEF SaveDone, UploadPc, sessionVars, prepareVars, cancelVars,
       channelVars
<1>4. CASE GuardFinish(u)
  <2>1. /\ slot' \in Slot
        /\ files' \in [Files -> FileStatus]
        /\ attempts' \in [Files -> Nat]
        /\ slot'.state = "None" <=> slot'.sid = None
    BY <1>4, FinalizeType DEF GuardFinish
  <2>2. /\ upc' \in [Uploads -> UploadPc]
        /\ usid' \in [Uploads -> Prepares \cup {None}]
        /\ ufile' \in [Uploads -> Files \cup {None}]
        /\ ures' \in [Uploads -> SaveResult]
        /\ \A v \in Uploads : upc'[v] # "idle" => usid'[v] \in Prepares /\ ufile'[v] \in Files
    <3>1. CASE EndsSession(usid[u], ufile[u], ures[u])
      BY <1>4, <3>1 DEF GuardFinish, UploadPc
    <3>2. CASE ~EndsSession(usid[u], ufile[u], ures[u])
      <4>1. UploadIdle(u)
        BY <1>4, <3>2 DEF GuardFinish
      <4> QED
        BY <4>1 DEF UploadIdle, UploadPc, SaveResult
    <3> QED
      BY <3>1, <3>2
  <2> QED
    BY <1>4, <2>1, <2>2 DEF GuardFinish, prepareVars, cancelVars, channelVars
<1>5. CASE NotifyFinished(u)
  <2>1. events' \in Seq(Event) /\ rxOpen' \in BOOLEAN
    BY <1>5, SessionEventType, SendType DEF NotifyFinished
  <2> QED
    BY <1>5, <2>1 DEF NotifyFinished, UploadIdle, UploadPc, SaveResult,
         sessionVars, prepareVars, cancelVars
<1>6. CASE DropUpload(u)
  <2>1. orphans' \subseteq Prepares \X Files
    BY <1>6 DEF DropUpload
  <2> QED
    BY <1>6, <2>1 DEF DropUpload, UploadIdle, UploadPc, SaveResult,
         sessionVars, prepareVars, cancelVars, channelVars
<1> QED
  BY <1>1, <1>2, <1>3, <1>4, <1>5, <1>6 DEF UploadStep

LEMMA OrphanType ==
  ASSUME TypeInv, NEW s \in Prepares, OrphanStep(s)
  PROVE  TypeInv'
<1> USE DEF TypeInv, TypeOK, Shape
<1>1. ASSUME NEW f \in Files, OrphanFinalize(s, f)
      PROVE  TypeInv'
  <2>1. /\ slot' \in Slot
        /\ files' \in [Files -> FileStatus]
        /\ attempts' \in [Files -> Nat]
        /\ slot'.state = "None" <=> slot'.sid = None
    BY <1>1, FinalizeType DEF OrphanFinalize, SaveResult
  <2> QED
    BY <1>1, <2>1 DEF OrphanFinalize, prepareVars, cancelVars, channelVars
<1>2. CASE OrphanNotify(s)
  <2>1. events' \in Seq(Event) /\ rxOpen' \in BOOLEAN
    BY <1>2, SessionEventType, SendType DEF OrphanNotify
  <2> QED
    BY <1>2, <2>1 DEF OrphanNotify, sessionVars, prepareVars, cancelVars
<1> QED
  BY <1>1, <1>2 DEF OrphanStep

LEMMA CancelType ==
  ASSUME TypeInv, NEW c \in Cancels, CancelStep(c)
  PROVE  TypeInv'
<1> USE DEF TypeInv, TypeOK, Shape
<1>1. ASSUME NEW s \in Prepares \cup {None}, NEW p \in Peers, Cancel(c, s, p)
      PROVE  TypeInv'
  <2>1. CASE NamesPending(s, p)
    <3>1. cancelled' \in [Prepares -> BOOLEAN]
      BY <1>1, <2>1 DEF Cancel, NamesPending
    <3> QED
      BY <1>1, <2>1, <3>1
         DEF Cancel, sessionVars, uploadVars, cancelVars, channelVars
  <2>2. CASE ~NamesPending(s, p)
    <3>1. /\ cpc' \in [Cancels -> CancelPc]
          /\ csid' \in [Cancels -> Prepares \cup {None}]
          /\ cip' \in [Cancels -> Peers \cup {None}]
          /\ \A d \in Cancels : cpc'[d] # "idle" => csid'[d] \in Prepares
      BY <1>1, <2>2 DEF Cancel, CancelPc
    <3> QED
      BY <1>1, <2>2, <3>1 DEF Cancel, sessionVars, uploadVars, channelVars
  <2> QED
    BY <2>1, <2>2
<1>2. CASE CancelActive(c)
  BY <1>2, FreeSlotType
     DEF CancelActive, CancelPc, sessionVars, prepareVars, uploadVars,
         channelVars
<1>3. CASE CancelNotify(c)
  <2>1. events' \in Seq(Event) /\ rxOpen' \in BOOLEAN
    BY <1>3, SessionEventType, SendType DEF CancelNotify
  <2> QED
    BY <1>3, <2>1 DEF CancelNotify, CancelIdle, CancelPc, sessionVars,
         prepareVars, uploadVars
<1>4. CASE DropCancel(c)
  BY <1>4 DEF DropCancel, CancelIdle, CancelPc, sessionVars, prepareVars,
       uploadVars, channelVars
<1> QED
  BY <1>1, <1>2, <1>3, <1>4 DEF CancelStep

LEMMA AppType ==
  ASSUME TypeInv, AppNext
  PROVE  TypeInv'
<1> USE DEF TypeInv, TypeOK, Shape
<1>1. CASE AppReceive
  <2>1. events' \in Seq(Event)
    BY <1>1 DEF AppReceive
  <2>2. decision' \in [Prepares -> {"empty", "asked", "accept", "decline", "lost"}]
    BY <1>1 DEF AppReceive
  <2>3. /\ upc' \in [Uploads -> UploadPc]
        /\ \A u \in Uploads : upc'[u] # "idle" => upc[u] # "idle"
    BY <1>1 DEF AppReceive, UploadPc, Reaches
  <2> QED
    BY <1>1, <2>1, <2>2, <2>3 DEF AppReceive, sessionVars, cancelVars
<1>2. ASSUME NEW r \in Prepares, NEW reply \in {"accept", "decline", "lost"},
             NEW ids \in SUBSET Files, AppDecide(r, reply, ids)
      PROVE  TypeInv'
  <2>1. accepted' \in [Prepares -> SUBSET Files]
    BY <1>2, ConstantsAssumption DEF AppDecide
  <2> QED
    BY <1>2, <2>1 DEF AppDecide, sessionVars, uploadVars, cancelVars,
         channelVars
<1>3. ASSUME NEW u \in Uploads, NEW given \in BOOLEAN, AppTarget(u, given)
      PROVE  TypeInv'
  BY <1>3 DEF AppTarget, UploadPc, sessionVars, prepareVars, cancelVars,
       channelVars
<1>4. ASSUME NEW s \in Prepares, CancelV2Session(s)
      PROVE  TypeInv'
  BY <1>4, FreeSlotType DEF CancelV2Session, prepareVars, uploadVars,
       cancelVars, channelVars
<1>5. CASE AppClose
  <2>1. decision' \in [Prepares -> {"empty", "asked", "accept", "decline", "lost"}]
    BY <1>5 DEF AppClose
  <2>2. /\ upc' \in [Uploads -> UploadPc]
        /\ \A u \in Uploads : upc'[u] # "idle" => upc[u] # "idle"
    BY <1>5 DEF AppClose, UploadPc
  <2>3. events' = <<>> /\ rxOpen' = FALSE
    BY <1>5 DEF AppClose
  <2>4. <<>> \in Seq(Event)
    OBVIOUS
  <2>5. events' \in Seq(Event) /\ rxOpen' \in BOOLEAN
    BY <2>3, <2>4
  <2> QED
    BY <1>5, <2>1, <2>2, <2>5 DEF AppClose, sessionVars, cancelVars
<1> QED
  BY <1>1, <1>2, <1>3, <1>4, <1>5 DEF AppNext

LEMMA NextType == TypeInv /\ [Next]_vars => TypeInv'
<1> SUFFICES ASSUME TypeInv, [Next]_vars
             PROVE  TypeInv'
  OBVIOUS
<1>1. ASSUME NEW p \in Registering, Register(p)
      PROVE  TypeInv'
  <2>1. [type |-> "Register", ip |-> p] \in Event
    BY ConstantsAssumption DEF Event
  <2>2. events' \in Seq(Event)
    BY <1>1, <2>1 DEF Register, TypeInv, TypeOK
  <2> QED
    BY <1>1, <2>2 DEF Register, TypeInv, TypeOK, Shape, sessionVars,
         prepareVars, uploadVars, cancelVars
<1>2. CASE UNCHANGED vars
  BY <1>2 DEF vars, TypeInv, TypeOK, Shape
<1> QED
  BY <1>1, <1>2, PrepareType, UploadType, OrphanType, CancelType, AppType
     DEF Next, ServerNext

\* Every state of the server is well typed: slot, file table, counters, all
\* program counters and every event in the channel.
THEOREM TypeCorrect == Spec => []TypeOK
<1>1. Init => TypeInv
  BY InitType
<1>2. TypeInv /\ [Next]_vars => TypeInv'
  BY NextType
<1>3. TypeInv => TypeOK
  BY DEF TypeInv
<1> QED
  BY <1>1, <1>2, <1>3, PTL DEF Spec

-----------------------------------------------------------------------------
(* Who owns the slot.  GuardOwnsSlot is inductive once the stages of a     *)
(* request exclude each other: a spawned cleanup means its handler is      *)
(* over, and so does an active session.                                    *)

SlotInv ==
  /\ GuardOwnsSlot
  /\ \A r \in Prepares : abort[r] # "no" => pc[r] = "done"
  /\ \A r \in Prepares : slot = ActiveOf(r) => pc[r] = "done"
  /\ \A r \in Prepares : pc[r] = "activate" => accepted[r] # {}

LEMMA SlotDistinct ==
  /\ \A r, s : PendingOf(r) # ActiveOf(s)
  /\ \A r : NoSlot # PendingOf(r) /\ NoSlot # ActiveOf(r)
  /\ \A r, s : PendingOf(r) = PendingOf(s) => r = s
  /\ \A r, s : ActiveOf(r) = ActiveOf(s) => r = s
BY DEF NoSlot, PendingOf, ActiveOf

LEMMA InitSlotInv == Init => SlotInv
BY SlotDistinct DEF Init, SlotInv, GuardOwnsSlot, Holds

\* A step that leaves the handlers alone and may only end an active session.
LEMMA SlotInvKept ==
  ASSUME TypeInv, SlotInv, UNCHANGED <<pc, abort, accepted>>,
         \/ slot' = slot
         \/ slot' = NoSlot /\ \E s \in Prepares : slot = ActiveOf(s)
  PROVE  SlotInv'
BY SlotDistinct DEF SlotInv, GuardOwnsSlot, Holds

LEMMA PrepareSlotInv ==
  ASSUME TypeInv, SlotInv, NEW r \in Prepares, PrepareStep(r)
  PROVE  SlotInv'
<1> USE DEF SlotInv, GuardOwnsSlot, Holds
<1>t. /\ pc \in [Prepares -> PreparePc]
      /\ abort \in [Prepares -> {"no", "clear", "notify"}]
      /\ accepted \in [Prepares -> SUBSET Files]
  BY DEF TypeInv, TypeOK
<1>1. ASSUME NEW pin \in {"absent", "wrong", "right"}, PrepareUpload(r, pin)
      PROVE  SlotInv'
  BY <1>1, <1>t DEF PrepareUpload, sessionVars
<1>2. CASE ClaimSlot(r)
  <2>1. CASE slot.state = "None"
    <3>1. \A s \in Prepares : ~Holds(s)
      BY <2>1 DEF PendingOf
    <3> QED
      BY <1>2, <2>1, <3>1, <1>t, SlotDistinct DEF ClaimSlot
  <2>2. CASE slot.state # "None"
    BY <1>2, <2>2, <1>t DEF ClaimSlot
  <2> QED
    BY <2>1, <2>2
<1>3. CASE SendPrepareUpload(r)
  BY <1>3, <1>t, SlotDistinct DEF SendPrepareUpload, sessionVars
<1>4. CASE ReceiveDecision(r)
  BY <1>4, <1>t, SlotDistinct DEF ReceiveDecision, sessionVars
<1>5. CASE ReceiveCancellation(r)
  BY <1>5, <1>t, SlotDistinct DEF ReceiveCancellation, sessionVars
<1>6. CASE GuardClear(r)
  <2>1. slot = PendingOf(r)
    BY <1>6 DEF GuardClear
  <2>2. slot' = NoSlot
    BY <1>6, <2>1 DEF GuardClear, ClearPendingSession, FreeSlot, PendingOf
  <2> QED
    BY <1>6, <2>1, <2>2, <1>t, SlotDistinct DEF GuardClear
<1>7. CASE Activate(r)
  <2>1. slot = PendingOf(r)
    BY <1>7 DEF Activate
  <2> QED
    BY <1>7, <2>1, <1>t, SlotDistinct DEF Activate
<1>8. CASE DropPrepare(r)
  BY <1>8, <1>t, SlotDistinct DEF DropPrepare, sessionVars
<1>9. CASE AbortClear(r)
  <2>1. slot = PendingOf(r)
    BY <1>9 DEF AbortClear
  <2>2. slot' = NoSlot
    BY <1>9, <2>1 DEF AbortClear, ClearPendingSession, FreeSlot, PendingOf
  <2> QED
    BY <1>9, <2>1, <2>2, <1>t, SlotDistinct DEF AbortClear
<1>10. CASE AbortNotify(r)
  BY <1>10, <1>t, SlotDistinct DEF AbortNotify, sessionVars
<1> QED
  BY <1>1, <1>2, <1>3, <1>4, <1>5, <1>6, <1>7, <1>8, <1>9, <1>10
     DEF PrepareStep

\* finalize_file only touches the session it is told to.
LEMMA FinalizeSlot ==
  ASSUME NEW s, NEW f, NEW res, FinalizeFile(s, f, res)
  PROVE  slot' = slot \/ (slot' = NoSlot /\ slot = ActiveOf(s))
BY DEF FinalizeFile, FreeSlot, sessionVars

LEMMA NextSlotInv == TypeInv /\ SlotInv /\ [Next]_vars => SlotInv'
<1> SUFFICES ASSUME TypeInv, SlotInv, [Next]_vars
             PROVE  SlotInv'
  OBVIOUS
<1> USE SlotInvKept
<1>1. ASSUME NEW p \in Registering, Register(p)
      PROVE  SlotInv'
  BY <1>1 DEF Register, sessionVars, prepareVars
<1>2. ASSUME NEW r \in Prepares, PrepareStep(r)
      PROVE  SlotInv'
  BY <1>2, PrepareSlotInv
<1>3. ASSUME NEW s \in Prepares, OrphanStep(s)
      PROVE  SlotInv'
  BY <1>3, FinalizeSlot
     DEF OrphanStep, OrphanFinalize, OrphanNotify, sessionVars, prepareVars
<1>4. ASSUME NEW u \in Uploads, UploadStep(u)
      PROVE  SlotInv'
  <2>1. UNCHANGED <<pc, abort, accepted>>
    BY <1>4 DEF UploadStep, Upload, SendFileUpload, SaveDone, GuardFinish,
         NotifyFinished, DropUpload, prepareVars
  <2>2. CASE GuardFinish(u)
    <3>1. usid[u] \in Prepares
      BY <2>2 DEF GuardFinish, TypeInv, Shape
    <3> QED
      BY <2>1, <2>2, <3>1, FinalizeSlot DEF GuardFinish
  <2>3. CASE ~GuardFinish(u)
    BY <1>4, <2>1, <2>3 DEF UploadStep, Upload, SendFileUpload, SaveDone,
         NotifyFinished, DropUpload, sessionVars
  <2> QED
    BY <2>2, <2>3
<1>5. ASSUME NEW c \in Cancels, CancelStep(c)
      PROVE  SlotInv'
  <2>1. UNCHANGED <<pc, abort, accepted>>
    BY <1>5 DEF CancelStep, Cancel, CancelActive, CancelNotify, DropCancel,
         prepareVars
  <2>2. CASE CancelActive(c)
    <3>1. csid[c] \in Prepares
      BY <2>2 DEF CancelActive, TypeInv, Shape
    <3> QED
      BY <2>1, <2>2, <3>1 DEF CancelActive, FreeSlot, sessionVars
  <2>3. CASE ~CancelActive(c)
    BY <1>5, <2>1, <2>3 DEF CancelStep, Cancel, CancelNotify, DropCancel,
         sessionVars
  <2> QED
    BY <2>2, <2>3
<1>6. CASE AppNext
  <2>1. CASE AppReceive
    BY <2>1 DEF AppReceive, sessionVars
  <2>2. ASSUME NEW r \in Prepares, NEW reply, NEW ids, AppDecide(r, reply, ids)
        PROVE  SlotInv'
    BY <2>2 DEF AppDecide, SlotInv, GuardOwnsSlot, Holds, sessionVars,
         TypeInv, TypeOK
  <2>3. ASSUME NEW u \in Uploads, NEW given, AppTarget(u, given)
        PROVE  SlotInv'
    BY <2>3 DEF AppTarget, sessionVars, prepareVars
  <2>4. ASSUME NEW s \in Prepares, CancelV2Session(s)
        PROVE  SlotInv'
    BY <2>4 DEF CancelV2Session, FreeSlot, prepareVars
  <2>5. CASE AppClose
    BY <2>5 DEF AppClose, sessionVars
  <2> QED
    BY <1>6, <2>1, <2>2, <2>3, <2>4, <2>5 DEF AppNext
<1>7. CASE UNCHANGED vars
  BY <1>7 DEF vars
<1> QED
  BY <1>1, <1>2, <1>3, <1>4, <1>5, <1>6, <1>7 DEF Next, ServerNext

\* A request whose guard is armed, or whose session is about to be created,
\* owns the slot: neither the unconditional clearing of a pending slot nor
\* the unconditional overwrite on acceptance ever hits another session.
THEOREM GuardsOwnTheSlot == Spec => []GuardOwnsSlot
<1>1. Init => TypeInv /\ SlotInv
  BY InitType, InitSlotInv
<1>2. TypeInv /\ SlotInv /\ [Next]_vars => (TypeInv /\ SlotInv)'
  BY NextType, NextSlotInv
<1>3. TypeInv /\ SlotInv => GuardOwnsSlot
  BY DEF SlotInv
<1> QED
  BY <1>1, <1>2, <1>3, PTL DEF Spec

-----------------------------------------------------------------------------
(* Who receives a file.  A task that has a file in its hands works for a   *)
(* session whose prepare-upload request is over, so its session cannot be  *)
(* activated again under it; and as long as that session is the active     *)
(* one, the file is marked as in progress, which keeps other uploads out.  *)

UploadInv ==
  /\ \A u \in Uploads : upc[u] # "idle" => pc[usid[u]] = "done"
  /\ \A s \in Prepares, f \in Files : <<s, f>> \in orphans => pc[s] = "done"
  /\ \A u \in Uploads :
       Live(u) /\ slot = ActiveOf(usid[u]) => files[ufile[u]] = "InProgress"
  /\ \A s \in Prepares, f \in Files :
       <<s, f>> \in orphans /\ slot = ActiveOf(s) => files[f] = "InProgress"
  /\ OneReceiverPerFile

LEMMA InitUploadInv == Init => UploadInv
BY DEF Init, UploadInv, Live, OneReceiverPerFile

\* The handlers only move forward.
LEMMA DoneStays ==
  ASSUME TypeInv, NEW r \in Prepares, PrepareStep(r)
  PROVE  \A s \in Prepares : pc[s] = "done" => pc'[s] = "done"
<1>1. pc \in [Prepares -> PreparePc]
  BY DEF TypeInv, TypeOK
<1> QED
  BY <1>1 DEF PrepareStep, PrepareUpload, ClaimSlot, SendPrepareUpload,
       ReceiveDecision, ReceiveCancellation, GuardClear, Activate,
       DropPrepare, AbortClear, AbortNotify

\* A step that moves no upload and leaves the active session's files alone,
\* ends it, or starts a session whose request was not over yet.
LEMMA UploadInvKept ==
  ASSUME TypeInv, UploadInv, UNCHANGED <<upc, usid, ufile, orphans>>,
         \A s \in Prepares : pc[s] = "done" => pc'[s] = "done",
         \/ slot' = slot /\ files' = files
         \/ slot' = NoSlot
         \/ \E r \in Prepares : slot' = PendingOf(r)
         \/ \E r \in Prepares : slot' = ActiveOf(r) /\ pc[r] # "done"
  PROVE  UploadInv'
<1>1. \A u \in Uploads : upc[u] # "idle" => usid[u] \in Prepares
  BY DEF TypeInv, Shape
<1>2. \A u \in Uploads : Live(u) => upc[u] # "idle"
  BY DEF Live
<1> QED
  BY <1>1, <1>2, SlotDistinct DEF UploadInv, OneReceiverPerFile, Live

LEMMA PrepareUploadInv ==
  ASSUME TypeInv, SlotInv, UploadInv, NEW r \in Prepares, PrepareStep(r)
  PROVE  UploadInv'
<1>1. \A s \in Prepares : pc[s] = "done" => pc'[s] = "done"
  BY DoneStays
<1>2. UNCHANGED <<upc, usid, ufile, orphans>>
  BY DEF PrepareStep, PrepareUpload, ClaimSlot, SendPrepareUpload,
       ReceiveDecision, ReceiveCancellation, GuardClear, Activate,
       DropPrepare, AbortClear, AbortNotify, uploadVars
<1>3. CASE Activate(r)
  BY <1>1, <1>2, <1>3, UploadInvKept DEF Activate
<1>4. CASE ClaimSlot(r)
  BY <1>1, <1>2, <1>4, UploadInvKept DEF ClaimSlot
<1>5. CASE GuardClear(r) \/ AbortClear(r)
  BY <1>1, <1>2, <1>5, UploadInvKept
     DEF GuardClear, AbortClear, ClearPendingSession, FreeSlot, sessionVars
<1>6. CASE ~Activate(r) /\ ~ClaimSlot(r) /\ ~GuardClear(r) /\ ~AbortClear(r)
  <2>1. slot' = slot /\ files' = files
    BY <1>6 DEF PrepareStep, PrepareUpload, SendPrepareUpload,
         ReceiveDecision, ReceiveCancellation, DropPrepare, AbortNotify,
         sessionVars
  <2> QED
    BY <1>1, <1>2, <2>1, UploadInvKept
<1> QED
  BY <1>3, <1>4, <1>5, <1>6

\* What finalize_file does to the active session: nothing, end it, or settle
\* the one file.
LEMMA FinalizeCases ==
  ASSUME TypeInv, NEW s \in Prepares, NEW f \in Files, NEW res \in SaveResult,
         FinalizeFile(s, f, res)
  PROVE  \/ slot # ActiveOf(s) /\ slot' = slot /\ files' = files
         \/ slot = ActiveOf(s) /\ slot' = NoSlot
         \/ /\ slot = ActiveOf(s) /\ slot' = slot
            /\ \A g \in Files : g # f => files'[g] = files[g]
BY DEF FinalizeFile, FreeSlot, FinalizedFiles, sessionVars, TypeInv, TypeOK

LEMMA UploadUploadInv ==
  ASSUME TypeInv, UploadInv, NEW u \in Uploads, UploadStep(u), SlotInv
  PROVE  UploadInv'
<1>t. /\ upc \in [Uploads -> UploadPc]
      /\ usid \in [Uploads -> Prepares \cup {None}]
      /\ ufile \in [Uploads -> Files \cup {None}]
      /\ ures \in [Uploads -> SaveResult]
      /\ files \in [Files -> FileStatus]
      /\ \A v \in Uploads : upc[v] # "idle" => usid[v] \in Prepares /\ ufile[v] \in Files
      /\ orphans \subseteq Prepares \X Files
  BY DEF TypeInv, TypeOK, Shape
<1>p. pc' = pc
  BY DEF UploadStep, Upload, SendFileUpload, SaveDone, GuardFinish,
     NotifyFinished, DropUpload, prepareVars
<1>1. ASSUME NEW s \in Prepares, NEW f \in Files, NEW p \in Peers,
             Upload(u, s, f, p)
      PROVE  UploadInv'
  <2>1. slot = ActiveOf(s) /\ slot' = slot /\ orphans' = orphans
    BY <1>1 DEF Upload
  <2>2. pc[s] = "done"
    BY <2>1 DEF SlotInv
  <2>3. \A v \in Uploads : v # u => /\ upc'[v] = upc[v] /\ usid'[v] = usid[v]
                                    /\ ufile'[v] = ufile[v]
    BY <1>1, <1>t DEF Upload
  <2>4. upc'[u] = "send" /\ usid'[u] = s /\ ufile'[u] = f
    BY <1>1, <1>t DEF Upload
  <2>5. files'[f] = "InProgress" /\ \A g \in Files : g # f => files'[g] = files[g]
    BY <1>1, <1>t DEF Upload
  <2>6. files[f] = "Pending"
    BY <1>1 DEF Upload
  <2>7. \A v \in Uploads : Live(v) /\ usid[v] = s => ufile[v] # f
    BY <2>1, <2>6 DEF UploadInv
  <2>8. <<s, f>> \notin orphans
    BY <2>1, <2>6 DEF UploadInv
  <2>9. upc[u] = "idle"
    BY <1>1 DEF Upload
  <2>10. OneReceiverPerFile'
    BY <1>t, <2>1, <2>3, <2>4, <2>7, <2>8, <2>9 DEF OneReceiverPerFile, UploadInv, Live
  <2>11. \A v \in Uploads : Live(v)' /\ slot' = ActiveOf(usid'[v]) => files'[ufile'[v]] = "InProgress"
    BY <1>t, <2>1, <2>3, <2>4, <2>5 DEF UploadInv, Live
  <2>12. \A t \in Prepares, g \in Files :
           <<t, g>> \in orphans' /\ slot' = ActiveOf(t) => files'[g] = "InProgress"
    BY <1>t, <2>1, <2>5, SlotDistinct DEF UploadInv
  <2>13. \A v \in Uploads : upc'[v] # "idle" => pc'[usid'[v]] = "done"
    BY <1>p, <2>2, <2>3, <2>4 DEF UploadInv
  <2> QED
    BY <1>p, <2>1, <2>10, <2>11, <2>12, <2>13 DEF UploadInv
<1>2. ASSUME UNCHANGED <<slot, files, usid, ufile, orphans>>,
             \A v \in Uploads : upc'[v] # "idle" => upc[v] # "idle",
             \A v \in Uploads : Live(v)' => Live(v)
      PROVE  UploadInv'
  BY <1>p, <1>2 DEF UploadInv, OneReceiverPerFile
<1>3. CASE SendFileUpload(u)
  <2>1. upc[u] = "send" /\ upc'[u] \in {"queued", "finish"}
    BY <1>3, <1>t DEF SendFileUpload
  <2>2. \A v \in Uploads : v # u => upc'[v] = upc[v]
    BY <1>3, <1>t DEF SendFileUpload
  <2>3. UNCHANGED <<slot, files, usid, ufile, orphans>>
    BY <1>3 DEF SendFileUpload, sessionVars
  <2> QED
    BY <1>2, <2>1, <2>2, <2>3 DEF Live
<1>4. ASSUME NEW res \in SaveResult, SaveDone(u, res)
      PROVE  UploadInv'
  <2>1. upc[u] = "save" /\ upc'[u] = "finish"
    BY <1>4, <1>t DEF SaveDone
  <2>2. \A v \in Uploads : v # u => upc'[v] = upc[v]
    BY <1>4, <1>t DEF SaveDone
  <2>3. UNCHANGED <<slot, files, usid, ufile, orphans>>
    BY <1>4 DEF SaveDone, sessionVars
  <2> QED
    BY <1>2, <2>1, <2>2, <2>3 DEF Live
<1>5. CASE GuardFinish(u)
  <2>1. \A v \in Uploads : v # u => /\ upc'[v] = upc[v] /\ usid'[v] = usid[v]
                                    /\ ufile'[v] = ufile[v]
    BY <1>5, <1>t DEF GuardFinish, UploadIdle
  <2>2. \/ upc'[u] = "idle"
        \/ upc'[u] = "notify" /\ usid'[u] = usid[u] /\ ufile'[u] = ufile[u]
    BY <1>5, <1>t DEF GuardFinish, UploadIdle
  <2>3. orphans' = orphans
    BY <1>5 DEF GuardFinish
  <2>4. Live(u) /\ usid[u] \in Prepares /\ ufile[u] \in Files
    BY <1>5, <1>t DEF GuardFinish, Live
  <2>5. \/ slot # ActiveOf(usid[u]) /\ slot' = slot /\ files' = files
        \/ slot = ActiveOf(usid[u]) /\ slot' = NoSlot
        \/ /\ slot = ActiveOf(usid[u]) /\ slot' = slot
           /\ \A g \in Files : g # ufile[u] => files'[g] = files[g]
    BY <1>5, <1>t, <2>4, FinalizeCases DEF GuardFinish
  <2>6. \A v \in Uploads : Live(v)' => v # u /\ Live(v)
    BY <2>1, <2>2 DEF Live
  <2>7. OneReceiverPerFile'
    BY <2>1, <2>3, <2>6 DEF OneReceiverPerFile, UploadInv
  <2>8. \A v \in Uploads : Live(v)' /\ slot' = ActiveOf(usid'[v]) => files'[ufile'[v]] = "InProgress"
    <3> SUFFICES ASSUME NEW v \in Uploads, Live(v)', slot' = ActiveOf(usid'[v])
                 PROVE  files'[ufile'[v]] = "InProgress"
      OBVIOUS
    <3>1. v # u /\ Live(v) /\ usid'[v] = usid[v] /\ ufile'[v] = ufile[v]
      BY <2>1, <2>6
    <3>2. slot' = slot /\ ufile[v] \in Files
      BY <2>5, <3>1, <1>t, SlotDistinct DEF Live
    <3>3. files[ufile[v]] = "InProgress"
      BY <3>1, <3>2 DEF UploadInv
    <3>4. CASE slot = ActiveOf(usid[u])
      <4>1. usid[u] = usid[v]
        BY <3>1, <3>2, <3>4, SlotDistinct
      <4>2. ufile[u] # ufile[v]
        BY <2>4, <3>1, <4>1 DEF UploadInv, OneReceiverPerFile
      <4> QED
        BY <2>5, <3>1, <3>2, <3>3, <3>4, <4>2, SlotDistinct
    <3>5. CASE slot # ActiveOf(usid[u])
      BY <2>5, <3>1, <3>3, <3>5
    <3> QED
      BY <3>4, <3>5
  <2>9. \A t \in Prepares, g \in Files :
           <<t, g>> \in orphans' /\ slot' = ActiveOf(t) => files'[g] = "InProgress"
    <3> SUFFICES ASSUME NEW t \in Prepares, NEW g \in Files,
                        <<t, g>> \in orphans', slot' = ActiveOf(t)
                 PROVE  files'[g] = "InProgress"
      OBVIOUS
    <3>1. slot' = slot
      BY <2>5, SlotDistinct
    <3>2. files[g] = "InProgress"
      <4>1. <<t, g>> \in orphans /\ slot = ActiveOf(t)
        BY <2>3, <3>1
      <4> QED
        BY <4>1, Zenon DEF UploadInv
    <3>3. <<usid[u], ufile[u]>> \notin orphans
      BY <2>4 DEF UploadInv, OneReceiverPerFile
    <3>4. t = usid[u] => g # ufile[u]
      BY <2>3, <3>3
    <3>5. slot = ActiveOf(usid[u]) => t = usid[u]
      BY <3>1, SlotDistinct
    <3> QED
      BY <2>5, <3>1, <3>2, <3>4, <3>5, SlotDistinct
  <2>10. \A v \in Uploads : upc'[v] # "idle" => pc'[usid'[v]] = "done"
    BY <1>p, <2>1, <2>2, <2>4 DEF UploadInv, Live
  <2> QED
    BY <1>p, <2>3, <2>7, <2>8, <2>9, <2>10 DEF UploadInv
<1>6. CASE NotifyFinished(u)
  <2>1. upc'[u] = "idle"
    BY <1>6, <1>t DEF NotifyFinished, UploadIdle
  <2>2. \A v \in Uploads : v # u => /\ upc'[v] = upc[v] /\ usid'[v] = usid[v]
                                    /\ ufile'[v] = ufile[v]
    BY <1>6, <1>t DEF NotifyFinished, UploadIdle
  <2>3. UNCHANGED <<slot, files, orphans>>
    BY <1>6 DEF NotifyFinished, sessionVars
  <2> QED
    BY <1>p, <2>1, <2>2, <2>3 DEF UploadInv, OneReceiverPerFile, Live
<1>7. CASE DropUpload(u)
  <2>1. upc'[u] = "idle"
    BY <1>7, <1>t DEF DropUpload, UploadIdle
  <2>2. \A v \in Uploads : v # u => /\ upc'[v] = upc[v] /\ usid'[v] = usid[v]
                                    /\ ufile'[v] = ufile[v]
    BY <1>7, <1>t DEF DropUpload, UploadIdle
  <2>3. UNCHANGED <<slot, files>>
    BY <1>7 DEF DropUpload, sessionVars
  <2>4. \/ orphans' = orphans
        \/ Live(u) /\ orphans' = orphans \cup {<<usid[u], ufile[u]>>}
    BY <1>7, <1>t DEF DropUpload, Live, UploadPc
  <2>5. \A v \in Uploads : Live(v)' => v # u /\ Live(v)
    BY <2>1, <2>2 DEF Live
  <2>6. OneReceiverPerFile'
    BY <2>2, <2>4, <2>5 DEF UploadInv, OneReceiverPerFile
  <2>7. \A t \in Prepares, g \in Files :
          <<t, g>> \in orphans' =>
            /\ pc'[t] = "done"
            /\ slot' = ActiveOf(t) => files'[g] = "InProgress"
    BY <1>p, <2>3, <2>4 DEF UploadInv, Live
  <2> QED
    BY <1>p, <2>1, <2>2, <2>3, <2>5, <2>6, <2>7 DEF UploadInv
<1> QED
  BY <1>1, <1>3, <1>4, <1>5, <1>6, <1>7 DEF UploadStep

LEMMA OrphanUploadInv ==
  ASSUME TypeInv, UploadInv, NEW s \in Prepares, OrphanStep(s)
  PROVE  UploadInv'
<1>p. UNCHANGED <<pc, upc, usid, ufile>>
  BY DEF OrphanStep, OrphanFinalize, OrphanNotify, prepareVars
<1>t. \A v \in Uploads : Live(v) => usid[v] \in Prepares /\ ufile[v] \in Files
  BY DEF TypeInv, Shape, Live
<1>1. ASSUME NEW f \in Files, OrphanFinalize(s, f)
      PROVE  UploadInv'
  <2>1. <<s, f>> \in orphans /\ orphans' = orphans \ {<<s, f>>}
    BY <1>1 DEF OrphanFinalize
  <2>2. \/ slot # ActiveOf(s) /\ slot' = slot /\ files' = files
        \/ slot = ActiveOf(s) /\ slot' = NoSlot
        \/ /\ slot = ActiveOf(s) /\ slot' = slot
           /\ \A g \in Files : g # f => files'[g] = files[g]
    BY <1>1, FinalizeCases DEF OrphanFinalize, SaveResult
  <2>3. OneReceiverPerFile'
    BY <1>p, <2>1 DEF UploadInv, OneReceiverPerFile, Live
  <2>4. \A v \in Uploads : Live(v)' /\ slot' = ActiveOf(usid'[v]) => files'[ufile'[v]] = "InProgress"
    <3> SUFFICES ASSUME NEW v \in Uploads, Live(v), slot' = ActiveOf(usid[v])
                 PROVE  files'[ufile[v]] = "InProgress"
      BY <1>p DEF Live
    <3>1. slot' = slot /\ files[ufile[v]] = "InProgress"
      BY <2>2, SlotDistinct DEF UploadInv
    <3>2. <<usid[v], ufile[v]>> \notin orphans
      BY DEF UploadInv, OneReceiverPerFile
    <3>3. slot = ActiveOf(s) => usid[v] = s
      BY <3>1, SlotDistinct
    <3>4. usid[v] = s => ufile[v] # f
      BY <2>1, <3>2
    <3> QED
      BY <1>t, <2>2, <3>1, <3>3, <3>4, SlotDistinct
  <2>5. \A t \in Prepares, g \in Files :
           <<t, g>> \in orphans' /\ slot' = ActiveOf(t) => files'[g] = "InProgress"
    <3> SUFFICES ASSUME NEW t \in Prepares, NEW g \in Files,
                        <<t, g>> \in orphans', slot' = ActiveOf(t)
                 PROVE  files'[g] = "InProgress"
      OBVIOUS
    <3>1. slot' = slot
      BY <2>2, SlotDistinct
    <3>2. <<t, g>> \in orphans /\ <<t, g>> # <<s, f>> /\ slot = ActiveOf(t)
      BY <2>1, <3>1
    <3>3. files[g] = "InProgress"
      BY <3>2, Zenon DEF UploadInv
    <3>4. slot = ActiveOf(s) => t = s /\ g # f
      BY <3>2, SlotDistinct
    <3> QED
      BY <2>2, <3>1, <3>3, <3>4, SlotDistinct
  <2>6. \A t \in Prepares, g \in Files : <<t, g>> \in orphans' => pc'[t] = "done"
    <3> SUFFICES ASSUME NEW t \in Prepares, NEW g \in Files, <<t, g>> \in orphans'
                 PROVE  pc[t] = "done"
      BY <1>p
    <3>1. <<t, g>> \in orphans
      BY <2>1
    <3> QED
      BY <3>1, Zenon DEF UploadInv
  <2>7. \A v \in Uploads : upc'[v] # "idle" => pc'[usid'[v]] = "done"
    BY <1>p DEF UploadInv
  <2> QED
    BY <2>3, <2>4, <2>5, <2>6, <2>7 DEF UploadInv
<1>2. CASE OrphanNotify(s)
  <2>1. UNCHANGED <<pc, upc, usid, ufile, orphans, slot, files>>
    BY <1>p, <1>2 DEF OrphanNotify, sessionVars
  <2> QED
    BY <2>1, UploadInvKept
<1> QED
  BY <1>1, <1>2 DEF OrphanStep

LEMMA NextUploadInv == TypeInv /\ SlotInv /\ UploadInv /\ [Next]_vars => UploadInv'
<1> SUFFICES ASSUME TypeInv, SlotInv, UploadInv, [Next]_vars
             PROVE  UploadInv'
  OBVIOUS
<1>1. ASSUME NEW p \in Registering, Register(p)
      PROVE  UploadInv'
  BY <1>1, UploadInvKept DEF Register, sessionVars, prepareVars, uploadVars
<1>2. ASSUME NEW c \in Cancels, CancelStep(c)
      PROVE  UploadInv'
  <2>1. UNCHANGED <<pc, upc, usid, ufile, orphans>>
    BY <1>2 DEF CancelStep, Cancel, CancelActive, CancelNotify, DropCancel,
         prepareVars, uploadVars
  <2>2. (slot' = slot /\ files' = files) \/ slot' = NoSlot
    BY <1>2 DEF CancelStep, Cancel, CancelActive, CancelNotify, DropCancel,
         sessionVars, FreeSlot
  <2> QED
    BY <2>1, <2>2, UploadInvKept
<1>3. CASE AppNext
  <2>1. ASSUME UNCHANGED <<pc, slot, files, usid, ufile, orphans>>,
               \A v \in Uploads : upc'[v] # "idle" => upc[v] # "idle",
               \A v \in Uploads : Live(v)' => Live(v)
        PROVE  UploadInv'
    BY <2>1 DEF UploadInv, OneReceiverPerFile
  <2>t. upc \in [Uploads -> UploadPc]
    BY DEF TypeInv, TypeOK
  <2>2. CASE AppReceive
    <3>1. \A v \in Uploads : upc'[v] = upc[v] \/ (upc[v] = "queued" /\ upc'[v] = "asked")
      BY <2>2 DEF AppReceive, Reaches
    <3> QED
      BY <2>1, <2>2, <3>1 DEF AppReceive, sessionVars, Live
  <2>3. ASSUME NEW r \in Prepares, NEW reply, NEW ids, AppDecide(r, reply, ids)
        PROVE  UploadInv'
    BY <2>3, UploadInvKept DEF AppDecide, sessionVars, uploadVars
  <2>4. ASSUME NEW u \in Uploads, NEW given, AppTarget(u, given)
        PROVE  UploadInv'
    <3>1. \A v \in Uploads : upc'[v] = upc[v] \/ (upc[v] = "asked" /\ upc'[v] \in {"save", "finish"})
      BY <2>4, <2>t DEF AppTarget
    <3> QED
      BY <2>1, <2>4, <3>1 DEF AppTarget, sessionVars, prepareVars, Live
  <2>5. ASSUME NEW s \in Prepares, CancelV2Session(s)
        PROVE  UploadInv'
    BY <2>5, UploadInvKept DEF CancelV2Session, FreeSlot, prepareVars, uploadVars
  <2>6. CASE AppClose
    <3>1. \A v \in Uploads : upc'[v] = upc[v] \/ (upc[v] = "queued" /\ upc'[v] = "finish")
      BY <2>6 DEF AppClose
    <3> QED
      BY <2>1, <2>6, <3>1 DEF AppClose, sessionVars, Live
  <2> QED
    BY <1>3, <2>2, <2>3, <2>4, <2>5, <2>6 DEF AppNext
<1>4. CASE UNCHANGED vars
  BY <1>4, UploadInvKept DEF vars
<1> QED
  BY <1>1, <1>2, <1>3, <1>4, PrepareUploadInv, UploadUploadInv, OrphanUploadInv
     DEF Next, ServerNext

\* The server's inductive invariant.
ServerInv == TypeInv /\ SlotInv /\ UploadInv

LEMMA ServerInvariant == Spec => []ServerInv
<1>1. Init => ServerInv
  BY InitType, InitSlotInv, InitUploadInv DEF ServerInv
<1>2. ServerInv /\ [Next]_vars => ServerInv'
  BY NextType, NextSlotInv, NextUploadInv DEF ServerInv
<1> QED
  BY <1>1, <1>2, PTL DEF Spec

\* No two tasks ever receive or finalize the same file of the same session,
\* however uploads, retries, drops, cancels and new sessions interleave.
THEOREM OneReceiver == Spec => []OneReceiverPerFile
<1>1. ServerInv => OneReceiverPerFile
  BY DEF ServerInv, UploadInv
<1> QED
  BY <1>1, ServerInvariant, PTL

-----------------------------------------------------------------------------
(* The server implements the abstract slot. *)

AbsVars == <<{r \in Prepares : pc[r] \in {"new", "claim"}}, slot, files>>

LEMMA FreeIsRelease ==
  ASSUME FreeSlot, slot.state # "None", UNCHANGED pc
  PROVE  Slots!Next
BY DEF FreeSlot, NoSlot, Slots!Next, Slots!Release, Slots!NoFiles

\* finalize_file settles a file in progress, or does nothing.
LEMMA FinalizeIsSettle ==
  ASSUME TypeInv, NEW s \in Prepares, NEW f \in Files, NEW res \in SaveResult,
         FinalizeFile(s, f, res), slot = ActiveOf(s) => files[f] = "InProgress",
         UNCHANGED pc
  PROVE  Slots!Next \/ UNCHANGED AbsVars
<1>1. CASE slot # ActiveOf(s)
  BY <1>1 DEF FinalizeFile, sessionVars, AbsVars
<1>2. CASE slot = ActiveOf(s)
  <2>1. files[f] = "InProgress" /\ files \in [Files -> FileStatus]
    BY <1>2 DEF TypeInv, TypeOK
  <2>2. FinalizedFiles(f, res) = [files EXCEPT ![f] = FinalStatus(f, res)]
    BY <2>1 DEF FinalizedFiles
  <2>3. FinalStatus(f, res) \in {"Pending", "Finished", "Failed"}
    BY DEF FinalStatus
  <2>4. Slots!SettleFile(f, FinalStatus(f, res))
    <3>1. CASE EndsSession(s, f, res)
      <4>1. FreeSlot
        BY <1>2, <3>1 DEF FinalizeFile
      <4>2. \A g \in Files : FinalizedFiles(f, res)[g] \in Slots!Final
        BY <3>1 DEF EndsSession, IsComplete, Slots!Final
      <4> QED
        BY <1>2, <2>1, <2>2, <4>1, <4>2
           DEF FreeSlot, NoSlot, ActiveOf, Slots!SettleFile, Slots!NoFiles
    <3>2. CASE ~EndsSession(s, f, res)
      <4>1. files' = FinalizedFiles(f, res) /\ slot' = slot
        BY <1>2, <3>2 DEF FinalizeFile
      <4>2. ~ \A g \in Files : FinalizedFiles(f, res)[g] \in Slots!Final
        BY <1>2, <3>2 DEF EndsSession, IsComplete, Slots!Final
      <4> QED
        BY <1>2, <2>1, <2>2, <4>1, <4>2 DEF ActiveOf, Slots!SettleFile
    <3> QED
      BY <3>1, <3>2
  <2> QED
    BY <2>3, <2>4 DEF Slots!Next
<1> QED
  BY <1>1, <1>2

LEMMA PrepareRefines ==
  ASSUME ServerInv, NEW r \in Prepares, PrepareStep(r)
  PROVE  Slots!Next \/ UNCHANGED AbsVars
<1>t. /\ pc \in [Prepares -> PreparePc]
      /\ accepted \in [Prepares -> SUBSET Files]
  BY DEF ServerInv, TypeInv, TypeOK
<1> DEFINE fresh == {s \in Prepares : pc[s] \in {"new", "claim"}}
<1>1. ASSUME r \in fresh, pc' = [pc EXCEPT ![r] = "done"], slot' = slot, files' = files
      PROVE  Slots!Next
  <2>1. fresh' = fresh \ {r}
    BY <1>1, <1>t
  <2> QED
    BY <1>1, <2>1 DEF Slots!Next, Slots!Refuse
<1>2. ASSUME r \notin fresh, \E new \in PreparePc \ {"new", "claim"} : pc' = [pc EXCEPT ![r] = new]
      PROVE  fresh' = fresh
  BY <1>2, <1>t
<1>3. ASSUME NEW pin, PrepareUpload(r, pin)
      PROVE  Slots!Next \/ UNCHANGED AbsVars
  <2>1. pc[r] = "new" /\ slot' = slot /\ files' = files
    BY <1>3 DEF PrepareUpload, sessionVars
  <2>2. CASE pc' = [pc EXCEPT ![r] = "done"]
    BY <1>1, <2>1, <2>2
  <2>3. CASE pc' = [pc EXCEPT ![r] = "claim"]
    <3>1. fresh' = fresh
      BY <1>t, <2>1, <2>3
    <3> QED
      BY <2>1, <3>1 DEF AbsVars
  <2> QED
    BY <1>3, <2>2, <2>3 DEF PrepareUpload
<1>4. CASE ClaimSlot(r)
  <2>1. CASE slot.state = "None"
    <3>1. r \in fresh /\ fresh' = fresh \ {r}
      BY <1>4, <1>t, <2>1 DEF ClaimSlot
    <3> QED
      BY <1>4, <2>1, <3>1 DEF ClaimSlot, PendingOf, Slots!Next, Slots!Claim
  <2>2. CASE slot.state # "None"
    BY <1>1, <1>4, <2>2 DEF ClaimSlot
  <2> QED
    BY <2>1, <2>2
<1>5. CASE GuardClear(r)
  <2>1. slot = PendingOf(r) /\ pc[r] = "clear"
    BY <1>5 DEF GuardClear, ServerInv, SlotInv, GuardOwnsSlot, Holds
  <2>2. fresh' = fresh
    BY <1>5, <1>t, <2>1 DEF GuardClear
  <2> QED
    BY <1>5, <2>1, <2>2
       DEF GuardClear, ClearPendingSession, FreeSlot, NoSlot, PendingOf,
           Slots!Next, Slots!Release, Slots!NoFiles
<1>6. CASE AbortClear(r)
  <2>1. slot = PendingOf(r)
    BY <1>6 DEF AbortClear, ServerInv, SlotInv, GuardOwnsSlot, Holds
  <2> QED
    BY <1>6, <2>1, FreeIsRelease DEF AbortClear, ClearPendingSession, PendingOf
<1>7. CASE Activate(r)
  <2>1. slot = PendingOf(r) /\ accepted[r] # {} /\ pc[r] = "activate"
    BY <1>7 DEF Activate, ServerInv, SlotInv, GuardOwnsSlot, Holds
  <2>2. fresh' = fresh
    BY <1>7, <1>t, <2>1 DEF Activate
  <2>3. Slots!Accept(r, accepted[r])
    BY <1>7, <2>1, <2>2 DEF Activate, ActiveOf, PendingOf, Slots!Accept
  <2> QED
    BY <1>t, <2>3 DEF Slots!Next
<1>8. CASE DropPrepare(r)
  <2>1. slot' = slot /\ files' = files
    BY <1>8 DEF DropPrepare, sessionVars
  <2>2. CASE r \in fresh
    BY <1>1, <1>8, <2>1, <2>2 DEF DropPrepare
  <2>3. CASE r \notin fresh
    BY <1>2, <1>8, <2>1, <2>3 DEF DropPrepare, PreparePc, AbsVars
  <2> QED
    BY <2>2, <2>3
<1>9. CASE SendPrepareUpload(r) \/ ReceiveDecision(r) \/ ReceiveCancellation(r)
  <2>1. slot' = slot /\ files' = files
    BY <1>9 DEF SendPrepareUpload, ReceiveDecision, ReceiveCancellation, sessionVars
  <2>2. fresh' = fresh
    BY <1>9, <1>t DEF SendPrepareUpload, ReceiveDecision, ReceiveCancellation
  <2> QED
    BY <2>1, <2>2 DEF AbsVars
<1>10. CASE AbortNotify(r)
  BY <1>10 DEF AbortNotify, sessionVars, AbsVars
<1> QED
  BY <1>3, <1>4, <1>5, <1>6, <1>7, <1>8, <1>9, <1>10 DEF PrepareStep

LEMMA NextRefines == ServerInv /\ [Next]_vars => [Slots!Next]_(Slots!vars)
<1> SUFFICES ASSUME ServerInv, [Next]_vars
             PROVE  Slots!Next \/ UNCHANGED AbsVars
  BY DEF AbsVars, Slots!vars
<1>1. ASSUME NEW p \in Registering, Register(p)
      PROVE  UNCHANGED AbsVars
  BY <1>1 DEF Register, sessionVars, prepareVars, AbsVars
<1>2. ASSUME NEW s \in Prepares, OrphanStep(s)
      PROVE  Slots!Next \/ UNCHANGED AbsVars
  <2>1. ASSUME NEW f \in Files, OrphanFinalize(s, f)
        PROVE  Slots!Next \/ UNCHANGED AbsVars
    <3>1. slot = ActiveOf(s) => files[f] = "InProgress"
      BY <2>1, Zenon DEF OrphanFinalize, ServerInv, UploadInv
    <3> QED
      BY <2>1, <3>1, FinalizeIsSettle
         DEF OrphanFinalize, ServerInv, SaveResult, prepareVars
  <2>2. CASE OrphanNotify(s)
    BY <2>2 DEF OrphanNotify, sessionVars, prepareVars, AbsVars
  <2> QED
    BY <1>2, <2>1, <2>2 DEF OrphanStep
<1>3. ASSUME NEW u \in Uploads, UploadStep(u)
      PROVE  Slots!Next \/ UNCHANGED AbsVars
  <2>1. ASSUME NEW s \in Prepares, NEW f \in Files, NEW p \in Peers,
               Upload(u, s, f, p)
        PROVE  Slots!Next
    BY <2>1 DEF Upload, ActiveOf, Slots!Next, Slots!StartFile, prepareVars
  <2>2. CASE GuardFinish(u)
    <3>1. Live(u) /\ usid[u] \in Prepares /\ ufile[u] \in Files /\ ures[u] \in SaveResult
      BY <2>2 DEF GuardFinish, Live, ServerInv, TypeInv, TypeOK, Shape
    <3>2. slot = ActiveOf(usid[u]) => files[ufile[u]] = "InProgress"
      BY <3>1 DEF ServerInv, UploadInv
    <3> QED
      BY <2>2, <3>1, <3>2, FinalizeIsSettle
         DEF GuardFinish, ServerInv, prepareVars
  <2>3. CASE \/ SendFileUpload(u) \/ NotifyFinished(u) \/ DropUpload(u)
             \/ \E res \in SaveResult : SaveDone(u, res)
    BY <2>3 DEF SendFileUpload, NotifyFinished, DropUpload, SaveDone,
         sessionVars, prepareVars, AbsVars
  <2> QED
    BY <1>3, <2>1, <2>2, <2>3 DEF UploadStep
<1>4. ASSUME NEW c \in Cancels, CancelStep(c)
      PROVE  Slots!Next \/ UNCHANGED AbsVars
  <2>1. pc' = pc
    BY <1>4 DEF CancelStep, Cancel, CancelActive, CancelNotify, DropCancel, prepareVars
  <2>2. (slot' = slot /\ files' = files) \/ (FreeSlot /\ slot.state # "None")
    BY <1>4 DEF CancelStep, Cancel, CancelActive, CancelNotify, DropCancel,
         sessionVars, ActiveOf
  <2> QED
    BY <2>1, <2>2, FreeIsRelease DEF AbsVars
<1>5. CASE AppNext
  <2>1. pc' = pc
    BY <1>5 DEF AppNext, AppReceive, AppDecide, AppTarget, CancelV2Session,
         AppClose, prepareVars
  <2>2. (slot' = slot /\ files' = files) \/ (FreeSlot /\ slot.state # "None")
    BY <1>5 DEF AppNext, AppReceive, AppDecide, AppTarget, CancelV2Session,
         AppClose, sessionVars, ActiveOf
  <2> QED
    BY <2>1, <2>2, FreeIsRelease DEF AbsVars
<1>6. CASE UNCHANGED vars
  BY <1>6 DEF vars, AbsVars
<1> QED
  BY <1>1, <1>2, <1>3, <1>4, <1>5, <1>6, PrepareRefines DEF Next, ServerNext

\* The server with its tasks, guards, drops and retries implements the
\* abstract session slot: one session at a time, never replaced, never coming
\* back, ending only when its last file is settled or it is given up.
THEOREM Refinement == Spec => ImplementsSessionSlot
<1>1. Init => Slots!Init
  BY DEF Init, NoSlot, Slots!Init, Slots!NoFiles
<1>2. ServerInv /\ [Next]_vars => [Slots!Next]_(Slots!vars)
  BY NextRefines
<1> QED
  BY <1>1, <1>2, ServerInvariant, PTL DEF Spec, ImplementsSessionSlot, Slots!Spec

-----------------------------------------------------------------------------
(* The attempt limit. *)

LEMMA FreeAttempts ==
  ASSUME FreeSlot
  PROVE  AttemptsBounded'
BY ConstantsAssumption DEF FreeSlot, AttemptsBounded

LEMMA FinalizeAttempts ==
  ASSUME TypeInv, AttemptsBounded, NEW s \in Prepares, NEW f \in Files,
         NEW res \in SaveResult, FinalizeFile(s, f, res)
  PROVE  AttemptsBounded'
<1>1. CASE UNCHANGED sessionVars
  BY <1>1 DEF sessionVars, AttemptsBounded
<1>2. CASE FreeSlot
  BY <1>2, FreeAttempts
<1>3. CASE files' = FinalizedFiles(f, res) /\ UNCHANGED <<slot, attempts>>
  <2>1. \A g \in Files :
          \/ files'[g] = files[g]
          \/ g = f /\ files'[g] = FinalStatus(f, res)
    BY <1>3 DEF FinalizedFiles, TypeInv, TypeOK
  <2>2. FinalStatus(f, res) = "Pending" => attempts[f] < MaxUploadAttempts
    BY DEF FinalStatus
  <2> QED
    BY <1>3, <2>1, <2>2 DEF AttemptsBounded
<1> QED
  BY <1>1, <1>2, <1>3 DEF FinalizeFile

LEMMA NextAttempts == TypeInv /\ AttemptsBounded /\ [Next]_vars => AttemptsBounded'
<1> SUFFICES ASSUME TypeInv, AttemptsBounded, [Next]_vars
             PROVE  AttemptsBounded'
  OBVIOUS
<1>0. ASSUME UNCHANGED <<files, attempts>>
      PROVE  AttemptsBounded'
  BY <1>0 DEF AttemptsBounded
<1>1. ASSUME NEW r \in Prepares, PrepareStep(r)
      PROVE  AttemptsBounded'
  <2>1. CASE Activate(r)
    BY <2>1, ConstantsAssumption DEF Activate, AttemptsBounded
  <2>2. CASE ~Activate(r)
    <3>1. UNCHANGED <<files, attempts>> \/ FreeSlot
      BY <1>1, <2>2 DEF PrepareStep, PrepareUpload, ClaimSlot,
           SendPrepareUpload, ReceiveDecision, ReceiveCancellation,
           GuardClear, DropPrepare, AbortClear, AbortNotify,
           ClearPendingSession, sessionVars
    <3> QED
      BY <1>0, <3>1, FreeAttempts
  <2> QED
    BY <2>1, <2>2
<1>2. ASSUME NEW s \in Prepares, OrphanStep(s)
      PROVE  AttemptsBounded'
  BY <1>0, <1>2, FinalizeAttempts
     DEF OrphanStep, OrphanFinalize, OrphanNotify, sessionVars, SaveResult
<1>3. ASSUME NEW u \in Uploads, UploadStep(u)
      PROVE  AttemptsBounded'
  <2>1. ASSUME NEW s \in Prepares, NEW f \in Files, NEW p \in Peers,
               Upload(u, s, f, p)
        PROVE  AttemptsBounded'
    <3>1. files \in [Files -> FileStatus] /\ attempts \in [Files -> Nat]
      BY DEF TypeInv, TypeOK
    <3> QED
      BY <2>1, <3>1, ConstantsAssumption DEF Upload, AttemptsBounded
  <2>2. CASE GuardFinish(u)
    BY <2>2, FinalizeAttempts DEF GuardFinish, TypeInv, TypeOK, Shape
  <2>3. CASE \/ SendFileUpload(u) \/ NotifyFinished(u) \/ DropUpload(u)
             \/ \E res \in SaveResult : SaveDone(u, res)
    BY <1>0, <2>3 DEF SendFileUpload, NotifyFinished, DropUpload, SaveDone,
         sessionVars
  <2> QED
    BY <1>3, <2>1, <2>2, <2>3 DEF UploadStep
<1>4. ASSUME \/ \E p \in Registering : Register(p)
             \/ \E c \in Cancels : CancelStep(c)
             \/ AppNext
             \/ UNCHANGED vars
      PROVE  AttemptsBounded'
  <2>1. UNCHANGED <<files, attempts>> \/ FreeSlot
    BY <1>4 DEF Register, CancelStep, Cancel, CancelActive, CancelNotify,
         DropCancel, AppNext, AppReceive, AppDecide, AppTarget,
         CancelV2Session, AppClose, sessionVars, vars
  <2> QED
    BY <1>0, <2>1, FreeAttempts
<1> QED
  BY <1>1, <1>2, <1>3, <1>4 DEF Next, ServerNext

\* A file is never received more often than MAX_UPLOAD_ATTEMPTS, and a file
\* that is offered for another attempt has one left.
THEOREM AttemptLimit == Spec => []AttemptsBounded
<1>1. Init => AttemptsBounded
  BY ConstantsAssumption DEF Init, AttemptsBounded
<1>2. ServerInv /\ AttemptsBounded /\ [Next]_vars => AttemptsBounded'
  BY NextAttempts DEF ServerInv
<1> QED
  BY <1>1, <1>2, ServerInvariant, PTL DEF Spec

-----------------------------------------------------------------------------
(* The pending slot leaks only through the unguarded await. *)

\* What was given up stays given up.
LEMMA AbandonedGrows == [Next]_vars => abandoned \subseteq abandoned'
<1> SUFFICES ASSUME [Next]_vars
             PROVE  abandoned \subseteq abandoned'
  OBVIOUS
<1>1. ASSUME NEW r \in Prepares, PrepareStep(r)
      PROVE  abandoned \subseteq abandoned'
  BY <1>1 DEF PrepareStep, PrepareUpload, ClaimSlot, SendPrepareUpload,
       ReceiveDecision, ReceiveCancellation, GuardClear, Activate,
       DropPrepare, AbortClear, AbortNotify
<1>2. ASSUME NEW s \in Prepares, OrphanStep(s)
      PROVE  abandoned \subseteq abandoned'
  BY <1>2 DEF OrphanStep, OrphanFinalize, OrphanNotify
<1>3. ASSUME NEW u \in Uploads, UploadStep(u)
      PROVE  abandoned \subseteq abandoned'
  BY <1>3 DEF UploadStep, Upload, SendFileUpload, SaveDone, GuardFinish,
       NotifyFinished, DropUpload
<1>4. ASSUME \/ \E p \in Registering : Register(p)
             \/ \E c \in Cancels : CancelStep(c)
             \/ AppNext
             \/ UNCHANGED vars
      PROVE  abandoned \subseteq abandoned'
  BY <1>4 DEF Register, CancelStep, Cancel, CancelActive, CancelNotify,
       DropCancel, AppNext, AppReceive, AppDecide, AppTarget,
       CancelV2Session, AppClose, vars
<1> QED
  BY <1>1, <1>2, <1>3, <1>4 DEF Next, ServerNext

LEMMA NextNotLeaked ==
  ServerInv /\ PendingSlotNotLeaked /\ [Next]_vars => PendingSlotNotLeaked'
<1> SUFFICES ASSUME ServerInv, PendingSlotNotLeaked, [Next]_vars
             PROVE  PendingSlotNotLeaked'
  OBVIOUS
<1> USE DEF PendingSlotNotLeaked, Holds
<1>t. /\ pc \in [Prepares -> PreparePc]
      /\ abort \in [Prepares -> {"no", "clear", "notify"}]
      /\ slot \in Slot
      /\ slot.state = "Pending" => slot.sid \in Prepares
  BY DEF ServerInv, TypeInv, TypeOK, Shape, Slot
<1>a. abandoned \subseteq abandoned'
  BY AbandonedGrows
<1>0. ASSUME UNCHANGED <<pc, abort>>, slot' = slot \/ slot' = NoSlot
      PROVE  PendingSlotNotLeaked'
  BY <1>0, <1>a DEF NoSlot
<1>1. ASSUME NEW r \in Prepares, PrepareStep(r)
      PROVE  PendingSlotNotLeaked'
  <2>1. ASSUME NEW pin, PrepareUpload(r, pin)
        PROVE  PendingSlotNotLeaked'
    BY <1>a, <1>t, <2>1 DEF PrepareUpload, sessionVars
  <2>2. CASE ClaimSlot(r)
    BY <1>a, <1>t, <2>2 DEF ClaimSlot, PendingOf
  <2>3. CASE SendPrepareUpload(r) \/ ReceiveCancellation(r) \/ DropPrepare(r)
    BY <1>a, <1>t, <2>3 DEF SendPrepareUpload, ReceiveCancellation, DropPrepare, sessionVars
  <2>4. CASE ReceiveDecision(r)
    BY <1>a, <1>t, <2>4 DEF ReceiveDecision, sessionVars
  <2>5. CASE GuardClear(r) \/ AbortClear(r)
    BY <2>5 DEF GuardClear, AbortClear, ClearPendingSession, FreeSlot, NoSlot, sessionVars
  <2>6. CASE Activate(r)
    BY <2>6 DEF Activate, ActiveOf
  <2>7. CASE AbortNotify(r)
    BY <1>a, <1>t, <2>7 DEF AbortNotify, sessionVars
  <2> QED
    BY <1>1, <2>1, <2>2, <2>3, <2>4, <2>5, <2>6, <2>7 DEF PrepareStep
<1>2. ASSUME NEW s \in Prepares, OrphanStep(s)
      PROVE  PendingSlotNotLeaked'
  BY <1>0, <1>2, FinalizeSlot
     DEF OrphanStep, OrphanFinalize, OrphanNotify, sessionVars, prepareVars
<1>3. ASSUME NEW u \in Uploads, UploadStep(u)
      PROVE  PendingSlotNotLeaked'
  BY <1>0, <1>3, FinalizeSlot
     DEF UploadStep, Upload, SendFileUpload, SaveDone, GuardFinish,
         NotifyFinished, DropUpload, sessionVars, prepareVars
<1>4. ASSUME \/ \E p \in Registering : Register(p)
             \/ \E c \in Cancels : CancelStep(c)
             \/ AppNext
             \/ UNCHANGED vars
      PROVE  PendingSlotNotLeaked'
  BY <1>0, <1>4 DEF Register, CancelStep, Cancel, CancelActive, CancelNotify,
       DropCancel, AppNext, AppReceive, AppDecide, AppTarget,
       CancelV2Session, AppClose, FreeSlot, sessionVars, prepareVars, vars
<1> QED
  BY <1>1, <1>2, <1>3, <1>4 DEF Next, ServerNext

\* A pending slot always has a task that will free or fill it, unless its
\* request was dropped while its disarmed guard waited for the lock (clear in
\* PendingSessionGuard): there is no other way to leak the slot.
THEOREM NoLeak == Spec => []PendingSlotNotLeaked
<1>1. Init => PendingSlotNotLeaked
  BY DEF Init, NoSlot, PendingSlotNotLeaked
<1>2. ServerInv /\ PendingSlotNotLeaked /\ [Next]_vars => PendingSlotNotLeaked'
  BY NextNotLeaked
<1> QED
  BY <1>1, <1>2, ServerInvariant, PTL DEF Spec

-----------------------------------------------------------------------------
(* Files in progress are not stuck.                                        *)

\* Some task still has to finalize file f of session s, or never will.
InHand(s, f) ==
  \/ \E u \in Uploads : Live(u) /\ usid[u] = s /\ ufile[u] = f
  \/ <<s, f>> \in orphans \cup abandoned

\* A step that gives up no upload, and starts none.
LEMMA NotStuckKept ==
  ASSUME TypeInv, FileNotStuck,
         \A s, f : InHand(s, f) => InHand(s, f)',
         \/ slot' = slot /\ \A f \in Files : files'[f] = "InProgress" => files[f] = "InProgress"
         \/ slot'.state # "Active"
         \/ \A f \in Files : files'[f] # "InProgress"
  PROVE  FileNotStuck'
BY DEF FileNotStuck, InHand

\* Uploads that only move on among the stages in which they have their file
\* in hand.
LEMMA InHandKept ==
  ASSUME UNCHANGED <<usid, ufile, orphans>>, abandoned \subseteq abandoned',
         \A u \in Uploads : Live(u) => Live(u)'
  PROVE  \A s, f : InHand(s, f) => InHand(s, f)'
BY DEF InHand

\* finalize_file settles the file it is told to finalize, and no other file
\* of the session: the task may let go of it.
LEMMA FinalizeSettles ==
  ASSUME TypeInv, FileNotStuck, NEW s \in Prepares, NEW f \in Files,
         NEW res \in SaveResult, FinalizeFile(s, f, res),
         \A t, g : <<t, g>> # <<s, f>> /\ InHand(t, g) => InHand(t, g)'
  PROVE  FileNotStuck'
<1> SUFFICES ASSUME NEW g \in Files, slot'.state = "Active", files'[g] = "InProgress"
             PROVE  InHand(slot.sid, g)'
  BY DEF FileNotStuck, InHand
<1>t. files \in [Files -> FileStatus] /\ slot \in Slot
  BY DEF TypeInv, TypeOK
<1>1. slot' = slot
  BY FinalizeSlot DEF NoSlot
<1>2. ASSUME files[g] = "InProgress", <<slot.sid, g>> # <<s, f>>
      PROVE  InHand(slot.sid, g)'
  <2>1. InHand(slot.sid, g)
    BY <1>1, <1>2 DEF FileNotStuck, InHand
  <2>2. PICK t : t = slot.sid
    OBVIOUS
  <2>3. InHand(t, g)'
    BY <1>2, <2>1, <2>2
  <2> QED
    BY <1>1, <2>2, <2>3 DEF InHand
<1>3. CASE slot # ActiveOf(s)
  <2>1. files' = files
    BY <1>3 DEF FinalizeFile, sessionVars
  <2>2. slot.sid # s
    BY <1>1, <1>3, <1>t DEF ActiveOf, Slot
  <2> QED
    BY <1>2, <2>1, <2>2
<1>4. CASE slot = ActiveOf(s)
  <2>1. files' = FinalizedFiles(f, res)
    BY <1>1, <1>4, SlotDistinct DEF FinalizeFile, FreeSlot
  <2>2. FinalStatus(f, res) # "InProgress"
    BY DEF FinalStatus
  <2>3. g # f /\ files[g] = "InProgress"
    BY <1>t, <2>1, <2>2 DEF FinalizedFiles
  <2> QED
    BY <1>2, <2>3
<1> QED
  BY <1>3, <1>4

LEMMA NextNotStuck ==
  ServerInv /\ FileNotStuck /\ [Next]_vars => FileNotStuck'
<1> SUFFICES ASSUME ServerInv, FileNotStuck, [Next]_vars
             PROVE  FileNotStuck'
  OBVIOUS
<1>v. TypeInv
  BY DEF ServerInv
<1>t. /\ upc \in [Uploads -> UploadPc]
      /\ usid \in [Uploads -> Prepares \cup {None}]
      /\ ufile \in [Uploads -> Files \cup {None}]
      /\ ures \in [Uploads -> SaveResult]
      /\ files \in [Files -> FileStatus]
      /\ \A v \in Uploads : upc[v] # "idle" => usid[v] \in Prepares /\ ufile[v] \in Files
  BY <1>v DEF TypeInv, TypeOK, Shape
<1>a. abandoned \subseteq abandoned'
  BY AbandonedGrows
<1>0. ASSUME UNCHANGED <<upc, usid, ufile, orphans>>,
             \/ slot' = slot /\ files' = files
             \/ slot'.state # "Active"
      PROVE  FileNotStuck'
  BY <1>0, <1>v, <1>a, InHandKept, NotStuckKept DEF Live
<1>1. ASSUME NEW r \in Prepares, PrepareStep(r)
      PROVE  FileNotStuck'
  <2>1. UNCHANGED <<upc, usid, ufile, orphans>>
    BY <1>1 DEF PrepareStep, PrepareUpload, ClaimSlot, SendPrepareUpload,
         ReceiveDecision, ReceiveCancellation, GuardClear, Activate,
         DropPrepare, AbortClear, AbortNotify, uploadVars
  <2>2. CASE Activate(r)
    <3>1. \A f \in Files : files'[f] # "InProgress"
      BY <2>2 DEF Activate
    <3> QED
      BY <2>1, <3>1, <1>v, <1>a, InHandKept, NotStuckKept DEF Live
  <2>3. CASE ~Activate(r)
    BY <1>0, <1>1, <2>1, <2>3
       DEF PrepareStep, PrepareUpload, ClaimSlot, SendPrepareUpload,
           ReceiveDecision, ReceiveCancellation, GuardClear, DropPrepare,
           AbortClear, AbortNotify, ClearPendingSession, FreeSlot, NoSlot,
           PendingOf, sessionVars
  <2> QED
    BY <2>2, <2>3
<1>2. ASSUME NEW s \in Prepares, OrphanStep(s)
      PROVE  FileNotStuck'
  <2>1. ASSUME NEW f \in Files, OrphanFinalize(s, f)
        PROVE  FileNotStuck'
    <3>1. \A t, g : <<t, g>> # <<s, f>> /\ InHand(t, g) => InHand(t, g)'
      BY <1>a, <2>1 DEF OrphanFinalize, InHand, Live
    <3> QED
      BY <2>1, <3>1, <1>v, FinalizeSettles DEF OrphanFinalize, SaveResult
  <2>2. CASE OrphanNotify(s)
    BY <1>0, <2>2 DEF OrphanNotify, sessionVars
  <2> QED
    BY <1>2, <2>1, <2>2 DEF OrphanStep
<1>3. ASSUME NEW u \in Uploads, UploadStep(u)
      PROVE  FileNotStuck'
  <2>o. ASSUME NEW pcu, upc' = [upc EXCEPT ![u] = pcu]
        PROVE  upc'[u] = pcu /\ \A v \in Uploads : v # u => upc'[v] = upc[v]
    BY <1>t, <2>o
  <2>i. ASSUME UploadIdle(u)
        PROVE  \A v \in Uploads : v # u =>
                 (Live(v)' <=> Live(v)) /\ usid'[v] = usid[v] /\ ufile'[v] = ufile[v]
    BY <1>t, <2>i DEF UploadIdle, Live
  <2>1. ASSUME NEW s \in Prepares, NEW f \in Files, NEW p \in Peers,
               Upload(u, s, f, p)
        PROVE  FileNotStuck'
    <3>1. upc[u] = "idle" /\ slot = ActiveOf(s) /\ slot' = slot /\ orphans' = orphans
      BY <2>1 DEF Upload
    <3>2. Live(u)' /\ usid'[u] = s /\ ufile'[u] = f
      BY <2>1, <1>t DEF Upload, Live
    <3>3. \A v \in Uploads : v # u =>
            (Live(v)' <=> Live(v)) /\ usid'[v] = usid[v] /\ ufile'[v] = ufile[v]
      BY <2>1, <1>t DEF Upload, Live
    <3>4. \A t, g : InHand(t, g) => InHand(t, g)'
      BY <1>a, <3>1, <3>3 DEF InHand, Live
    <3>5. InHand(s, f)'
      BY <3>2 DEF InHand
    <3>6. \A g \in Files : g # f => files'[g] = files[g]
      BY <2>1, <1>t DEF Upload
    <3>7. slot.sid = s /\ slot.state = "Active"
      BY <3>1 DEF ActiveOf
    <3> QED
      BY <3>1, <3>4, <3>5, <3>6, <3>7 DEF FileNotStuck, InHand
  <2>2. CASE GuardFinish(u)
    <3>1. Live(u) /\ usid[u] \in Prepares /\ ufile[u] \in Files /\ ures[u] \in SaveResult
      BY <2>2, <1>t DEF GuardFinish, Live
    <3>2. \A v \in Uploads : v # u =>
            (Live(v)' <=> Live(v)) /\ usid'[v] = usid[v] /\ ufile'[v] = ufile[v]
      BY <2>2, <2>o, <2>i DEF GuardFinish, Live
    <3>3. orphans' = orphans
      BY <2>2 DEF GuardFinish
    <3>4. \A t, g : <<t, g>> # <<usid[u], ufile[u]>> /\ InHand(t, g) => InHand(t, g)'
      BY <1>a, <3>2, <3>3 DEF InHand
    <3> QED
      BY <2>2, <3>1, <3>4, <1>v, FinalizeSettles DEF GuardFinish
  <2>3. CASE SendFileUpload(u) \/ \E res \in SaveResult : SaveDone(u, res)
    <3>1. UNCHANGED <<slot, files, usid, ufile, orphans>>
      BY <2>3 DEF SendFileUpload, SaveDone, sessionVars
    <3>2. \A v \in Uploads : Live(v) => Live(v)'
      BY <2>3, <1>t DEF SendFileUpload, SaveDone, Live
    <3> QED
      BY <3>1, <3>2, <1>v, <1>a, InHandKept, NotStuckKept
  <2>4. CASE NotifyFinished(u) \/ DropUpload(u)
    <3>1. UploadIdle(u) /\ UNCHANGED <<slot, files>>
      BY <2>4 DEF NotifyFinished, DropUpload, sessionVars
    <3>2. /\ Live(u) => <<usid[u], ufile[u]>> \in orphans' \cup abandoned'
          /\ orphans \subseteq orphans'
      BY <2>4 DEF NotifyFinished, DropUpload, Live
    <3>3. \A s, f : InHand(s, f) => InHand(s, f)'
      BY <1>a, <2>i, <3>1, <3>2 DEF InHand
    <3> QED
      BY <3>1, <3>3, <1>v, NotStuckKept
  <2> QED
    BY <1>3, <2>1, <2>2, <2>3, <2>4 DEF UploadStep
<1>4. ASSUME NEW c \in Cancels, CancelStep(c)
      PROVE  FileNotStuck'
  BY <1>0, <1>4 DEF CancelStep, Cancel, CancelActive, CancelNotify, DropCancel,
       FreeSlot, NoSlot, sessionVars, uploadVars
<1>5. CASE AppReceive \/ AppClose \/ \E u \in Uploads, given \in BOOLEAN : AppTarget(u, given)
  <2>1. UNCHANGED <<slot, files, usid, ufile, orphans>>
    BY <1>5 DEF AppReceive, AppClose, AppTarget, sessionVars
  <2>2. \A v \in Uploads : Live(v) => Live(v)'
    BY <1>5, <1>t DEF AppReceive, AppClose, AppTarget, Reaches, Live
  <2> QED
    BY <2>1, <2>2, <1>v, <1>a, InHandKept, NotStuckKept
<1>6. ASSUME NEW r, NEW reply, NEW ids, AppDecide(r, reply, ids)
      PROVE  FileNotStuck'
  BY <1>0, <1>6 DEF AppDecide, sessionVars, uploadVars
<1>7. ASSUME \/ \E p \in Registering : Register(p)
             \/ \E s \in Prepares : CancelV2Session(s)
             \/ UNCHANGED vars
      PROVE  FileNotStuck'
  <2>1. UNCHANGED <<upc, usid, ufile, orphans>>
    BY <1>7 DEF Register, CancelV2Session, uploadVars, vars
  <2>2. \/ slot' = slot /\ files' = files
        \/ slot' = NoSlot
    BY <1>7 DEF Register, CancelV2Session, FreeSlot, sessionVars, vars
  <2> QED
    BY <1>0, <2>1, <2>2 DEF NoSlot
<1> QED
  BY <1>1, <1>2, <1>3, <1>4, <1>5, <1>6, <1>7
     DEF Next, ServerNext, AppNext

\* A file in progress always has a task that will finalize it, unless its
\* upload was dropped while its disarmed guard waited for the lock (finish in
\* UploadGuard): there is no other way to leave a file nobody works on.
THEOREM NoStuckFile == Spec => []FileNotStuck
<1>1. Init => FileNotStuck
  BY DEF Init, NoSlot, FileNotStuck
<1>2. ServerInv /\ FileNotStuck /\ [Next]_vars => FileNotStuck'
  BY NextNotStuck
<1> QED
  BY <1>1, <1>2, ServerInvariant, PTL DEF Spec

-----------------------------------------------------------------------------
(* The end of a session.  It is on its way in at most one place (a task or *)
(* a queued event), and a session whose end is on its way is not in the    *)
(* slot and cannot come back to it, since its request is over.             *)

Ending(s) == EndEvents(s) # {} \/ EndTasks(s) # {}

EndInv ==
  \A s \in Prepares :
    /\ \A i, j \in EndEvents(s) : i = j
    /\ \A x, y \in EndTasks(s) : x = y
    /\ EndEvents(s) = {} \/ EndTasks(s) = {}
    /\ Ending(s) => slot.sid # s /\ pc[s] = "done"

LEMMA SmallSets ==
  ASSUME NEW S, \A x, y \in S : x = y
  PROVE  IsFiniteSet(S) /\ Cardinality(S) = (IF S = {} THEN 0 ELSE 1)
<1>1. CASE S = {}
  BY <1>1, FS_EmptySet
<1>2. CASE S # {}
  <2>1. PICK x : S = {x}
    BY <1>2
  <2> QED
    BY <1>2, <2>1, FS_Singleton
<1> QED
  BY <1>1, <1>2

LEMMA EndInvCounts == EndInv => SessionEndsOnce
<1> SUFFICES ASSUME EndInv, NEW s \in Prepares
             PROVE  /\ Cardinality(EndEvents(s)) + Cardinality(EndTasks(s)) <= 1
                    /\ Ending(s) => slot.sid # s
  BY DEF SessionEndsOnce, Ending
<1>1. /\ \A i, j \in EndEvents(s) : i = j
      /\ \A x, y \in EndTasks(s) : x = y
      /\ EndEvents(s) = {} \/ EndTasks(s) = {}
      /\ Ending(s) => slot.sid # s
  BY DEF EndInv
<1>2. Cardinality(EndEvents(s)) = (IF EndEvents(s) = {} THEN 0 ELSE 1)
  BY <1>1, SmallSets
<1>3. Cardinality(EndTasks(s)) = (IF EndTasks(s) = {} THEN 0 ELSE 1)
  BY <1>1, SmallSets
<1> QED
  BY <1>1, <1>2, <1>3

\* What is still to be sent, one task at a time.
LEMMA EndTasksMembers ==
  \A s, x : x \in EndTasks(s) <=>
    \/ \E u \in Uploads : x = <<"upload", u>> /\ upc[u] = "notify" /\ usid[u] = s
    \/ \E c \in Cancels : x = <<"cancel", c>> /\ cpc[c] = "end" /\ csid[c] = s
    \/ x = <<"orphan", s>> /\ s \in ending
BY DEF EndTasks

IsEnd(e, s) == e.type \in {"Finished", "Cancelled"} /\ e.sid = s

LEMMA EndEventsAppended ==
  ASSUME NEW s \in Prepares, NEW e, events \in Seq(Event),
         events' = Append(events, e), e \in Event
  PROVE  /\ ~IsEnd(e, s) => EndEvents(s)' = EndEvents(s)
         /\ IsEnd(e, s) => EndEvents(s)' = EndEvents(s) \cup {Len(events) + 1}
<1>1. /\ Len(events') = Len(events) + 1
      /\ \A i \in 1..Len(events) : events'[i] = events[i]
      /\ events'[Len(events) + 1] = e
      /\ Len(events) \in Nat
  OBVIOUS
<1> QED
  BY <1>1 DEF EndEvents, IsEnd

LEMMA EndEventsTaken ==
  ASSUME NEW s \in Prepares, events \in Seq(Event), events # <<>>,
         events' = Tail(events), \A i, j \in EndEvents(s) : i = j
  PROVE  /\ \A i, j \in EndEvents(s)' : i = j
         /\ EndEvents(s) = {} => EndEvents(s)' = {}
<1>1. /\ Len(events) \in Nat \ {0}
      /\ Len(events') = Len(events) - 1
      /\ \A i \in 1..Len(events') : events'[i] = events[i + 1]
  OBVIOUS
<1>2. \A i \in EndEvents(s)' : i \in Int /\ i + 1 \in EndEvents(s)
  BY <1>1 DEF EndEvents
<1> QED
  BY <1>2

\* A step that puts no end on its way.
LEMMA EndInvKept ==
  ASSUME EndInv,
         \A s \in Prepares :
           /\ \A i, j \in EndEvents(s)' : i = j
           /\ EndEvents(s) = {} => EndEvents(s)' = {}
           /\ EndTasks(s)' \subseteq EndTasks(s)
           /\ pc[s] = "done" => pc'[s] = "done"
           /\ slot'.sid = s => slot.sid = s \/ pc[s] # "done"
  PROVE  EndInv'
<1> SUFFICES ASSUME NEW s \in Prepares
             PROVE  /\ \A i, j \in EndEvents(s)' : i = j
                    /\ \A x, y \in EndTasks(s)' : x = y
                    /\ EndEvents(s)' = {} \/ EndTasks(s)' = {}
                    /\ Ending(s)' => slot'.sid # s /\ pc'[s] = "done"
  BY DEF EndInv, Ending
<1>1. Ending(s)' => Ending(s)
  BY DEF Ending
<1>2. /\ \A x, y \in EndTasks(s) : x = y
      /\ EndEvents(s) = {} \/ EndTasks(s) = {}
      /\ Ending(s) => slot.sid # s /\ pc[s] = "done"
  BY DEF EndInv
<1> QED
  BY <1>1, <1>2

\* A step that takes the active session s0 out of the slot and leaves one
\* task x that has to tell the application.
LEMMA EndInvStarts ==
  ASSUME TypeInv, SlotInv, EndInv, NEW s0 \in Prepares, NEW x,
         slot = ActiveOf(s0), slot' = NoSlot, UNCHANGED <<pc, events>>,
         \A s \in Prepares : EndTasks(s)' \subseteq EndTasks(s) \cup (IF s = s0 THEN {x} ELSE {})
  PROVE  EndInv'
<1> SUFFICES ASSUME NEW s \in Prepares
             PROVE  /\ \A i, j \in EndEvents(s)' : i = j
                    /\ \A y, z \in EndTasks(s)' : y = z
                    /\ EndEvents(s)' = {} \/ EndTasks(s)' = {}
                    /\ Ending(s)' => slot'.sid # s /\ pc'[s] = "done"
  BY DEF EndInv, Ending
<1>1. EndEvents(s)' = EndEvents(s)
  BY DEF EndEvents
<1>2. slot'.sid # s
  BY ConstantsAssumption DEF NoSlot
<1>3. /\ \A i, j \in EndEvents(s) : i = j
      /\ \A y, z \in EndTasks(s) : y = z
      /\ EndEvents(s) = {} \/ EndTasks(s) = {}
      /\ Ending(s) => slot.sid # s /\ pc[s] = "done"
  BY DEF EndInv
<1>4. CASE s = s0
  <2>1. ~Ending(s) /\ pc[s] = "done"
    BY <1>3, <1>4 DEF ActiveOf, SlotInv
  <2> QED
    BY <1>1, <1>2, <1>4, <2>1 DEF Ending
<1>5. CASE s # s0
  BY <1>1, <1>2, <1>3, <1>5 DEF Ending
<1> QED
  BY <1>4, <1>5

\* A task x tells the application, or finds nobody to tell.
LEMMA EndInvTold ==
  ASSUME TypeInv, EndInv, NEW s0 \in Prepares, NEW x, NEW type \in {"Finished", "Cancelled"},
         x \in EndTasks(s0), Send(SessionEvent(type, s0)), UNCHANGED <<pc, slot>>,
         \A s \in Prepares : EndTasks(s)' \subseteq EndTasks(s) \ {x}
  PROVE  EndInv'
<1> SUFFICES ASSUME NEW s \in Prepares
             PROVE  /\ \A i, j \in EndEvents(s)' : i = j
                    /\ \A y, z \in EndTasks(s)' : y = z
                    /\ EndEvents(s)' = {} \/ EndTasks(s)' = {}
                    /\ Ending(s)' => slot'.sid # s /\ pc'[s] = "done"
  BY DEF EndInv, Ending
<1>1. \/ events' = events
      \/ events' = Append(events, SessionEvent(type, s0))
  BY DEF Send
<1>2. SessionEvent(type, s0) \in Event /\ events \in Seq(Event)
  BY SessionEventType DEF TypeInv, TypeOK
<1>3. IsEnd(SessionEvent(type, s0), s) <=> s = s0
  BY DEF IsEnd, SessionEvent
<1>4. /\ \A i, j \in EndEvents(s) : i = j
      /\ \A y, z \in EndTasks(s) : y = z
      /\ EndEvents(s) = {} \/ EndTasks(s) = {}
      /\ Ending(s) => slot.sid # s /\ pc[s] = "done"
  BY DEF EndInv
<1>5. CASE s # s0
  <2>1. EndEvents(s)' = EndEvents(s)
    <3>1. CASE events' = events
      BY <3>1 DEF EndEvents
    <3>2. CASE events' = Append(events, SessionEvent(type, s0))
      BY <3>2, <1>2, <1>3, <1>5, EndEventsAppended
    <3> QED
      BY <1>1, <3>1, <3>2
  <2> QED
    BY <1>4, <2>1 DEF Ending
<1>6. CASE s = s0
  <2>1. EndTasks(s)' = {} /\ EndEvents(s) = {} /\ slot.sid # s /\ pc[s] = "done"
    BY <1>4, <1>6 DEF Ending
  <2>2. \A i, j \in EndEvents(s)' : i = j
    <3>1. CASE events' = events
      BY <3>1, <1>4 DEF EndEvents
    <3>2. CASE events' = Append(events, SessionEvent(type, s0))
      BY <3>2, <1>2, <1>3, <1>6, <2>1, EndEventsAppended
    <3> QED
      BY <1>1, <3>1, <3>2
  <2> QED
    BY <2>1, <2>2
<1> QED
  BY <1>5, <1>6

LEMMA NextEndInv == ServerInv /\ EndInv /\ [Next]_vars => EndInv'
<1> SUFFICES ASSUME ServerInv, EndInv, [Next]_vars
             PROVE  EndInv'
  OBVIOUS
<1>v. TypeInv /\ SlotInv
  BY DEF ServerInv
<1>t. /\ upc \in [Uploads -> UploadPc]
      /\ usid \in [Uploads -> Prepares \cup {None}]
      /\ cpc \in [Cancels -> CancelPc]
      /\ csid \in [Cancels -> Prepares \cup {None}]
      /\ events \in Seq(Event)
      /\ pc \in [Prepares -> PreparePc]
      /\ \A v \in Uploads : upc[v] # "idle" => usid[v] \in Prepares /\ ufile[v] \in Files
      /\ \A c \in Cancels : cpc[c] # "idle" => csid[c] \in Prepares
  BY <1>v DEF TypeInv, TypeOK, Shape
<1>e. \A s \in Prepares : \A i, j \in EndEvents(s) : i = j
  BY DEF EndInv
\* A step that sends no end and hands none to a task.
<1>0. ASSUME \/ events' = events
             \/ events' = <<>>
             \/ \E e \in Event : events' = Append(events, e) /\ \A s : ~IsEnd(e, s),
             \A s \in Prepares : EndTasks(s)' \subseteq EndTasks(s),
             \A s \in Prepares : pc[s] = "done" => pc'[s] = "done",
             \/ slot'.sid = slot.sid
             \/ slot' = NoSlot
             \/ \E r \in Prepares : slot'.sid = r /\ pc[r] # "done"
      PROVE  EndInv'
  <2>1. ASSUME NEW s \in Prepares
        PROVE  /\ \A i, j \in EndEvents(s)' : i = j
               /\ EndEvents(s) = {} => EndEvents(s)' = {}
    <3>1. CASE events' = events
      BY <1>e, <3>1 DEF EndEvents
    <3>2. CASE events' = <<>>
      BY <3>2 DEF EndEvents
    <3>3. ASSUME NEW e \in Event, events' = Append(events, e), ~IsEnd(e, s)
          PROVE  EndEvents(s)' = EndEvents(s)
      BY <1>t, <3>3, EndEventsAppended
    <3> QED
      BY <1>0, <1>e, <3>1, <3>2, <3>3
  <2>2. \A s \in Prepares : slot'.sid = s => slot.sid = s \/ pc[s] # "done"
    BY <1>0, ConstantsAssumption DEF NoSlot
  <2> QED
    BY <1>0, <2>1, <2>2, EndInvKept
<1>1. ASSUME NEW r \in Prepares, PrepareStep(r)
      PROVE  EndInv'
  <2>1. \A s \in Prepares : pc[s] = "done" => pc'[s] = "done"
    BY <1>1, <1>v, DoneStays
  <2>2. \A s \in Prepares : EndTasks(s)' = EndTasks(s)
    <3>1. UNCHANGED <<upc, usid, ending, cpc, csid>>
      BY <1>1 DEF PrepareStep, PrepareUpload, ClaimSlot, SendPrepareUpload,
           ReceiveDecision, ReceiveCancellation, GuardClear, Activate,
           DropPrepare, AbortClear, AbortNotify, uploadVars, cancelVars
    <3> QED
      BY <3>1 DEF EndTasks
  <2>3. \/ events' = events
        \/ \E e \in Event : events' = Append(events, e) /\ \A s : ~IsEnd(e, s)
    <3>1. CASE SendPrepareUpload(r)
      BY <3>1, SessionEventType DEF SendPrepareUpload, Send, SessionEvent, IsEnd
    <3>2. CASE AbortNotify(r)
      BY <3>2, SessionEventType DEF AbortNotify, Send, SessionEvent, IsEnd
    <3>3. CASE ~SendPrepareUpload(r) /\ ~AbortNotify(r)
      BY <1>1, <3>3 DEF PrepareStep, PrepareUpload, ClaimSlot,
           ReceiveDecision, ReceiveCancellation, GuardClear, Activate,
           DropPrepare, AbortClear, channelVars
    <3> QED
      BY <3>1, <3>2, <3>3
  <2>4. \/ slot'.sid = slot.sid
        \/ slot' = NoSlot
        \/ slot'.sid = r /\ pc[r] # "done"
    BY <1>1 DEF PrepareStep, PrepareUpload, ClaimSlot, SendPrepareUpload,
         ReceiveDecision, ReceiveCancellation, GuardClear, Activate,
         DropPrepare, AbortClear, AbortNotify, ClearPendingSession, FreeSlot,
         PendingOf, ActiveOf, sessionVars
  <2> QED
    BY <1>0, <2>1, <2>2, <2>3, <2>4
<1>2. ASSUME NEW s0 \in Prepares, OrphanStep(s0)
      PROVE  EndInv'
  <2>1. ASSUME NEW f \in Files, OrphanFinalize(s0, f)
        PROVE  EndInv'
    <3>1. UNCHANGED <<upc, usid, cpc, csid, events, pc>>
      BY <2>1 DEF OrphanFinalize, prepareVars, cancelVars, channelVars
    <3>2. CASE EndsSession(s0, f, "Failed")
      <4>1. slot = ActiveOf(s0) /\ slot' = NoSlot
        BY <2>1, <3>2 DEF OrphanFinalize, FinalizeFile, EndsSession, FreeSlot
      <4>2. ending' = ending \cup {s0}
        BY <2>1, <3>2 DEF OrphanFinalize
      <4>3. \A s \in Prepares :
              EndTasks(s)' \subseteq EndTasks(s) \cup (IF s = s0 THEN {<<"orphan", s0>>} ELSE {})
        BY <3>1, <4>2 DEF EndTasks
      <4> QED
        BY <1>v, <3>1, <4>1, <4>3, EndInvStarts
    <3>3. CASE ~EndsSession(s0, f, "Failed")
      <4>1. ending' = ending
        BY <2>1, <3>3 DEF OrphanFinalize
      <4>2. \A s \in Prepares : EndTasks(s)' = EndTasks(s)
        BY <3>1, <4>1 DEF EndTasks
      <4>3. slot' = slot \/ slot' = NoSlot
        BY <2>1, FinalizeSlot DEF OrphanFinalize
      <4> QED
        BY <1>0, <3>1, <4>2, <4>3
    <3> QED
      BY <3>2, <3>3
  <2>2. CASE OrphanNotify(s0)
    <3>1. UNCHANGED <<upc, usid, cpc, csid, slot, pc>>
      BY <2>2 DEF OrphanNotify, prepareVars, cancelVars, sessionVars
    <3>2. s0 \in ending /\ ending' = ending \ {s0}
      BY <2>2 DEF OrphanNotify
    <3>3. <<"orphan", s0>> \in EndTasks(s0)
      BY <3>2, EndTasksMembers
    <3>4. \A s \in Prepares : EndTasks(s)' \subseteq EndTasks(s) \ {<<"orphan", s0>>}
      BY <3>1, <3>2 DEF EndTasks
    <3> QED
      BY <2>2, <1>v, <3>1, <3>3, <3>4, EndInvTold DEF OrphanNotify
  <2> QED
    BY <1>2, <2>1, <2>2 DEF OrphanStep
<1>3. ASSUME NEW u \in Uploads, UploadStep(u)
      PROVE  EndInv'
  <2>1. UNCHANGED <<ending, cpc, csid, pc>>
    BY <1>3 DEF UploadStep, Upload, SendFileUpload, SaveDone, GuardFinish,
         NotifyFinished, DropUpload, prepareVars, cancelVars
  <2>2. \A v \in Uploads : v # u => upc'[v] = upc[v] /\ usid'[v] = usid[v]
    BY <1>3, <1>t DEF UploadStep, Upload, SendFileUpload, SaveDone, GuardFinish,
         NotifyFinished, DropUpload, UploadIdle
  <2>3. ASSUME upc'[u] # "notify"
        PROVE  \A s \in Prepares : EndTasks(s)' \subseteq EndTasks(s) \ {<<"upload", u>>}
    BY <2>1, <2>2, <2>3 DEF EndTasks
  <2>4. CASE GuardFinish(u)
    <3>1. usid[u] \in Prepares /\ events' = events
      BY <2>4, <1>t DEF GuardFinish, channelVars
    <3>2. CASE EndsSession(usid[u], ufile[u], ures[u])
      <4>1. slot = ActiveOf(usid[u]) /\ slot' = NoSlot
        BY <2>4, <3>2 DEF GuardFinish, FinalizeFile, EndsSession, FreeSlot
      <4>2. usid' = usid
        BY <2>4, <3>2 DEF GuardFinish
      <4>3. \A s \in Prepares :
              EndTasks(s)' \subseteq EndTasks(s) \cup (IF s = usid[u] THEN {<<"upload", u>>} ELSE {})
        BY <2>1, <2>2, <4>2 DEF EndTasks
      <4> QED
        BY <1>v, <2>1, <3>1, <4>1, <4>3, EndInvStarts
    <3>3. CASE ~EndsSession(usid[u], ufile[u], ures[u])
      <4>1. upc'[u] # "notify"
        BY <2>4, <3>3, <1>t DEF GuardFinish, UploadIdle
      <4>2. slot' = slot \/ slot' = NoSlot
        BY <2>4, FinalizeSlot DEF GuardFinish
      <4> QED
        BY <1>0, <2>1, <2>3, <3>1, <4>1, <4>2
    <3> QED
      BY <3>2, <3>3
  <2>5. CASE NotifyFinished(u)
    <3>1. upc[u] = "notify" /\ usid[u] \in Prepares
      BY <2>5, <1>t DEF NotifyFinished
    <3>2. upc'[u] # "notify" /\ slot' = slot
      BY <2>5, <1>t DEF NotifyFinished, UploadIdle, sessionVars
    <3>3. <<"upload", u>> \in EndTasks(usid[u])
      BY <3>1, EndTasksMembers
    <3> QED
      BY <2>5, <1>v, <2>1, <2>3, <3>1, <3>2, <3>3, EndInvTold DEF NotifyFinished
  <2>6. CASE SendFileUpload(u)
    <3>1. upc'[u] # "notify" /\ slot' = slot
      BY <2>6, <1>t DEF SendFileUpload, sessionVars
    <3>2. usid[u] \in Prepares /\ ufile[u] \in Files
      BY <2>6, <1>t DEF SendFileUpload
    <3>3. FileUpload(u) \in Event /\ \A s : ~IsEnd(FileUpload(u), s)
      BY <3>2, FileUploadType DEF FileUpload, IsEnd
    <3>4. events' = events \/ events' = Append(events, FileUpload(u))
      BY <2>6 DEF SendFileUpload, Send
    <3> QED
      BY <1>0, <2>1, <2>3, <3>1, <3>3, <3>4
  <2>7. CASE \/ \E s \in Prepares, f \in Files, p \in Peers : Upload(u, s, f, p)
             \/ \E res \in SaveResult : SaveDone(u, res)
             \/ DropUpload(u)
    <3>1. upc'[u] # "notify" /\ slot' = slot /\ events' = events
      BY <2>7, <1>t DEF Upload, SaveDone, DropUpload, UploadIdle, sessionVars, channelVars
    <3> QED
      BY <1>0, <2>1, <2>3, <3>1
  <2> QED
    BY <1>3, <2>4, <2>5, <2>6, <2>7 DEF UploadStep
<1>4. ASSUME NEW c \in Cancels, CancelStep(c)
      PROVE  EndInv'
  <2>1. UNCHANGED <<ending, upc, usid, pc>>
    BY <1>4 DEF CancelStep, Cancel, CancelActive, CancelNotify, DropCancel,
         prepareVars, uploadVars
  <2>2. \A d \in Cancels : d # c => cpc'[d] = cpc[d] /\ csid'[d] = csid[d]
    BY <1>4, <1>t DEF CancelStep, Cancel, CancelActive, CancelNotify,
         DropCancel, CancelIdle, cancelVars
  <2>3. ASSUME cpc'[c] # "end"
        PROVE  \A s \in Prepares : EndTasks(s)' \subseteq EndTasks(s) \ {<<"cancel", c>>}
    BY <2>1, <2>2, <2>3 DEF EndTasks
  <2>4. CASE CancelActive(c)
    <3>1. csid[c] \in Prepares /\ events' = events
      BY <2>4, <1>t DEF CancelActive, channelVars
    <3>2. CASE slot = ActiveOf(csid[c]) /\ Sender[csid[c]] = cip[c]
      <4>1. slot' = NoSlot /\ csid' = csid
        BY <2>4, <3>2 DEF CancelActive, FreeSlot
      <4>2. \A s \in Prepares :
              EndTasks(s)' \subseteq EndTasks(s) \cup (IF s = csid[c] THEN {<<"cancel", c>>} ELSE {})
        BY <2>1, <2>2, <4>1 DEF EndTasks
      <4> QED
        BY <1>v, <2>1, <3>1, <3>2, <4>1, <4>2, EndInvStarts
    <3>3. CASE ~(slot = ActiveOf(csid[c]) /\ Sender[csid[c]] = cip[c])
      <4>1. cpc'[c] # "end" /\ slot' = slot
        BY <2>4, <3>3, <1>t DEF CancelActive, sessionVars
      <4> QED
        BY <1>0, <2>1, <2>3, <3>1, <4>1
    <3> QED
      BY <3>2, <3>3
  <2>5. CASE CancelNotify(c) /\ cpc[c] = "end"
    <3>1. csid[c] \in Prepares
      BY <2>5, <1>t
    <3>2. cpc'[c] # "end" /\ slot' = slot
      BY <2>5, <1>t DEF CancelNotify, CancelIdle, sessionVars
    <3>3. <<"cancel", c>> \in EndTasks(csid[c])
      BY <2>5, <3>1, EndTasksMembers
    <3> QED
      BY <2>5, <1>v, <2>1, <2>3, <3>1, <3>2, <3>3, EndInvTold DEF CancelNotify
  <2>6. CASE CancelNotify(c) /\ cpc[c] = "received"
    <3>1. cpc'[c] # "end" /\ slot' = slot /\ csid[c] \in Prepares
      BY <2>6, <1>t DEF CancelNotify, CancelIdle, sessionVars
    <3>2. \/ events' = events
          \/ events' = Append(events, SessionEvent("CancelReceived", csid[c]))
      BY <2>6 DEF CancelNotify, Send
    <3>3. /\ SessionEvent("CancelReceived", csid[c]) \in Event
          /\ \A s : ~IsEnd(SessionEvent("CancelReceived", csid[c]), s)
      BY <3>1, SessionEventType DEF SessionEvent, IsEnd
    <3> QED
      BY <1>0, <2>1, <2>3, <3>1, <3>2, <3>3
  <2>7. CASE DropCancel(c) \/ \E s \in Prepares \cup {None}, p \in Peers : Cancel(c, s, p)
    <3>1. slot' = slot /\ events' = events
      BY <2>7 DEF Cancel, DropCancel, sessionVars, channelVars
    <3>2. cpc'[c] # "end"
      BY <2>7, <1>t DEF Cancel, DropCancel, CancelIdle, cancelVars
    <3> QED
      BY <1>0, <2>1, <2>3, <3>1, <3>2
  <2> QED
    BY <1>4, <2>4, <2>5, <2>6, <2>7 DEF CancelStep, CancelNotify
<1>5. CASE AppReceive
  <2>1. UNCHANGED <<pc, slot, usid, ending, cpc, csid>>
    BY <1>5 DEF AppReceive, sessionVars, cancelVars
  <2>2. \A v \in Uploads : upc'[v] = "notify" => upc[v] = "notify"
    BY <1>5 DEF AppReceive
  <2>3. \A s \in Prepares : EndTasks(s)' \subseteq EndTasks(s)
    BY <2>1, <2>2 DEF EndTasks
  <2>4. \A s \in Prepares : /\ \A i, j \in EndEvents(s)' : i = j
                            /\ EndEvents(s) = {} => EndEvents(s)' = {}
    BY <1>5, <1>e, <1>t, EndEventsTaken DEF AppReceive
  <2> QED
    BY <2>1, <2>3, <2>4, EndInvKept
<1>6. CASE AppClose \/ \E u \in Uploads, given \in BOOLEAN : AppTarget(u, given)
  <2>1. UNCHANGED <<pc, slot, usid, ending, cpc, csid>>
    BY <1>6 DEF AppClose, AppTarget, sessionVars, prepareVars, cancelVars
  <2>2. \A v \in Uploads : upc'[v] = "notify" => upc[v] = "notify"
    BY <1>6, <1>t DEF AppClose, AppTarget
  <2>3. \A s \in Prepares : EndTasks(s)' \subseteq EndTasks(s)
    BY <2>1, <2>2 DEF EndTasks
  <2>4. events' = events \/ events' = <<>>
    BY <1>6 DEF AppClose, AppTarget, channelVars
  <2> QED
    BY <1>0, <2>1, <2>3, <2>4
<1>7. ASSUME NEW r, NEW reply, NEW ids, AppDecide(r, reply, ids)
      PROVE  EndInv'
  BY <1>0, <1>7 DEF AppDecide, sessionVars, uploadVars, cancelVars, channelVars, EndTasks
<1>8. CASE (\E s \in Prepares : CancelV2Session(s)) \/ UNCHANGED vars
  <2>1. UNCHANGED <<upc, usid, ending, cpc, csid, pc, events>>
    BY <1>8 DEF CancelV2Session, prepareVars, uploadVars, cancelVars, channelVars, vars
  <2>2. slot' = slot \/ slot' = NoSlot
    BY <1>8 DEF CancelV2Session, FreeSlot, vars
  <2>3. \A s \in Prepares : EndTasks(s)' = EndTasks(s)
    BY <2>1 DEF EndTasks
  <2> QED
    BY <1>0, <2>1, <2>2, <2>3
<1>9. ASSUME NEW p \in Registering, Register(p)
      PROVE  EndInv'
  <2>1. [type |-> "Register", ip |-> p] \in Event
    BY ConstantsAssumption DEF Event
  <2>2. \A s \in Prepares : EndTasks(s)' = EndTasks(s)
    BY <1>9 DEF Register, EndTasks, uploadVars, cancelVars
  <2>3. \A s : ~IsEnd([type |-> "Register", ip |-> p], s)
    BY DEF IsEnd
  <2> QED
    BY <1>0, <1>9, <2>1, <2>2, <2>3 DEF Register, sessionVars, prepareVars
<1> QED
  BY <1>1, <1>2, <1>3, <1>4, <1>5, <1>6, <1>7, <1>8, <1>9
     DEF Next, ServerNext, AppNext

\* The end of a session is told at most once, whichever of the upload that
\* settled its last file, the task of a dropped upload and a cancel ended it,
\* and never while the session still occupies the slot.
THEOREM EndsOnce == Spec => []SessionEndsOnce
<1>1. Init => EndInv
  <2> SUFFICES ASSUME Init, NEW s \in Prepares
               PROVE  EndEvents(s) = {} /\ EndTasks(s) = {}
    BY DEF EndInv, Ending
  <2> QED
    BY DEF Init, EndEvents, EndTasks
<1>2. ServerInv /\ EndInv /\ [Next]_vars => EndInv'
  BY NextEndInv
<1>3. EndInv => SessionEndsOnce
  BY EndInvCounts
<1> QED
  BY <1>1, <1>2, <1>3, ServerInvariant, PTL DEF Spec

-----------------------------------------------------------------------------
(* FileTransfer.                                                           *)

-----------------------------------------------------------------------------
(* Channels and routes. *)

LEMMA ChannelOps ==
  ASSUME NEW c \in Channels
  PROVE  /\ Push(c) \in Channels /\ Push(c).n = c.n + 1
         /\ c.n > 0 => Pop(c) \in Channels /\ Pop(c).n = c.n - 1
         /\ Close(c) \in Channels /\ Close(c).n = c.n
         /\ Drop(c) \in Channels /\ Drop(c).n = c.n
         /\ c.n \in Nat
         /\ NewChannel \in Channels /\ NewChannel.n = 0
<1>1. c.n \in Nat /\ c.closed \in BOOLEAN /\ c.dead \in BOOLEAN
  BY DEF Channels
<1>2. Push(c) \in Channels /\ Push(c).n = c.n + 1
  BY <1>1 DEF Push, Channels
<1>3. ASSUME c.n > 0 PROVE Pop(c) \in Channels /\ Pop(c).n = c.n - 1
  BY <1>1, <1>3 DEF Pop, Channels
<1>4. Close(c) \in Channels /\ Close(c).n = c.n
  BY <1>1 DEF Close, Channels
<1>5. Drop(c) \in Channels /\ Drop(c).n = c.n
  BY <1>1 DEF Drop, Channels
<1>6. NewChannel \in Channels /\ NewChannel.n = 0
  BY DEF NewChannel, Channels
<1> QED
  BY <1>1, <1>2, <1>3, <1>4, <1>5, <1>6

LEMMA RouteFacts ==
  ASSUME route \in Routes
  PROVE  /\ route.to \in {"upload", "put", "saf", "local"}
         /\ route.from \in {"path", "bytes", "local", "remote"}
         /\ route.to = "upload" <=> route.from \in {"path", "bytes"}
         /\ route.hash \in BOOLEAN /\ route.move \in BOOLEAN
         /\ route.hash => route.to = "upload"
BY DEF Routes

-----------------------------------------------------------------------------
(* Types of what is no channel. *)

SourceType ==
  /\ good \in BOOLEAN
  /\ left \in 0..Size + 1 /\ length \in 0..Size + 1
  /\ reader \in {"off", "run", "done"}
  /\ held \in {"none", "loop", "garbage", "nobody"}

DartType ==
  /\ route \in Routes /\ attempt \in Nat
  /\ loop \in {"begin", "open", "pull", "push", "close", "refused", "aborted", "await",
               "finished", "failed"}
  /\ token \in BOOLEAN
  /\ removed \in {"nothing", "target", "source"}

RequestType ==
  /\ request \in {"off", "connect", "send", "ok", "mismatch", "error", "cancelled"}
  /\ sent \in Nat

ServerType ==
  /\ handler \in {"off", "ask", "body", "await", "done"}
  /\ broke \in BOOLEAN
  /\ told \in {"nothing", "ok", "error", "aborted"}
  /\ answer \in {"none", "saved", "mismatch", "error", "forbidden"}
  /\ status \in {"pending", "inProgress", "finished", "failed", "gone"}
  /\ starts \in Nat

TargetType == writer \in {"off", "open", "run", "ok", "err"} /\ disk \in Nat

ScalarType == SourceType /\ DartType /\ RequestType /\ ServerType /\ TargetType

ChannelType ==
  /\ pipe \in Channels /\ sink \in Channels /\ chunks \in Channels
  /\ pipe.n <= ChannelCapacity /\ chunks.n <= ChannelCapacity /\ sink.n <= 1

BodyType ==
  /\ get \in [sent : Nat, got : Nat, n : 0..ChannelCapacity, end : BodyEnds]
  /\ body \in [n : 0..ChannelCapacity, end : BodyEnds]

\* Only uploads are told of a mismatch; a copy that makes no request has none.
RequestInv ==
  /\ ~HasRequest => request = "off"
  /\ request = "mismatch" => route.to = "upload"

\* The body of GET: what was received and is on its way was sent, and no more
\* than was promised.
GetInv ==
  /\ route.from # "remote" \/ loop \in {"begin", "open"} => held = "none"
  /\ loop = "open" => route.from = "remote"
  /\ held = "none" => get = [sent |-> 0, got |-> 0, n |-> 0, end |-> "open"]
  /\ get.got + get.n <= get.sent
  /\ get.sent <= length

FlowType == ScalarType /\ ChannelType /\ BodyType /\ RequestInv /\ GetInv

LEMMA TransferInitType == TransferInit => FlowType
<1> SUFFICES ASSUME TransferInit PROVE FlowType
  OBVIOUS
<1>0. Size \in Nat /\ ChannelCapacity \in Nat \ {0}
  BY TransferAssumption
<1>1. SourceType /\ DartType /\ RequestType /\ ServerType /\ TargetType
  <2>1. 0 \in 0..Size + 1
    BY <1>0
  <2>2. SourceType
    BY <2>1 DEF TransferInit, SourceType
  <2>3. DartType /\ RequestType /\ TargetType
    BY DEF TransferInit, DartType, RequestType, TargetType
  <2>4. ServerType
    BY DEF TransferInit, ServerType
  <2> QED
    BY <2>2, <2>3, <2>4
<1>2. ChannelType
  BY <1>0 DEF TransferInit, ChannelType, Channels, NewChannel
<1>3. BodyType
  BY <1>0 DEF TransferInit, BodyType, BodyEnds, NewBody
<1>4. RequestInv /\ GetInv
  BY <1>0 DEF TransferInit, RequestInv, GetInv
<1> QED
  BY <1>1, <1>2, <1>3, <1>4 DEF FlowType, ScalarType

\* The part of the state that a step leaves alone keeps its type.
LEMMA TypeKept ==
  ASSUME ScalarType
  PROVE  /\ UNCHANGED <<good, left, reader, length, held>> => SourceType'
         /\ UNCHANGED <<route, attempt, loop, token, removed>> => DartType'
         /\ UNCHANGED <<request, sent>> => RequestType'
         /\ UNCHANGED <<handler, broke, told, answer, status, starts>> => ServerType'
         /\ UNCHANGED <<writer, disk>> => TargetType'
BY DEF ScalarType, SourceType, DartType, RequestType, ServerType, TargetType

LEMMA NextScalar == FlowType /\ [TransferNext]_transferVars => ScalarType'
<1> SUFFICES ASSUME FlowType, [TransferNext]_transferVars PROVE ScalarType'
  OBVIOUS
<1>0. /\ ScalarType /\ Size \in Nat /\ RequestInv /\ GetInv
      /\ SourceType /\ DartType /\ RequestType /\ ServerType /\ TargetType
  BY TransferAssumption DEF FlowType, ScalarType
<1> USE DEF ScalarType, readUnchanged, loopUnchanged, clientUnchanged,
            serverUnchanged, writerUnchanged, sourceVars, dartVars, clientVars,
            serverVars, targetVars
<1>1. ASSUME Begin PROVE ScalarType'
  <2>1. SourceType'
    <3>1. left' \in 0..Size + 1 /\ good' \in BOOLEAN
      <4>1. /\ left' \in (IF route.from = "bytes" THEN {Size} ELSE 0..Size + 1)
            /\ good' \in (IF route.hash /\ route.from = "path" THEN BOOLEAN ELSE {TRUE})
        BY <1>1 DEF Begin
      <4>2. {Size} \subseteq 0..Size + 1
        BY <1>0
      <4> QED
        BY <4>1, <4>2
    <3>2. reader' \in {"run", "off"} /\ UNCHANGED <<length, held>>
      BY <1>1 DEF Begin
    <3> QED
      BY <1>0, <3>1, <3>2 DEF SourceType
  <2>4. ServerType'
    BY <1>0, <1>1 DEF Begin, ServerType
  <2>2. DartType'
    BY <1>0, <1>1 DEF Begin, DartType
  <2>3. RequestType' /\ TargetType'
    BY <1>0, <1>1 DEF Begin, RequestType, TargetType
  <2> QED
    BY <2>1, <2>2, <2>3, <2>4
<1>2. ASSUME Read \/ SendGet \/ LoseGet PROVE ScalarType'
  <2>1. left' \in {left, left - 1} /\ (left' = left \/ left > 0) /\ reader' \in {reader, "done"}
        /\ UNCHANGED <<good, length, held>>
    BY <1>2 DEF Read, SendGet, LoseGet
  <2>2. SourceType'
    BY <1>0, <2>1 DEF SourceType
  <2>3. UNCHANGED <<route, attempt, loop, token, removed, request, sent, handler, broke,
                    told, answer, status, starts, writer, disk>>
    BY <1>2 DEF Read, SendGet, LoseGet
  <2> QED
    BY <1>0, <2>2, <2>3, TypeKept
<1>3. ASSUME OpenGet PROVE ScalarType'
  <2>1. SourceType'
    BY <1>0, <1>3 DEF OpenGet, ReadResponse, Abort, SourceType
  <2>2. DartType'
    BY <1>0, <1>3 DEF OpenGet, ReadResponse, Abort, DartType, HasRequest
  <2>3. UNCHANGED <<request, sent, handler, broke, told, answer, status, starts, writer, disk>>
    BY <1>3 DEF OpenGet
  <2> QED
    BY <1>0, <2>1, <2>2, <2>3, TypeKept
<1>4. ASSUME NextChunk PROVE ScalarType'
  <2>1. SourceType'
    BY <1>0, <1>4 DEF NextChunk, Abort, SourceType
  <2>2. DartType'
    BY <1>0, <1>4 DEF NextChunk, Abort, DartType, HasRequest
  <2>3. UNCHANGED <<request, sent, handler, broke, told, answer, status, starts, writer, disk>>
    BY <1>4 DEF NextChunk
  <2> QED
    BY <1>0, <2>1, <2>2, <2>3, TypeKept
<1>5. ASSUME NextLocal PROVE ScalarType'
  <2>1. SourceType'
    BY <1>0, <1>5 DEF NextLocal, SourceType
  <2>2. DartType'
    BY <1>0, <1>5 DEF NextLocal, Abort, DartType, HasRequest
  <2>3. UNCHANGED <<request, sent, handler, broke, told, answer, status, starts, writer, disk>>
    BY <1>5 DEF NextLocal
  <2> QED
    BY <1>0, <2>1, <2>2, <2>3, TypeKept
<1>6. ASSUME Add \/ CloseSink PROVE ScalarType'
  BY <1>0, <1>6, TypeKept DEF Add, CloseSink, DartType
<1>7. ASSUME Refused \/ FinishAbort \/ AwaitTransfer PROVE ScalarType'
  <2>1. SourceType'
    BY <1>0, <1>7 DEF Refused, FinishAbort, AwaitTransfer, Abandon, SourceType
  <2>2. DartType'
    BY <1>0, <1>7 DEF Refused, FinishAbort, AwaitTransfer, Abort, DartType, HasRequest
  <2>3. UNCHANGED <<request, sent, handler, broke, told, answer, status, starts, writer, disk>>
    BY <1>7 DEF Refused, FinishAbort, AwaitTransfer
  <2> QED
    BY <1>0, <2>1, <2>2, <2>3, TypeKept
<1>8. ASSUME DeleteSource \/ UserCancels \/ Collect PROVE ScalarType'
  BY <1>0, <1>8, TypeKept DEF DeleteSource, UserCancels, Collect, SourceType, DartType
<1>9. ASSUME Connect PROVE ScalarType'
  BY <1>0, <1>9, TypeKept DEF Connect, EndRequest, RequestType, ServerType
<1>10. ASSUME SendBody PROVE ScalarType'
  <2>0. Feeds.n \in Nat
    BY ChannelOps DEF FlowType, ChannelType, Feeds
  <2>1. request' \in {request, "error"} /\ sent' \in {sent, sent + 1}
    <3>1. CASE route.to = "put" /\ sent = Size
      BY <1>10, <3>1 DEF SendBody
    <3>2. CASE Feeds.n > 0 /\ ~(route.to = "put" /\ sent = Size)
      <4>1. Feeds.n # 0
        BY <2>0, <3>2
      <4> QED
        BY <1>10, <3>2, <4>1 DEF SendBody
    <3>3. CASE Feeds.n = 0 /\ ~(route.to = "put" /\ sent = Size)
      BY <1>10, <3>3 DEF SendBody, EndRequest
    <3> QED
      BY <2>0, <3>1, <3>2, <3>3
  <2>2. RequestType'
    BY <1>0, <2>1 DEF RequestType
  <2>3. UNCHANGED <<good, left, reader, length, held, route, attempt, loop, token, removed,
                    handler, broke, told, answer, status, starts, writer, disk>>
    BY <1>10 DEF SendBody
  <2> QED
    BY <1>0, <2>2, <2>3, TypeKept
<1>11. ASSUME Respond \/ GiveUp PROVE ScalarType'
  <2>1. request' \in {"ok", "mismatch", "error", "cancelled"} /\ sent' = sent
    <3>1. ASSUME Respond PROVE request' \in {"ok", "mismatch", "error"} /\ sent' = sent
      <4>1. CASE answer = "saved"
        BY <3>1, <4>1 DEF Respond, EndRequest
      <4>2. CASE answer # "saved"
        <5>1. route.to \in {"upload", "put"}
          BY <1>0, <3>1 DEF Respond, RequestInv, HasRequest
        <5> QED
          BY <3>1, <4>2, <5>1 DEF Respond, EndRequest, StatusError, RemoteError
      <4> QED
        BY <4>1, <4>2
    <3>2. ASSUME GiveUp PROVE request' \in {"error", "cancelled"} /\ sent' = sent
      BY <3>2 DEF GiveUp, EndRequest
    <3> QED
      BY <1>11, <3>1, <3>2
  <2>2. RequestType'
    BY <1>0, <2>1 DEF RequestType
  <2>3. UNCHANGED <<good, left, reader, length, held, route, attempt, loop, token, removed,
                    handler, broke, told, answer, status, starts, writer, disk>>
    BY <1>11 DEF Respond, GiveUp
  <2> QED
    BY <1>0, <2>2, <2>3, TypeKept
<1>12. ASSUME Forbid \/ Accept \/ ReceiverCancels PROVE ScalarType'
  <2>1. ServerType'
    <3>1. CASE Forbid \/ ReceiverCancels
      BY <1>0, <3>1 DEF Forbid, ReceiverCancels, ServerType
    <3>2. CASE Accept
      <4>1. starts' \in Nat
        <5>1. starts \in Nat /\ starts' \in {starts, starts + 1}
          BY <1>0, <3>2 DEF Accept, Started, ServerType
        <5> QED
          BY <5>1
      <4>2. status' \in {"inProgress", "failed", status}
        BY <3>2 DEF Accept, TransferStatus
      <4>3. /\ handler' \in {"body", "done"} /\ broke' \in {broke, FALSE}
            /\ told' \in {told, "nothing"} /\ answer' \in {answer, "error"}
        BY <3>2 DEF Accept
      <4> QED
        BY <1>0, <4>1, <4>2, <4>3 DEF ServerType
    <3> QED
      BY <1>12, <3>1, <3>2
  <2>2. TargetType'
    BY <1>0, <1>12 DEF Forbid, Accept, ReceiverCancels, TargetType
  <2>3. UNCHANGED <<good, left, reader, length, held, route, attempt, loop, token, removed,
                    request, sent>>
    BY <1>12 DEF Forbid, Accept, ReceiverCancels
  <2> QED
    BY <1>0, <2>1, <2>2, <2>3, TypeKept
<1>13. ASSUME Forward \/ EndOfBody \/ DropHandler PROVE ScalarType'
  <2>1. ServerType'
    BY <1>0, <1>13 DEF Forward, EndOfBody, DropHandler, TransferStatus, ServerType
  <2>2. UNCHANGED <<good, left, reader, length, held, route, attempt, loop, token, removed,
                    request, sent, writer, disk>>
    BY <1>13 DEF Forward, EndOfBody, DropHandler
  <2> QED
    BY <1>0, <2>1, <2>2, TypeKept
<1>14. ASSUME Conclude PROVE ScalarType'
  <2>1. ServerType'
    BY <1>0, <1>14 DEF Conclude, Finalize, TransferStatus, ServerType
  <2>2. UNCHANGED <<good, left, reader, length, held, route, attempt, loop, token, removed,
                    request, sent, writer, disk>>
    BY <1>14 DEF Conclude
  <2> QED
    BY <1>0, <2>1, <2>2, TypeKept
<1>15. ASSUME OpenTarget \/ Write \/ Flush PROVE ScalarType'
  <2>1. TargetType'
    BY <1>0, <1>15 DEF OpenTarget, Write, Flush, EndWriter, TargetType
  <2>2. UNCHANGED <<good, left, reader, length, held, route, attempt, loop, token, removed,
                    request, sent, handler, broke, told, answer, status, starts>>
    BY <1>15 DEF OpenTarget, Write, Flush
  <2> QED
    BY <1>0, <2>1, <2>2, TypeKept
<1>16. CASE UNCHANGED transferVars
  BY <1>0, <1>16, TypeKept DEF transferVars
<1> QED
  BY <1>1, <1>2, <1>3, <1>4, <1>5, <1>6, <1>7, <1>8, <1>9, <1>10, <1>11, <1>12,
     <1>13, <1>14, <1>15, <1>16 DEF TransferNext, Source, Dart, Client, Server, Writer

LEMMA NextChannels == FlowType /\ [TransferNext]_transferVars => ChannelType'
<1> SUFFICES ASSUME FlowType, [TransferNext]_transferVars PROVE ChannelType'
  OBVIOUS
<1>0. /\ ChannelType /\ BodyType /\ GetInv /\ SourceType /\ ChannelCapacity \in Nat \ {0}
      /\ Size \in Nat
      /\ pipe \in Channels /\ sink \in Channels /\ chunks \in Channels
      /\ NewChannel \in Channels /\ NewChannel.n = 0
  BY ChannelOps, TransferAssumption DEF FlowType, ChannelType, ScalarType
<1> USE DEF readUnchanged, loopUnchanged, clientUnchanged, serverUnchanged,
            writerUnchanged, sourceVars, dartVars, clientVars, serverVars, targetVars
<1>c. CASE UNCHANGED <<pipe, sink, chunks>>
  BY <1>0, <1>c DEF ChannelType
<1>e. ASSUME NEW outcome, EndRequest(outcome), UNCHANGED chunks PROVE ChannelType'
  BY <1>0, <1>e, ChannelOps DEF EndRequest, FeedsTo, Feeds, ChannelType
<1>1. ASSUME Begin PROVE ChannelType'
  BY <1>0, <1>1 DEF Begin, ChannelType
<1>2. ASSUME Read PROVE ChannelType'
  BY <1>0, <1>2, ChannelOps DEF Read, ChannelType
<1>3. ASSUME SendGet PROVE ChannelType'
  <2>1. sink' = sink /\ chunks' = chunks /\ (pipe' = Drop(pipe) \/ (pipe.n > 0 /\ pipe' = Pop(pipe)))
    <3>1. get.sent = length \/ (get.sent < length /\ (pipe.n > 0 \/ pipe.n = 0))
      <4>1. get.sent \in Nat /\ length \in Int /\ get.sent <= length
        BY <1>0 DEF BodyType, GetInv, SourceType
      <4>2. pipe.n \in Nat
        BY <1>0, ChannelOps
      <4> QED
        BY <4>1, <4>2
    <3> QED
      BY <1>3, <3>1 DEF SendGet
  <2> QED
    BY <1>0, <2>1, ChannelOps DEF ChannelType
<1>4. ASSUME LoseGet \/ Collect PROVE ChannelType'
  BY <1>0, <1>4, ChannelOps DEF LoseGet, Collect, ChannelType
<1>5. ASSUME pipe' = pipe, chunks' = chunks, sink' = sink \/ sink' = Close(sink)
      PROVE  ChannelType'
  BY <1>0, <1>5, ChannelOps DEF ChannelType
<1>6. ASSUME OpenGet \/ NextChunk \/ NextLocal \/ CloseSink \/ Refused PROVE ChannelType'
  BY <1>5, <1>6 DEF OpenGet, NextChunk, NextLocal, CloseSink, Refused, Abort
<1>7. ASSUME Add PROVE ChannelType'
  <2>1. pipe' = pipe /\ chunks' = chunks /\ (sink' = sink \/ (sink.n < 1 /\ sink' = Push(sink)))
    BY <1>7 DEF Add
  <2> QED
    BY <1>0, <2>1, ChannelOps DEF ChannelType
<1>8. ASSUME FinishAbort \/ AwaitTransfer \/ DeleteSource \/ UserCancels PROVE ChannelType'
  BY <1>c, <1>8 DEF FinishAbort, AwaitTransfer, DeleteSource, UserCancels
<1>9. ASSUME Connect \/ Respond \/ GiveUp PROVE ChannelType'
  BY <1>c, <1>e, <1>9 DEF Connect, Respond, GiveUp
<1>10. ASSUME SendBody PROVE ChannelType'
  <2>1. chunks' = chunks
    BY <1>10 DEF SendBody
  <2>2. ASSUME Feeds.n > 0, FeedsTo(Pop(Feeds)) PROVE ChannelType'
    BY <1>0, <2>1, <2>2, ChannelOps DEF FeedsTo, Feeds, ChannelType
  <2>3. ASSUME FeedsTo(Drop(Feeds)) PROVE ChannelType'
    BY <1>0, <2>1, <2>3, ChannelOps DEF FeedsTo, Feeds, ChannelType
  <2>4. Feeds.n > 0 \/ Feeds.n = 0
    BY <1>0, ChannelOps DEF Feeds
  <2>5. CASE route.to = "put" /\ sent = Size
    BY <1>10, <2>3, <2>5 DEF SendBody
  <2>6. CASE Feeds.n > 0 /\ ~(route.to = "put" /\ sent = Size)
    <3>1. Feeds.n # 0
      BY <2>6
    <3>2. FeedsTo(Pop(Feeds))
      BY <1>10, <2>6, <3>1 DEF SendBody
    <3> QED
      BY <2>2, <2>6, <3>2
  <2>7. CASE Feeds.n = 0 /\ ~(route.to = "put" /\ sent = Size)
    BY <1>c, <1>e, <1>10, <2>1, <2>7 DEF SendBody
  <2> QED
    BY <2>4, <2>5, <2>6, <2>7
<1>11. ASSUME pipe' = pipe, sink' = sink,
              chunks' \in {chunks, NewChannel, Close(chunks), Drop(chunks)}
       PROVE  ChannelType'
  BY <1>0, <1>11, ChannelOps DEF ChannelType
<1>12. ASSUME Forbid \/ Accept \/ ReceiverCancels \/ EndOfBody \/ Conclude \/ DropHandler
       PROVE  ChannelType'
  BY <1>11, <1>12 DEF Forbid, Accept, ReceiverCancels, EndOfBody, Conclude, DropHandler
<1>13. ASSUME Forward PROVE ChannelType'
  <2>1. /\ pipe' = pipe /\ sink' = sink
        /\ \/ chunks' = Close(chunks)
           \/ chunks.n < ChannelCapacity /\ chunks' = Push(chunks)
    BY <1>13 DEF Forward
  <2> QED
    BY <1>0, <2>1, ChannelOps DEF ChannelType
<1>14. ASSUME NEW result, EndWriter(result), UNCHANGED pipe PROVE ChannelType'
  BY <1>0, <1>14, ChannelOps DEF EndWriter, IncomingTo, Incoming, ChannelType
<1>15. ASSUME OpenTarget \/ Flush PROVE ChannelType'
  BY <1>c, <1>14, <1>15 DEF OpenTarget, Flush
<1>16. ASSUME Write PROVE ChannelType'
  <2>1. ASSUME Incoming.n > 0, IncomingTo(Pop(Incoming)), UNCHANGED pipe PROVE ChannelType'
    BY <1>0, <2>1, ChannelOps DEF IncomingTo, Incoming, ChannelType
  <2> QED
    BY <1>14, <1>16, <2>1 DEF Write
<1>17. CASE UNCHANGED transferVars
  BY <1>c, <1>17 DEF transferVars
<1> QED
  BY <1>1, <1>2, <1>3, <1>4, <1>6, <1>7, <1>8, <1>9, <1>10, <1>12, <1>13, <1>15,
     <1>16, <1>17 DEF TransferNext, Source, Dart, Client, Server, Writer

Gets == [sent : Nat, got : Nat, n : 0..ChannelCapacity, end : BodyEnds]
Bodies == [n : 0..ChannelCapacity, end : BodyEnds]

LEMMA BreakBody ==
  ASSUME NEW b \in Bodies
  PROVE  /\ Break(b) \in Bodies /\ Break(b).n = b.n
         /\ Break(b).end = "broken" \/ Break(b) = b
BY DEF Bodies, Break, BodyEnds

\* What a step does to the body of GET.
GetSteps ==
  \/ get' = get
  \/ /\ get.end = "open" /\ get.sent < length /\ get.n < ChannelCapacity
     /\ get' = [get EXCEPT !.n = @ + 1, !.sent = @ + 1]
  \/ get' = [get EXCEPT !.end = "clean"]
  \/ get' = [get EXCEPT !.end = "broken"]
  \/ get' = [get EXCEPT !.end = "broken", !.n = 0]
  \/ get' = [get EXCEPT !.end = IF @ = "open" THEN "broken" ELSE @, !.n = 0]
  \/ get.n > 0 /\ get' = [get EXCEPT !.n = @ - 1, !.got = @ + 1]

LEMMA GetStep ==
  ASSUME FlowType, [TransferNext]_transferVars
  PROVE  /\ GetSteps
         /\ held = "none" => get' = get
         /\ length' = length \/ (length' \in 0..Size + 1 /\ loop = "open" /\ get' = get)
<1> USE DEF readUnchanged, loopUnchanged, clientUnchanged, serverUnchanged,
            writerUnchanged, sourceVars, dartVars, clientVars, serverVars, targetVars,
            GetSteps
<1> DEFINE Goal == /\ GetSteps
                   /\ held = "none" => get' = get
                   /\ length' = length \/ (length' \in 0..Size + 1 /\ loop = "open" /\ get' = get)
<1>1. CASE UNCHANGED <<get, length>>
  BY <1>1
<1>2. ASSUME SendGet PROVE Goal
  <2>1. get.sent = length \/ (get.sent < length /\ (pipe.n > 0 \/ pipe.n = 0))
    <3>1. get.sent \in Nat /\ length \in Int /\ get.sent <= length
      BY TransferAssumption DEF FlowType, BodyType, GetInv, ScalarType, SourceType
    <3>2. pipe.n \in Nat
      BY ChannelOps DEF FlowType, ChannelType
    <3> QED
      BY <3>1, <3>2
  <2>2. CASE get.sent = length
    BY <1>2, <2>2 DEF SendGet
  <2>3. CASE get.sent < length /\ pipe.n > 0
    <3>1. get.sent # length /\ pipe.n # 0
      BY <2>3, TransferAssumption
         DEF FlowType, BodyType, GetInv, ScalarType, SourceType
    <3> QED
      BY <1>2, <2>3, <3>1 DEF SendGet
  <2>4. CASE get.sent < length /\ pipe.n = 0
    <3>1. get.sent # length /\ ~(pipe.n > 0)
      BY <2>4, TransferAssumption
         DEF FlowType, BodyType, GetInv, ScalarType, SourceType
    <3> QED
      BY <1>2, <2>4, <3>1 DEF SendGet
  <2> QED
    BY <2>1, <2>2, <2>3, <2>4
<1>3. ASSUME LoseGet PROVE Goal
  BY <1>3 DEF LoseGet
<1>4. ASSUME NextChunk PROVE Goal
  <2>1. held # "none"
    <3>1. held = "none" => get.n = 0 /\ get.end = "open"
      BY DEF FlowType, GetInv
    <3>2. get.n > 0 \/ get.end # "open"
      BY <1>4 DEF NextChunk
    <3> QED
      BY <3>1, <3>2
  <2>2. length' = length
    BY <1>4 DEF NextChunk
  <2>3. GetSteps
    BY <1>4 DEF NextChunk
  <2> QED
    BY <2>1, <2>2, <2>3
<1>5. ASSUME Collect PROVE Goal
  BY <1>5 DEF Collect
<1>6. ASSUME OpenGet PROVE Goal
  BY <1>6 DEF OpenGet, ReadResponse
<1> QED
  BY <1>1, <1>2, <1>3, <1>4, <1>5, <1>6
     DEF TransferNext, Source, Dart, Client, Server, Writer, Begin, Read, NextLocal, Add,
         CloseSink, Refused, FinishAbort, AwaitTransfer, DeleteSource, UserCancels,
         Connect, SendBody, Respond, GiveUp, Forbid, Accept, ReceiverCancels, Forward,
         EndOfBody, Conclude, DropHandler, OpenTarget, Write, Flush, transferVars

LEMMA GetFields ==
  ASSUME get \in Gets, GetSteps, ChannelCapacity \in Nat \ {0}
  PROVE  /\ get' \in Gets
         /\ \/ get'.sent = get.sent /\ get'.got = get.got /\ get'.n \in {get.n, 0}
            \/ /\ get.sent < length /\ get'.sent = get.sent + 1
               /\ get'.got = get.got /\ get'.n = get.n + 1
            \/ get'.sent = get.sent /\ get'.got = get.got + 1 /\ get'.n = get.n - 1
<1>0. /\ get.sent \in Nat /\ get.got \in Nat /\ get.n \in 0..ChannelCapacity
      /\ get.end \in BodyEnds
  BY DEF Gets
<1>e. {"open", "clean", "broken"} = BodyEnds
  BY DEF BodyEnds
<1>1. CASE get' = get
  BY <1>1
<1>2. CASE /\ get.end = "open" /\ get.sent < length /\ get.n < ChannelCapacity
           /\ get' = [get EXCEPT !.n = @ + 1, !.sent = @ + 1]
  <2>1. get.n + 1 \in 0..ChannelCapacity /\ get.sent + 1 \in Nat
    BY <1>0, <1>2
  <2> QED
    BY <1>0, <1>2, <2>1 DEF Gets
<1>3. CASE \/ get' = [get EXCEPT !.end = "clean"]
           \/ get' = [get EXCEPT !.end = "broken"]
  BY <1>0, <1>e, <1>3 DEF Gets
<1>n. ASSUME NEW e \in BodyEnds, get' = [get EXCEPT !.end = e, !.n = 0]
      PROVE  get' \in Gets /\ get'.sent = get.sent /\ get'.got = get.got /\ get'.n = 0
  <2>1. 0 \in 0..ChannelCapacity
    OBVIOUS
  <2> QED
    BY <1>0, <1>n, <2>1 DEF Gets
<1>4. CASE get' = [get EXCEPT !.end = "broken", !.n = 0]
  BY <1>e, <1>n, <1>4
<1>5. CASE get' = [get EXCEPT !.end = IF @ = "open" THEN "broken" ELSE @, !.n = 0]
  <2>1. CASE get.end = "open"
    <3>1. get' = [get EXCEPT !.end = "broken", !.n = 0]
      BY <1>5, <2>1
    <3> QED
      BY <1>4, <3>1
  <2>2. CASE get.end # "open"
    <3>1. get' = [get EXCEPT !.end = get.end, !.n = 0]
      BY <1>5, <2>2
    <3> QED
      BY <1>0, <1>n, <3>1
  <2> QED
    BY <2>1, <2>2
<1>6. CASE get.n > 0 /\ get' = [get EXCEPT !.n = @ - 1, !.got = @ + 1]
  <2>1. get.n - 1 \in 0..ChannelCapacity /\ get.got + 1 \in Nat
    BY <1>0, <1>6
  <2> QED
    BY <1>0, <1>6, <2>1 DEF Gets
<1> QED
  BY <1>1, <1>2, <1>3, <1>4, <1>5, <1>6 DEF GetSteps

LEMMA NextBody == FlowType /\ [TransferNext]_transferVars => BodyType'
<1> SUFFICES ASSUME FlowType, [TransferNext]_transferVars PROVE BodyType'
  OBVIOUS
<1>0. get \in Gets /\ body \in Bodies /\ ChannelCapacity \in Nat \ {0}
  BY TransferAssumption DEF FlowType, BodyType, Gets, Bodies
<1>1. get' \in Gets
  <2>1. GetSteps
    BY GetStep
  <2> QED
    BY <1>0, <2>1, GetFields
<1>2. body' \in Bodies
  <2> USE DEF readUnchanged, loopUnchanged, clientUnchanged, serverUnchanged,
              writerUnchanged, sourceVars, dartVars, clientVars, serverVars, targetVars
  <2>1. ASSUME Begin PROVE body' \in Bodies
    BY <1>0, <2>1 DEF Begin, NewBody, Bodies, BodyEnds
  <2>2. ASSUME NEW outcome, EndRequest(outcome) PROVE body' \in Bodies
    BY <1>0, <2>2, BreakBody DEF EndRequest
  <2>3. ASSUME Connect \/ Respond \/ GiveUp PROVE body' \in Bodies
    BY <1>0, <2>2, <2>3 DEF Connect, Respond, GiveUp
  <2>4. ASSUME SendBody PROVE body' \in Bodies
    <3>1. Feeds.n \in Nat
      BY ChannelOps DEF FlowType, ChannelType, Feeds
    <3>2. CASE route.to = "put" /\ sent = Size
      BY <1>0, <2>4, <3>2 DEF SendBody, Bodies, BodyEnds
    <3>3. CASE Feeds.n > 0 /\ ~(route.to = "put" /\ sent = Size)
      <4>1. Feeds.n # 0
        BY <3>1, <3>3
      <4>2. body.n < ChannelCapacity /\ body' = [body EXCEPT !.n = @ + 1]
        BY <2>4, <3>3, <4>1 DEF SendBody
      <4> QED
        BY <1>0, <4>2 DEF Bodies
    <3>4. CASE Feeds.n = 0 /\ ~(route.to = "put" /\ sent = Size)
      <4>1. EndRequest("error") \/ body' = [body EXCEPT !.end = "clean"]
        BY <2>4, <3>4 DEF SendBody
      <4> QED
        BY <1>0, <2>2, <4>1 DEF Bodies, BodyEnds
    <3> QED
      BY <3>1, <3>2, <3>3, <3>4
  <2>5. ASSUME Forward PROVE body' \in Bodies
    <3>1. body.n > 0 /\ body' \in {body, [body EXCEPT !.n = @ - 1]}
      BY <2>5 DEF Forward
    <3> QED
      BY <1>0, <3>1 DEF Bodies
  <2>6. CASE body' = body
    BY <1>0, <2>6
  <2> QED
    BY <2>1, <2>3, <2>4, <2>5, <2>6
       DEF TransferNext, Source, Dart, Client, Server, Writer, Read, SendGet, LoseGet, OpenGet,
           NextChunk, NextLocal, Add, CloseSink, Refused, FinishAbort, AwaitTransfer,
           DeleteSource, UserCancels, Collect, Forbid, Accept, ReceiverCancels,
           EndOfBody, Conclude, DropHandler, OpenTarget, Write, Flush, transferVars
<1> QED
  BY <1>1, <1>2 DEF BodyType, Gets, Bodies

LEMMA NextRequestInv == FlowType /\ [TransferNext]_transferVars => RequestInv'
<1> SUFFICES ASSUME FlowType, [TransferNext]_transferVars PROVE RequestInv'
  OBVIOUS
<1>0. RequestInv
  BY DEF FlowType
<1> USE DEF readUnchanged, loopUnchanged, clientUnchanged, serverUnchanged,
            writerUnchanged, sourceVars, dartVars, clientVars, serverVars, targetVars
<1>1. CASE UNCHANGED <<route, request>>
  BY <1>0, <1>1 DEF RequestInv, HasRequest
<1>2. ASSUME Begin PROVE RequestInv'
  BY <1>2 DEF Begin, RequestInv, HasRequest
<1>3. ASSUME request # "off", route' = route,
             request' = "mismatch" => request = "mismatch" \/ route.to = "upload"
      PROVE  RequestInv'
  BY <1>0, <1>3 DEF RequestInv, HasRequest
<1>4. ASSUME Connect \/ GiveUp PROVE RequestInv'
  BY <1>3, <1>4 DEF Connect, GiveUp, EndRequest
<1>5. ASSUME Respond PROVE RequestInv'
  <2>1. CASE answer = "saved"
    BY <1>3, <1>5, <2>1 DEF Respond, EndRequest
  <2>2. CASE answer # "saved"
    <3>1. route.to \in {"upload", "put"}
      BY <1>0, <1>5 DEF Respond, RequestInv, HasRequest
    <3> QED
      BY <1>3, <1>5, <2>2, <3>1 DEF Respond, EndRequest, RemoteError
  <2> QED
    BY <2>1, <2>2
<1>6. ASSUME SendBody PROVE RequestInv'
  <2>0. Feeds.n \in Nat
    BY ChannelOps DEF FlowType, ChannelType, Feeds
  <2>1. request' \in {request, "error"}
    <3>1. CASE route.to = "put" /\ sent = Size
      BY <1>6, <3>1 DEF SendBody
    <3>2. CASE Feeds.n > 0 /\ ~(route.to = "put" /\ sent = Size)
      <4>1. Feeds.n # 0
        BY <2>0, <3>2
      <4> QED
        BY <1>6, <3>2, <4>1 DEF SendBody
    <3>3. CASE Feeds.n = 0 /\ ~(route.to = "put" /\ sent = Size)
      BY <1>6, <3>3 DEF SendBody, EndRequest
    <3> QED
      BY <2>0, <3>1, <3>2, <3>3
  <2> QED
    BY <1>3, <1>6, <2>1 DEF SendBody
<1> QED
  BY <1>1, <1>2, <1>4, <1>5, <1>6
     DEF TransferNext, Source, Dart, Client, Server, Writer, Read, SendGet, LoseGet, OpenGet,
         NextChunk, NextLocal, Add, CloseSink, Refused, FinishAbort, AwaitTransfer,
         DeleteSource, UserCancels, Collect, Forbid, Accept, ReceiverCancels, Forward,
         EndOfBody, Conclude, DropHandler, OpenTarget, Write, Flush, transferVars

LEMMA NextGet == FlowType /\ [TransferNext]_transferVars => GetInv'
<1> SUFFICES ASSUME FlowType, [TransferNext]_transferVars PROVE GetInv'
  OBVIOUS
<1>0. /\ GetInv /\ RequestInv /\ get \in Gets /\ Size \in Nat
      /\ length \in 0..Size + 1 /\ ChannelCapacity \in Nat \ {0} /\ route \in Routes
  BY TransferAssumption
     DEF FlowType, BodyType, Gets, ScalarType, SourceType, DartType
<1>1. /\ GetSteps
      /\ held = "none" => get' = get
      /\ length' = length \/ (length' \in 0..Size + 1 /\ loop = "open" /\ get' = get)
  BY GetStep
<1>2. get'.got + get'.n <= get'.sent /\ get'.sent <= length'
  <2>1. CASE length' = length
    <3>1. /\ get.sent \in Nat /\ get.got \in Nat /\ get.n \in Nat
          /\ get.got + get.n <= get.sent /\ get.sent <= length
      BY <1>0 DEF Gets, GetInv
    <3>2. \/ get'.sent = get.sent /\ get'.got = get.got /\ get'.n \in {get.n, 0}
          \/ /\ get.sent < length /\ get'.sent = get.sent + 1
             /\ get'.got = get.got /\ get'.n = get.n + 1
          \/ get'.sent = get.sent /\ get'.got = get.got + 1 /\ get'.n = get.n - 1
      BY <1>0, <1>1, GetFields
    <3> QED
      BY <1>0, <2>1, <3>1, <3>2
  <2>2. CASE length' \in 0..Size + 1 /\ loop = "open" /\ get' = get
    <3>1. get.sent = 0
      BY <1>0, <2>2 DEF GetInv
    <3> QED
      BY <1>0, <2>2, <3>1 DEF GetInv
  <2> QED
    BY <1>1, <2>1, <2>2
<1> USE DEF readUnchanged, loopUnchanged, clientUnchanged, serverUnchanged,
            writerUnchanged, sourceVars, dartVars, clientVars, serverVars, targetVars
<1> DEFINE Goal == /\ route' = route
                   /\ held' = "none" => held = "none"
                   /\ held = "none" /\ held' # "none" => loop = "open" /\ loop' = "pull"
                   /\ loop' = "begin" /\ loop # "begin" => request = "mismatch"
                   /\ loop' = "open" /\ loop # "open" => loop = "begin" /\ route.from = "remote"
<1>3. ASSUME route' = route, held' = held, loop' = loop PROVE Goal
  BY <1>3
<1>4. ASSUME Begin PROVE Goal
  BY <1>4 DEF Begin
<1>5. ASSUME OpenGet PROVE Goal
  BY <1>5 DEF OpenGet, ReadResponse, Abort
<1>6. ASSUME NextChunk PROVE Goal
  <2>1. held # "none"
    <3>1. held = "none" => get.n = 0 /\ get.end = "open"
      BY <1>0 DEF GetInv
    <3>2. get.n > 0 \/ get.end # "open"
      BY <1>6 DEF NextChunk
    <3> QED
      BY <3>1, <3>2
  <2>2. /\ route' = route /\ held' \in {held, "nobody"}
        /\ loop' \in {"push", "close", "aborted"}
    BY <1>6 DEF NextChunk, Abort
  <2> QED
    BY <2>1, <2>2
<1>7. ASSUME NextLocal \/ Add \/ CloseSink \/ Refused \/ FinishAbort PROVE Goal
  BY <1>7 DEF NextLocal, Add, CloseSink, Refused, FinishAbort, Abort, Abandon
<1>8. ASSUME AwaitTransfer PROVE Goal
  BY <1>8 DEF AwaitTransfer
<1>9. ASSUME Collect PROVE Goal
  BY <1>9 DEF Collect
<1>10. Goal
  BY <1>3, <1>4, <1>5, <1>6, <1>7, <1>8, <1>9
     DEF TransferNext, Source, Dart, Client, Server, Writer, Read, SendGet, LoseGet,
         DeleteSource, UserCancels, Connect, SendBody, Respond, GiveUp, Forbid, Accept,
         ReceiverCancels, Forward, EndOfBody, Conclude, DropHandler, OpenTarget, Write,
         Flush, transferVars
<1>11. request = "mismatch" => route.from # "remote"
  BY <1>0, RouteFacts DEF RequestInv
<1>12. /\ route'.from # "remote" \/ loop' \in {"begin", "open"} => held' = "none"
       /\ loop' = "open" => route'.from = "remote"
  BY <1>0, <1>10, <1>11 DEF GetInv
<1>13. held' = "none" => get' = [sent |-> 0, got |-> 0, n |-> 0, end |-> "open"]
  BY <1>0, <1>1, <1>10 DEF GetInv
<1> QED
  BY <1>2, <1>12, <1>13 DEF GetInv

LEMMA NextFlow == FlowType /\ [TransferNext]_transferVars => FlowType'
BY NextScalar, NextChannels, NextBody, NextRequestInv, NextGet DEF FlowType

-----------------------------------------------------------------------------
(* What a step does to the states of the parts. *)

coreVars == <<route, attempt, good, broke, told, answer, status, starts>>

\* A step of Dart, of the reader or of a connection, other than Begin and
\* AwaitTransfer: nobody's outcome changes.
QuietStep ==
  /\ UNCHANGED <<coreVars, request, handler, writer, disk>>
  /\ loop' = loop \/ loop' \notin {"begin", "finished"}

RequestStep ==
  /\ UNCHANGED <<coreVars, loop, writer, disk>>
  /\ \/ request = "connect" /\ request' = "send" /\ handler' = "ask"
     \/ /\ handler' = handler
        /\ \/ request = "send" /\ request' = "send"
           \/ request \in {"connect", "send"} /\ request' \in {"error", "cancelled"}
           \/ request = "send" /\ answer = "saved" /\ request' = "ok"
           \/ request = "send" /\ answer = "mismatch" /\ request' = "mismatch"

WriterStep ==
  /\ UNCHANGED <<coreVars, loop, request, handler>>
  /\ writer \in {"open", "run"}
  /\ writer' \in {"open", "run", "ok", "err"}
  /\ writer = "open" => writer' # "ok"
  /\ writer' = "ok" => disk' = Size

LEMMA SendBodyIs == FlowType /\ SendBody => RequestStep
<1> SUFFICES ASSUME FlowType, SendBody PROVE RequestStep
  OBVIOUS
<1> USE DEF clientUnchanged, dartVars, serverVars, targetVars
<1>1. /\ UNCHANGED <<coreVars, loop, writer, disk, handler>>
      /\ request = "send"
  BY DEF SendBody, coreVars
<1>2. Feeds.n \in Nat
  BY ChannelOps DEF FlowType, ChannelType, Feeds
<1>3. request' \in {"send", "error"}
  <2>1. CASE route.to = "put" /\ sent = Size
    BY <2>1 DEF SendBody
  <2>2. CASE Feeds.n > 0 /\ ~(route.to = "put" /\ sent = Size)
    <3>1. Feeds.n # 0
      BY <1>2, <2>2
    <3> QED
      BY <2>2, <3>1 DEF SendBody
  <2>3. CASE Feeds.n = 0 /\ ~(route.to = "put" /\ sent = Size)
    BY <2>3 DEF SendBody, EndRequest
  <2> QED
    BY <1>2, <2>1, <2>2, <2>3
<1> QED
  BY <1>1, <1>3 DEF RequestStep

LEMMA RespondIs == FlowType /\ Respond => RequestStep
<1> SUFFICES ASSUME FlowType, Respond PROVE RequestStep
  OBVIOUS
<1> USE DEF clientUnchanged, dartVars, serverVars, targetVars
<1>1. /\ UNCHANGED <<coreVars, loop, writer, disk, handler>>
      /\ request = "send"
  BY DEF Respond, coreVars
<1>2. CASE answer = "saved"
  <2>1. request' = "ok"
    BY <1>2 DEF Respond, EndRequest
  <2> QED
    BY <1>1, <1>2, <2>1 DEF RequestStep
<1>3. CASE answer # "saved"
  <2>1. route.to \in {"upload", "put"}
    BY <1>1 DEF FlowType, RequestInv, HasRequest
  <2>2. request' = IF route.to = "upload" THEN StatusError ELSE RemoteError
    BY <1>3, <2>1 DEF Respond, EndRequest
  <2>3. request' = "error" \/ (request' = "mismatch" /\ answer = "mismatch")
    BY <2>2 DEF StatusError, RemoteError
  <2> QED
    BY <1>1, <2>3 DEF RequestStep
<1> QED
  BY <1>2, <1>3

LEMMA StepKinds ==
  ASSUME FlowType, [TransferNext]_transferVars
  PROVE  \/ Begin \/ AwaitTransfer \/ QuietStep \/ RequestStep \/ WriterStep
         \/ Forbid \/ Accept \/ ReceiverCancels \/ Forward \/ EndOfBody \/ Conclude
         \/ DropHandler
<1> USE DEF readUnchanged, loopUnchanged, clientUnchanged, serverUnchanged,
            writerUnchanged, sourceVars, dartVars, clientVars, serverVars, targetVars,
            coreVars
<1>1. ASSUME Read \/ SendGet \/ LoseGet \/ UserCancels \/ Collect \/ DeleteSource
      PROVE  QuietStep
  BY <1>1 DEF Read, SendGet, LoseGet, UserCancels, Collect, DeleteSource, QuietStep
<1>2. ASSUME OpenGet \/ NextLocal \/ Add \/ CloseSink PROVE QuietStep
  BY <1>2 DEF OpenGet, NextLocal, Add, CloseSink, Abort, QuietStep
<1>3. ASSUME NextChunk PROVE QuietStep
  BY <1>3 DEF NextChunk, Abort, QuietStep
<1>4. ASSUME Refused \/ FinishAbort PROVE QuietStep
  BY <1>4 DEF Refused, FinishAbort, Abort, QuietStep
<1>5. CASE UNCHANGED transferVars
  BY <1>5 DEF QuietStep, transferVars
<1>6. ASSUME Connect \/ GiveUp PROVE RequestStep
  BY <1>6 DEF Connect, GiveUp, EndRequest, RequestStep
<1>7. ASSUME OpenTarget \/ Write \/ Flush PROVE WriterStep
  BY <1>7 DEF OpenTarget, Write, Flush, EndWriter, Exact, WriterStep
<1> QED
  BY <1>1, <1>2, <1>3, <1>4, <1>5, <1>6, <1>7, SendBodyIs, RespondIs
     DEF TransferNext, Source, Dart, Client, Server, Writer

-----------------------------------------------------------------------------
(* The outcomes. *)

\* The handler still works on a request, so there is no answer; a request
\* ends as it was answered; the next attempt begins after a mismatch, when
\* the writer has ended.
AnswerInv ==
  /\ request = "off" => handler = "off"
  /\ request = "connect" => handler \in {"off", "done"} /\ answer = "none"
  /\ handler \in {"off", "ask", "body", "await"} => answer = "none"
  /\ told = "ok" <=> answer = "saved"
  /\ request = "mismatch" => answer = "mismatch"
  /\ request = "ok" => answer = "saved"
  /\ loop = "begin" => request \in {"off", "mismatch"} /\ WriterEnded
  /\ answer = "mismatch" => WriterEnded

LEMMA NextAnswer == FlowType /\ AnswerInv /\ [TransferNext]_transferVars => AnswerInv'
<1> SUFFICES ASSUME FlowType, AnswerInv, [TransferNext]_transferVars PROVE AnswerInv'
  OBVIOUS
<1>0. /\ AnswerInv /\ RequestInv
      /\ handler \in {"off", "ask", "body", "await", "done"}
      /\ request \in {"off", "connect", "send", "ok", "mismatch", "error", "cancelled"}
  BY DEF FlowType, ScalarType, ServerType, RequestType
<1> USE DEF serverUnchanged, loopUnchanged, clientVars, serverVars, targetVars,
            dartVars, coreVars, WriterEnded
<1>1. ASSUME Begin PROVE AnswerInv'
  <2>1. /\ loop' # "begin" /\ answer' = "none" /\ request' \in {"connect", "off"}
        /\ request' = IF HasRequest THEN "connect" ELSE "off"
        /\ told' = told /\ handler' = handler /\ loop = "begin"
    BY <1>1 DEF Begin
  <2>2. answer # "saved" /\ handler \in {"off", "done"}
    BY <1>0, <2>1 DEF AnswerInv
  <2>3. request' = "off" => handler = "off"
    BY <1>0, <2>1 DEF AnswerInv, RequestInv
  <2> QED
    BY <1>0, <2>1, <2>2, <2>3 DEF AnswerInv
<1>2. ASSUME QuietStep PROVE AnswerInv'
  BY <1>0, <1>2 DEF QuietStep, AnswerInv
<1>3. ASSUME RequestStep PROVE AnswerInv'
  BY <1>0, <1>3 DEF RequestStep, AnswerInv
<1>4. ASSUME WriterStep PROVE AnswerInv'
  BY <1>0, <1>4 DEF WriterStep, AnswerInv
<1>5. ASSUME AwaitTransfer PROVE AnswerInv'
  <2>1. /\ UNCHANGED <<request, handler, answer, told, writer>>
        /\ loop' = "begin" => request = "mismatch"
    BY <1>5 DEF AwaitTransfer
  <2> QED
    BY <1>0, <2>1 DEF AnswerInv
<1>6. ASSUME UNCHANGED <<request, writer, loop>>, handler \in {"ask", "body", "await"},
             handler' \in {"body", "await", "done"},
             handler' # "done" => answer' = "none",
             told' = "ok" <=> answer' = "saved",
             answer' = "mismatch" => WriterEnded
      PROVE  AnswerInv'
  BY <1>0, <1>6 DEF AnswerInv
<1>7. ASSUME Forbid PROVE AnswerInv'
  BY <1>0, <1>6, <1>7 DEF Forbid, AnswerInv
<1>8. ASSUME Accept PROVE AnswerInv'
  <2>1. /\ UNCHANGED <<request, loop>> /\ handler = "ask" /\ answer = "none"
        /\ told' \in {told, "nothing"} /\ told # "ok"
        /\ \/ handler' = "body" /\ answer' = answer
           \/ handler' = "done" /\ answer' = "error"
    BY <1>0, <1>8 DEF Accept, AnswerInv
  <2> QED
    BY <1>0, <2>1 DEF AnswerInv
<1>9. ASSUME ReceiverCancels PROVE AnswerInv'
  BY <1>0, <1>9 DEF ReceiverCancels, AnswerInv
<1>10. ASSUME Forward \/ EndOfBody PROVE AnswerInv'
  <2>1. /\ UNCHANGED <<request, writer, loop, answer, told>> /\ handler = "body"
        /\ handler' \in {"body", "await"}
    BY <1>10 DEF Forward, EndOfBody
  <2> QED
    BY <1>0, <2>1 DEF AnswerInv
<1>11. ASSUME Conclude PROVE AnswerInv'
  <2>1. /\ UNCHANGED <<request, writer, loop>> /\ handler = "await" /\ handler' = "done"
        /\ WriterEnded
        /\ told' = "ok" <=> answer' = "saved"
    BY <1>11 DEF Conclude
  <2> QED
    BY <1>6, <2>1
<1>12. ASSUME DropHandler PROVE AnswerInv'
  <2>1. /\ UNCHANGED <<request, writer, loop, answer>>
        /\ handler \in {"ask", "body", "await"} /\ handler' = "done"
        /\ told' \in {told, "aborted"}
    BY <1>12 DEF DropHandler
  <2> QED
    BY <1>0, <2>1 DEF AnswerInv
<1> QED
  BY <1>1, <1>2, <1>3, <1>4, <1>5, <1>7, <1>8, <1>9, <1>10, <1>11, <1>12, StepKinds

\* Only a whole file makes the writer succeed, only its success saves the
\* file, and only a saved file finishes the loop.
OutcomeInv ==
  /\ writer = "ok" => disk = Size
  /\ answer = "saved" => writer = "ok" /\ ~broke /\ (route.hash => good)
  /\ loop = "finished" => writer = "ok" /\ (HasRequest => answer = "saved")

LEMMA NextOutcome == FlowType /\ AnswerInv /\ OutcomeInv /\ [TransferNext]_transferVars => OutcomeInv'
<1> SUFFICES ASSUME FlowType, AnswerInv, OutcomeInv, [TransferNext]_transferVars PROVE OutcomeInv'
  OBVIOUS
<1>0. OutcomeInv /\ AnswerInv /\ RequestInv
  BY DEF FlowType
<1> USE DEF serverUnchanged, loopUnchanged, clientVars, serverVars, targetVars,
            dartVars, sourceVars, coreVars, HasRequest
<1>1. ASSUME Begin PROVE OutcomeInv'
  <2>1. /\ loop' # "finished" /\ answer' = "none" /\ writer' # "ok"
    BY <1>1 DEF Begin
  <2> QED
    BY <2>1 DEF OutcomeInv
<1>2. ASSUME QuietStep PROVE OutcomeInv'
  BY <1>0, <1>2 DEF QuietStep, OutcomeInv
<1>3. ASSUME RequestStep PROVE OutcomeInv'
  BY <1>0, <1>3 DEF RequestStep, OutcomeInv
<1>4. ASSUME WriterStep PROVE OutcomeInv'
  BY <1>0, <1>4 DEF WriterStep, OutcomeInv
<1>5. ASSUME AwaitTransfer PROVE OutcomeInv'
  <2>1. /\ UNCHANGED <<route, good, request, broke, answer, writer, disk>>
        /\ loop' = "finished" => TransferOk
    BY <1>5 DEF AwaitTransfer
  <2>2. TransferOk => writer = "ok" /\ (HasRequest => answer = "saved")
    BY <1>0 DEF TransferOk, AnswerInv, OutcomeInv
  <2> QED
    BY <1>0, <2>1, <2>2 DEF OutcomeInv
<1>6. ASSUME UNCHANGED <<route, good, loop>>, handler \in {"ask", "body", "await"},
             answer' # "saved", disk' = disk, writer' \in {writer, "open"}
      PROVE  OutcomeInv'
  <2>1. loop # "finished"
    BY <1>0, <1>6 DEF AnswerInv, OutcomeInv, RequestInv
  <2> QED
    BY <1>0, <1>6, <2>1 DEF OutcomeInv
<1>7. ASSUME Forbid \/ Accept \/ Forward \/ EndOfBody \/ DropHandler PROVE OutcomeInv'
  <2>1. /\ UNCHANGED <<route, good, loop>> /\ handler \in {"ask", "body", "await"}
        /\ answer' \in {answer, "forbidden", "error"}
        /\ disk' = disk /\ writer' \in {writer, "open"}
    BY <1>7 DEF Forbid, Accept, Forward, EndOfBody, DropHandler
  <2>2. answer = "none"
    BY <1>0, <2>1 DEF AnswerInv
  <2> QED
    BY <1>6, <2>1, <2>2
<1>8. ASSUME ReceiverCancels PROVE OutcomeInv'
  BY <1>0, <1>8 DEF ReceiverCancels, OutcomeInv
<1>9. ASSUME Conclude PROVE OutcomeInv'
  <2>1. /\ UNCHANGED <<route, good, loop, broke, writer, disk>> /\ handler = "await"
        /\ answer' = "saved" => writer = "ok" /\ ~broke /\ ~(route.hash /\ ~good)
    BY <1>9 DEF Conclude
  <2>2. loop # "finished"
    BY <1>0, <2>1 DEF AnswerInv, OutcomeInv, RequestInv
  <2> QED
    BY <1>0, <2>1, <2>2 DEF OutcomeInv
<1> QED
  BY <1>1, <1>2, <1>3, <1>4, <1>5, <1>7, <1>8, <1>9, StepKinds

-----------------------------------------------------------------------------
(* The attempts. *)

\* The receiver counts an upload it took, the sender one it began; a file
\* that is pending may be taken once more.
AttemptInv ==
  /\ starts <= ReceiverAttempts
  /\ status = "pending" => starts < ReceiverAttempts
  /\ starts <= attempt
  /\ request = "connect" \/ handler = "ask" => starts < attempt
  /\ answer = "mismatch" => status \in {"pending", "gone"} \/ starts >= ReceiverAttempts

LEMMA NextAttempt == FlowType /\ AnswerInv /\ AttemptInv /\ [TransferNext]_transferVars => AttemptInv'
<1> SUFFICES ASSUME FlowType, AnswerInv, AttemptInv, [TransferNext]_transferVars PROVE AttemptInv'
  OBVIOUS
<1>0. /\ AttemptInv /\ AnswerInv /\ attempt \in Nat /\ starts \in Nat
      /\ ReceiverAttempts \in Nat \ {0}
  BY TransferAssumption DEF FlowType, ScalarType, ServerType, DartType
<1> USE DEF serverUnchanged, loopUnchanged, clientVars, serverVars, targetVars,
            dartVars, sourceVars, coreVars
<1>1. ASSUME Begin PROVE AttemptInv'
  <2>1. /\ answer' = "none" /\ attempt' = attempt + 1
        /\ UNCHANGED <<starts, status>>
    BY <1>1 DEF Begin
  <2> QED
    BY <1>0, <2>1 DEF AttemptInv
<1>2. ASSUME QuietStep \/ WriterStep PROVE AttemptInv'
  BY <1>0, <1>2 DEF QuietStep, WriterStep, AttemptInv
<1>3. ASSUME RequestStep PROVE AttemptInv'
  <2>1. /\ UNCHANGED <<attempt, starts, status, answer>>
        /\ request' # "connect" \/ request = "connect"
        /\ handler' = "ask" => handler = "ask" \/ request = "connect"
    BY <1>3 DEF RequestStep
  <2> QED
    BY <1>0, <2>1 DEF AttemptInv
<1>4. ASSUME AwaitTransfer PROVE AttemptInv'
  <2>1. UNCHANGED <<attempt, starts, status, answer, request, handler>>
    BY <1>4 DEF AwaitTransfer
  <2> QED
    BY <1>0, <2>1 DEF AttemptInv
<1>5. ASSUME UNCHANGED <<attempt, request, starts>>, handler' # "ask" \/ handler' = handler,
             status' # "pending" \/ status' = status, 
             answer' = answer \/ answer' # "mismatch", answer # "mismatch" \/ status' = "gone"
      PROVE  AttemptInv'
  BY <1>0, <1>5 DEF AttemptInv
<1>6. ASSUME Forbid \/ Forward \/ EndOfBody \/ DropHandler PROVE AttemptInv'
  <2>1. /\ UNCHANGED <<attempt, request, starts>> /\ handler' # "ask"
        /\ handler \in {"ask", "body", "await"}
        /\ answer' = answer \/ answer' # "mismatch"
        /\ status' # "pending" \/ status' = status
    BY <1>6 DEF Forbid, Forward, EndOfBody, DropHandler, TransferStatus
  <2>2. answer # "mismatch"
    BY <1>0, <2>1 DEF AnswerInv
  <2> QED
    BY <1>5, <2>1, <2>2
<1>7. ASSUME ReceiverCancels PROVE AttemptInv'
  BY <1>0, <1>7 DEF ReceiverCancels, AttemptInv
<1>8. ASSUME Accept PROVE AttemptInv'
  <2>1. /\ UNCHANGED <<attempt, request>> /\ handler = "ask"
        /\ handler' \in {"body", "done"} /\ answer' \in {answer, "error"}
        /\ Takes /\ starts' = Started
        /\ status' \in {TransferStatus("inProgress"), TransferStatus("failed")}
    BY <1>8 DEF Accept
  <2>2. /\ starts < attempt /\ request # "connect" /\ answer = "none"
    BY <1>0, <2>1 DEF AttemptInv, AnswerInv
  <2>3. CASE route.to = "upload"
    <3>1. /\ starts' = starts + 1 /\ status = "pending" /\ status' # "pending"
      BY <2>1, <2>3 DEF Takes, Started, TransferStatus
    <3> QED
      BY <1>0, <2>1, <2>2, <3>1 DEF AttemptInv
  <2>4. CASE route.to # "upload"
    <3>1. starts' = starts /\ status' = status
      BY <1>0, <2>1, <2>4 DEF Started, TransferStatus
    <3> QED
      BY <1>0, <2>1, <2>2, <3>1 DEF AttemptInv
  <2> QED
    BY <2>3, <2>4
<1>9. ASSUME Conclude PROVE AttemptInv'
  <2>1. /\ UNCHANGED <<route, attempt, request, starts>> /\ handler = "await"
        /\ handler' = "done"
        /\ answer' = "mismatch" => route.hash
        /\ Finalize(answer')
    BY <1>9 DEF Conclude
  <2>2. request # "connect"
    BY <1>0, <2>1 DEF AnswerInv
  <2>3. answer' = "mismatch" => route.to = "upload"
    BY <2>1, RouteFacts DEF FlowType, ScalarType, DartType
  <2>4. status' = "pending" => starts < ReceiverAttempts
    BY <1>0, <2>1 DEF Finalize, TransferStatus, AttemptInv
  <2>5. answer' = "mismatch" => status' \in {"pending", "gone"} \/ ~(starts < ReceiverAttempts)
    BY <2>1, <2>3 DEF Finalize, TransferStatus
  <2> QED
    BY <1>0, <2>1, <2>2, <2>4, <2>5 DEF AttemptInv
<1> QED
  BY <1>1, <1>2, <1>3, <1>4, <1>6, <1>7, <1>8, <1>9, StepKinds

\* An attempt that is about to be made is welcome, unless the session is gone.
RetryInv ==
  /\ loop = "begin" \/ request = "connect" \/ handler = "ask" => status \in {"pending", "gone"}
  /\ answer = "forbidden" => status = "gone"

LEMMA NextRetry ==
  ASSUME SenderAttempts <= ReceiverAttempts
  PROVE  FlowType /\ AnswerInv /\ AttemptInv /\ RetryInv /\ [TransferNext]_transferVars => RetryInv'
<1> SUFFICES ASSUME FlowType, AnswerInv, AttemptInv, RetryInv, [TransferNext]_transferVars PROVE RetryInv'
  OBVIOUS
<1>0. RetryInv /\ AnswerInv
  OBVIOUS
<1> USE DEF serverUnchanged, loopUnchanged, clientVars, serverVars, targetVars,
            dartVars, sourceVars, coreVars
<1>1. ASSUME Begin PROVE RetryInv'
  <2>1. /\ answer' = "none" /\ loop = "begin" /\ status' = status
    BY <1>1 DEF Begin
  <2> QED
    BY <1>0, <2>1 DEF RetryInv
<1>2. ASSUME QuietStep \/ WriterStep PROVE RetryInv'
  BY <1>0, <1>2 DEF QuietStep, WriterStep, RetryInv
<1>3. ASSUME RequestStep PROVE RetryInv'
  <2>1. /\ UNCHANGED <<loop, status, answer>>
        /\ request' # "connect" \/ request = "connect"
        /\ handler' = "ask" => handler = "ask" \/ request = "connect"
    BY <1>3 DEF RequestStep
  <2> QED
    BY <1>0, <2>1 DEF RetryInv
<1>4. ASSUME AwaitTransfer PROVE RetryInv'
  <2>1. /\ UNCHANGED <<status, answer, request, handler>>
        /\ loop' = "begin" => request = "mismatch" /\ attempt < SenderAttempts
    BY <1>4 DEF AwaitTransfer
  <2>2. request = "mismatch" /\ attempt < SenderAttempts => status \in {"pending", "gone"}
    <3> SUFFICES ASSUME request = "mismatch", attempt < SenderAttempts
                 PROVE  status \in {"pending", "gone"}
      OBVIOUS
    <3>1. answer = "mismatch" /\ starts <= attempt
      BY <1>0 DEF AnswerInv, AttemptInv
    <3>2. ~(starts >= ReceiverAttempts)
      BY <3>1, TransferAssumption DEF FlowType, ScalarType, ServerType, DartType
    <3> QED
      BY <3>1, <3>2 DEF AttemptInv
  <2> QED
    BY <1>0, <2>1, <2>2 DEF RetryInv
<1>5. ASSUME Forbid PROVE RetryInv'
  <2>1. handler = "ask" /\ status # "pending" /\ UNCHANGED <<status, request, loop>>
    BY <1>5 DEF Forbid, Takes
  <2>2. status = "gone"
    BY <1>0, <2>1 DEF RetryInv
  <2> QED
    BY <2>1, <2>2 DEF RetryInv
<1>6. ASSUME handler \in {"ask", "body", "await"}, handler' # "ask", answer' # "forbidden",
             UNCHANGED <<request, loop>>
      PROVE  RetryInv'
  <2>1. request # "connect" /\ loop # "begin"
    BY <1>0, <1>6 DEF AnswerInv
  <2> QED
    BY <1>6, <2>1 DEF RetryInv
<1>7. ASSUME Forward PROVE RetryInv'
  <2>1. handler = "body" /\ handler' \in {"body", "await"} /\ answer' = answer
        /\ UNCHANGED <<request, loop>>
    BY <1>7 DEF Forward
  <2> QED
    BY <1>0, <1>6, <2>1 DEF AnswerInv
<1>8. ASSUME Accept \/ EndOfBody \/ DropHandler PROVE RetryInv'
  <2>1. /\ handler \in {"ask", "body", "await"} /\ handler' # "ask"
        /\ answer' \in {answer, "error"} /\ UNCHANGED <<request, loop>>
    BY <1>8 DEF Accept, EndOfBody, DropHandler
  <2> QED
    BY <1>0, <1>6, <2>1 DEF AnswerInv
<1>9. ASSUME Conclude PROVE RetryInv'
  <2>1. /\ handler = "await" /\ handler' = "done" /\ answer' # "forbidden"
        /\ UNCHANGED <<request, loop>>
    BY <1>9 DEF Conclude
  <2> QED
    BY <1>6, <2>1
<1>10. ASSUME ReceiverCancels PROVE RetryInv'
  BY <1>10 DEF ReceiverCancels, RetryInv
<1> QED
  BY <1>1, <1>2, <1>3, <1>4, <1>5, <1>7, <1>8, <1>9, <1>10, StepKinds

-----------------------------------------------------------------------------
(* The chunks on disk. *)

ChunkInHand == IF loop = "push" THEN 1 ELSE 0
Taken == IF route.from = "remote" THEN get.got ELSE Size + 1 - left

\* A local file is measured only when it is closed, but what was written and
\* waits to be was taken from the source, which has one chunk too many at most.
DiskInv ==
  /\ route.to # "local" => disk <= Size
  /\ route.to = "local" =>
       /\ loop = "begin" => disk = 0
       /\ disk + sink.n + ChunkInHand <= Taken

LEMMA NextDisk == FlowType /\ AnswerInv /\ DiskInv /\ [TransferNext]_transferVars => DiskInv'
<1> SUFFICES ASSUME FlowType, AnswerInv, DiskInv, [TransferNext]_transferVars PROVE DiskInv'
  OBVIOUS
<1>0. /\ DiskInv /\ disk \in Nat /\ Size \in Nat /\ sink \in Channels /\ sink.n \in Nat
      /\ left \in 0..Size + 1 /\ get.got \in Nat /\ get.sent \in Nat /\ get.n \in Nat
      /\ RequestInv /\ GetInv /\ route \in Routes
      /\ get \in Gets /\ ChannelCapacity \in Nat \ {0}
  BY ChannelOps, TransferAssumption
     DEF FlowType, ScalarType, TargetType, SourceType, DartType, ChannelType, BodyType, Gets
<1> USE DEF readUnchanged, loopUnchanged, clientUnchanged, serverUnchanged,
            writerUnchanged, sourceVars, dartVars, clientVars, serverVars, targetVars
<1>1. route.to # "upload" /\ route.to # "put" => request = "off"
  BY <1>0 DEF RequestInv, HasRequest
<1>2. Taken \in Int /\ ChunkInHand \in {0, 1}
  BY <1>0 DEF Taken, ChunkInHand
\* What is in hand, in the sink or on disk does not grow.
<1>3. ASSUME route' = route, disk' = disk, loop' = loop \/ loop' \notin {"begin", "push"},
             sink'.n = sink.n, get'.got = get.got, left' = left \/ left' = left - 1
      PROVE  DiskInv'
  <2>1. Taken' = Taken \/ Taken' = Taken + 1
    BY <1>0, <1>3 DEF Taken
  <2>2. ChunkInHand' \in {0, ChunkInHand}
    BY <1>3 DEF ChunkInHand
  <2> QED
    BY <1>0, <1>2, <1>3, <2>1, <2>2 DEF DiskInv
<1>4. ASSUME UNCHANGED <<route, disk, loop, sink, get, left>> PROVE DiskInv'
  BY <1>3, <1>4
<1>5. ASSUME Begin PROVE DiskInv'
  <2>1. /\ route' = route /\ disk' = disk /\ get' = get /\ loop = "begin"
        /\ loop' \in {"await", "open", "pull"} /\ sink' = NewChannel
        /\ left' \in (IF route.from = "bytes" THEN {Size} ELSE 0..Size + 1)
    BY <1>5 DEF Begin
  <2>2. left' \in 0..Size + 1
    <3>1. {Size} \subseteq 0..Size + 1
      BY <1>0
    <3> QED
      BY <2>1, <3>1
  <2>3. Taken' \in Nat
    <3>1. CASE route.from = "remote"
      BY <1>0, <2>1, <3>1 DEF Taken
    <3>2. CASE route.from # "remote"
      <4>1. Taken' = Size + 1 - left'
        BY <2>1, <3>2 DEF Taken
      <4>2. \A m \in 0..Size + 1 : Size + 1 - m \in Nat
        BY <1>0
      <4> QED
        BY <2>2, <4>1, <4>2
    <3> QED
      BY <3>1, <3>2
  <2>4. ChunkInHand' = 0 /\ sink'.n = 0
    <3>1. NewChannel.n = 0
      BY DEF NewChannel
    <3> QED
      BY <2>1, <3>1 DEF ChunkInHand
  <2> QED
    BY <1>0, <2>1, <2>3, <2>4 DEF DiskInv
<1>6. ASSUME Read PROVE DiskInv'
  BY <1>3, <1>6 DEF Read
<1>7. ASSUME SendGet \/ LoseGet PROVE DiskInv'
  <2>1. UNCHANGED <<route, disk, loop, sink, left>> /\ held # "none"
    BY <1>7 DEF SendGet, LoseGet
  <2>2. get'.got = get.got
    <3>1. CASE LoseGet
      BY <1>0, <3>1 DEF LoseGet, Gets
    <3>2. CASE SendGet
      <4>1. get.sent = length \/ (get.sent < length /\ get.sent # length /\ pipe.n > 0)
            \/ (get.sent < length /\ get.sent # length /\ ~(pipe.n > 0) /\ pipe.n = 0)
        <5>1. get.sent <= length /\ length \in Int /\ pipe.n \in Nat
          BY <1>0, ChannelOps DEF GetInv, FlowType, ChannelType, ScalarType, SourceType
        <5> QED
          BY <1>0, <5>1
      <4>2. \/ get' = [get EXCEPT !.end = "clean"]
            \/ get' = [get EXCEPT !.n = @ + 1, !.sent = @ + 1]
            \/ get' = [get EXCEPT !.end = "broken"]
        BY <3>2, <4>1 DEF SendGet
      <4> QED
        BY <1>0, <4>2 DEF Gets
    <3> QED
      BY <1>7, <3>1, <3>2
  <2> QED
    BY <1>3, <2>1, <2>2
<1>8. ASSUME Collect PROVE DiskInv'
  <2>1. UNCHANGED <<route, disk, loop, sink, left>>
    BY <1>8 DEF Collect
  <2>2. get'.got = get.got
    BY <1>0, <1>8 DEF Collect, Gets
  <2> QED
    BY <1>3, <2>1, <2>2
<1>9. Close(sink).n = sink.n /\ Drop(sink).n = sink.n
  BY <1>0, ChannelOps
<1>10. ASSUME OpenGet \/ CloseSink \/ Refused \/ FinishAbort PROVE DiskInv'
  <2>1. /\ UNCHANGED <<route, disk, get, left>> /\ sink' \in {sink, Close(sink)}
        /\ loop' \in {"pull", "aborted", "await", "failed"}
    BY <1>10 DEF OpenGet, CloseSink, Refused, FinishAbort, Abort
  <2> QED
    BY <1>3, <1>9, <2>1
<1>11. ASSUME NextChunk PROVE DiskInv'
  <2>1. /\ UNCHANGED <<route, disk, left>> /\ sink' \in {sink, Close(sink)}
        /\ loop = "pull" /\ route.from = "remote"
        /\ \/ get' = [get EXCEPT !.n = @ - 1, !.got = @ + 1]
           \/ get' = get /\ loop' # "push"
        /\ loop' \in {"push", "close", "aborted"}
    BY <1>11 DEF NextChunk, Abort
  <2>2. get'.got = get.got + 1 \/ (get'.got = get.got /\ loop' # "push")
    BY <1>0, <2>1 DEF Gets
  <2>3. /\ ChunkInHand = 0 /\ ChunkInHand' \in {0, 1}
        /\ Taken = get.got /\ Taken' = get'.got
        /\ loop' # "push" => ChunkInHand' = 0
    BY <2>1 DEF ChunkInHand, Taken
  <2> QED
    BY <1>0, <1>9, <2>1, <2>2, <2>3 DEF DiskInv
<1>12. ASSUME NextLocal PROVE DiskInv'
  <2>1. /\ UNCHANGED <<route, disk, get>> /\ sink' \in {sink, Close(sink)}
        /\ loop = "pull" /\ route.from # "remote"
        /\ \/ left' = left - 1
           \/ left' = left /\ loop' # "push"
        /\ loop' \in {"push", "close", "aborted"}
    BY <1>12 DEF NextLocal, Abort
  <2>2. /\ ChunkInHand = 0 /\ ChunkInHand' \in {0, 1}
        /\ Taken = Size + 1 - left /\ Taken' = Size + 1 - left'
        /\ loop' # "push" => ChunkInHand' = 0
    BY <2>1 DEF ChunkInHand, Taken
  <2> QED
    BY <1>0, <1>9, <2>1, <2>2 DEF DiskInv
<1>13. ASSUME Add PROVE DiskInv'
  <2>1. CASE sink.dead
    BY <1>3, <1>13, <2>1 DEF Add
  <2>2. CASE ~sink.dead
    <3>1. /\ UNCHANGED <<route, disk, get, left>> /\ sink' = Push(sink)
          /\ loop = "push" /\ loop' = "pull"
      BY <1>13, <2>2 DEF Add
    <3>2. sink'.n = sink.n + 1 /\ ChunkInHand = 1 /\ ChunkInHand' = 0 /\ Taken' = Taken
      BY <1>0, <3>1, ChannelOps DEF ChunkInHand, Taken
    <3> QED
      BY <1>0, <1>2, <3>1, <3>2 DEF DiskInv
  <2> QED
    BY <2>1, <2>2
<1>14. ASSUME AwaitTransfer PROVE DiskInv'
  <2>1. UNCHANGED <<route, disk, get, left, sink>>
    BY <1>14 DEF AwaitTransfer
  <2>2. CASE loop' # "begin"
    <3>1. loop' \in {"finished", "failed"}
      BY <1>14, <2>2 DEF AwaitTransfer
    <3> QED
      BY <1>3, <2>1, <3>1
  <2>3. CASE loop' = "begin"
    <3>1. request = "mismatch"
      BY <1>14, <2>3 DEF AwaitTransfer
    <3>2. route.to = "upload"
      BY <1>0, <3>1 DEF RequestInv
    <3> QED
      BY <1>0, <2>1, <3>2 DEF DiskInv
  <2> QED
    BY <2>2, <2>3
<1>15. ASSUME UNCHANGED <<route, disk, loop, get, left>>, request # "off" PROVE DiskInv'
  <2>1. route.to # "local"
    BY <1>0, <1>15 DEF RequestInv, HasRequest
  <2> QED
    BY <1>0, <1>15, <2>1 DEF DiskInv
<1>16. ASSUME Client \/ GiveUp PROVE DiskInv'
  BY <1>15, <1>16 DEF Client, Connect, SendBody, Respond, GiveUp
<1>17. ASSUME Forbid \/ Accept \/ ReceiverCancels \/ Forward \/ EndOfBody \/ Conclude
              \/ DropHandler \/ DeleteSource \/ UserCancels
       PROVE  DiskInv'
  BY <1>4, <1>17 DEF Forbid, Accept, ReceiverCancels, Forward, EndOfBody, Conclude,
                     DropHandler, DeleteSource, UserCancels
<1>18. ASSUME UNCHANGED <<route, disk, loop, get, left>>, sink' \in {sink, Drop(sink)}
       PROVE  DiskInv'
  BY <1>3, <1>9, <1>18
<1>19. ASSUME NEW result, EndWriter(result), UNCHANGED writerUnchanged, disk' = disk
       PROVE  DiskInv'
  <2>1. sink' \in {sink, Drop(sink)}
    BY <1>19 DEF EndWriter, IncomingTo, Incoming
  <2> QED
    BY <1>18, <1>19, <2>1
<1>20. ASSUME OpenTarget PROVE DiskInv'
  <2>1. ASSUME disk' = 0, UNCHANGED <<chunks, sink>> PROVE DiskInv'
    <3>1. UNCHANGED <<route, loop, get, left, sink>>
      BY <1>20, <2>1 DEF OpenTarget
    <3>2. Taken' = Taken /\ ChunkInHand' = ChunkInHand
      BY <3>1 DEF Taken, ChunkInHand
    <3> QED
      BY <1>0, <1>2, <2>1, <3>1, <3>2 DEF DiskInv
  <2> QED
    BY <1>19, <1>20, <2>1 DEF OpenTarget
<1>21. ASSUME Write PROVE DiskInv'
  <2>1. ASSUME MayWrite, IncomingTo(Pop(Incoming)), disk' = disk + 1 PROVE DiskInv'
    <3>1. UNCHANGED <<route, loop, get, left>> /\ Incoming.n > 0
      BY <1>21 DEF Write
    <3>2. CASE route.to = "local"
      <4>1. sink' = Pop(sink) /\ sink.n > 0
        BY <2>1, <3>1, <3>2 DEF IncomingTo, Incoming, HasRequest
      <4>2. sink'.n = sink.n - 1
        BY <1>0, <4>1, ChannelOps
      <4>3. loop # "begin"
        BY <1>21 DEF Write, AnswerInv, WriterEnded
      <4>4. Taken' = Taken /\ ChunkInHand' = ChunkInHand
        BY <3>1 DEF Taken, ChunkInHand
      <4> QED
        BY <1>0, <1>2, <2>1, <3>1, <3>2, <4>2, <4>3, <4>4 DEF DiskInv
    <3>3. CASE route.to # "local"
      BY <1>0, <2>1, <3>1, <3>3 DEF DiskInv, MayWrite
    <3> QED
      BY <3>2, <3>3
  <2> QED
    BY <1>19, <1>21, <2>1 DEF Write
<1>22. ASSUME Flush PROVE DiskInv'
  BY <1>19, <1>22 DEF Flush
<1>23. CASE UNCHANGED transferVars
  BY <1>4, <1>23 DEF transferVars
<1> QED
  BY <1>5, <1>6, <1>7, <1>8, <1>10, <1>11, <1>12, <1>13, <1>14, <1>16, <1>17, <1>20,
     <1>21, <1>22, <1>23 DEF TransferNext, Source, Dart, Server, Writer

-----------------------------------------------------------------------------
(* The theorems. *)

TransferInv == FlowType /\ AnswerInv /\ OutcomeInv /\ AttemptInv /\ DiskInv

LEMMA InitTransfer == TransferInit => TransferInv
<1> SUFFICES ASSUME TransferInit PROVE TransferInv
  OBVIOUS
<1>0. Size \in Nat /\ ReceiverAttempts \in Nat \ {0}
  BY TransferAssumption
<1>1. FlowType
  BY TransferInitType
<1>2. AnswerInv
  BY DEF TransferInit, AnswerInv, WriterEnded
<1>3. OutcomeInv
  BY DEF TransferInit, OutcomeInv
<1>4. AttemptInv
  BY <1>0 DEF TransferInit, AttemptInv
<1>5. DiskInv
  <2>1. disk = 0 /\ sink.n = 0 /\ ChunkInHand = 0
    BY DEF TransferInit, NewChannel, ChunkInHand
  <2>2. get.got = 0 /\ left = 0
    BY DEF TransferInit
  <2>3. Taken \in Nat
    BY <1>0, <2>2 DEF Taken
  <2> QED
    BY <1>0, <2>1, <2>3 DEF DiskInv
<1> QED
  BY <1>1, <1>2, <1>3, <1>4, <1>5 DEF TransferInv

LEMMA NextTransfer == TransferInv /\ [TransferNext]_transferVars => TransferInv'
BY NextFlow, NextAnswer, NextOutcome, NextAttempt, NextDisk DEF TransferInv

LEMMA TransferType == TransferInv => TransferTypeOK
<1> SUFFICES ASSUME TransferInv PROVE TransferTypeOK
  OBVIOUS
<1>0. /\ FlowType /\ AttemptInv /\ DiskInv /\ Size \in Nat /\ ReceiverAttempts \in Nat
      /\ SourceType /\ DartType /\ RequestType /\ ServerType /\ TargetType
      /\ ChannelType /\ BodyType /\ GetInv
  BY TransferAssumption DEF TransferInv, FlowType, ScalarType
<1>1. get \in [sent : 0..Size + 1, got : 0..Size + 1, n : 0..ChannelCapacity, end : BodyEnds]
  <2>1. get.sent \in Nat /\ get.got \in Nat /\ get.n \in Nat /\ length \in 0..Size + 1
    BY <1>0, TransferAssumption DEF BodyType, SourceType
  <2>2. get.got + get.n <= get.sent /\ get.sent <= length
    BY <1>0 DEF GetInv
  <2>3. get.sent \in 0..Size + 1 /\ get.got \in 0..Size + 1
    BY <1>0, <2>1, <2>2
  <2> QED
    BY <1>0, <2>3 DEF BodyType
<1>2. starts \in 0..ReceiverAttempts
  BY <1>0 DEF ServerType, AttemptInv
<1>3. disk \in 0..Size + 1
  <2>1. CASE route.to # "local"
    BY <1>0, <2>1 DEF DiskInv, TargetType
  <2>2. CASE route.to = "local"
    <3>1. sink.n \in Nat /\ ChunkInHand \in Nat
      BY <1>0, ChannelOps DEF ChannelType, ChunkInHand
    <3>2. Taken \in Int /\ Taken <= Size + 1
      <4>1. get.got \in 0..Size + 1 /\ left \in 0..Size + 1
        BY <1>0, <1>1 DEF SourceType
      <4> QED
        BY <1>0, <4>1 DEF Taken
    <3>3. disk + sink.n + ChunkInHand <= Taken /\ disk \in Nat
      BY <1>0, <2>2 DEF DiskInv, TargetType
    <3> QED
      BY <1>0, <3>1, <3>2, <3>3
  <2> QED
    BY <2>1, <2>2
<1>4. body \in [n : 0..ChannelCapacity, end : BodyEnds]
  BY <1>0 DEF BodyType
<1> QED
  BY <1>0, <1>1, <1>2, <1>3, <1>4
     DEF TransferTypeOK, SourceType, DartType, RequestType, ServerType, TargetType, ChannelType

\* Nobody takes a file for complete that is not: the application is told that
\* it was saved, and the loop that sent it finishes, only when the writer
\* wrote and flushed all of it, the body ended properly and the checksum is
\* right, whichever stage fails, is cut off or cancelled at whatever moment.
THEOREM NothingPartial == TransferSpec => []WholeFiles
<1>1. TransferInit => TransferInv
  BY InitTransfer
<1>2. TransferInv /\ [TransferNext]_transferVars => TransferInv'
  BY NextTransfer
<1>3. TransferInv => WholeFiles
  <2> SUFFICES ASSUME TransferInv PROVE WholeFiles
    OBVIOUS
  <2>1. TransferTypeOK
    BY TransferType
  <2>2. SavedIsWhole
    BY DEF TransferInv, AnswerInv, OutcomeInv, SavedIsWhole, Whole
  <2>3. FinishedIsWhole
    <3>1. loop = "finished" => writer = "ok" /\ disk = Size /\ (HasRequest => answer = "saved")
      BY DEF TransferInv, OutcomeInv
    <3>2. answer = "saved" => told = "ok" /\ (route.hash => good)
      BY DEF TransferInv, OutcomeInv, AnswerInv
    <3>3. ~HasRequest => ~route.hash
      BY RouteFacts DEF TransferInv, FlowType, ScalarType, DartType, HasRequest
    <3> QED
      BY <3>1, <3>2, <3>3 DEF FinishedIsWhole, Whole
  <2> QED
    BY <2>1, <2>2, <2>3 DEF WholeFiles
<1> QED
  BY <1>1, <1>2, <1>3, PTL DEF TransferSpec

\* When the sender makes no more attempts than the receiver allows, as with
\* the constants of upload_isolate.dart and v2.rs, the receiver refuses a
\* repeated upload only if its session is gone; and no attempt begins, and no
\* target is removed, while a writer is at work on it.
THEOREM Retries == SenderAttempts <= ReceiverAttempts => (TransferSpec => RetriesSafe)
<1> SUFFICES ASSUME SenderAttempts <= ReceiverAttempts PROVE TransferSpec => RetriesSafe
  OBVIOUS
<1>1. TransferInit => TransferInv /\ RetryInv
  <2>1. TransferInit => RetryInv
    BY DEF TransferInit, RetryInv
  <2> QED
    BY <2>1, InitTransfer
<1>2. TransferInv /\ RetryInv /\ [TransferNext]_transferVars => (TransferInv /\ RetryInv)'
  <2>1. TransferInv /\ RetryInv /\ [TransferNext]_transferVars => RetryInv'
    BY NextRetry DEF TransferInv
  <2> QED
    BY <2>1, NextTransfer
<1>3. RetryInv => RetriesWelcome
  BY DEF RetryInv, RetriesWelcome
<1>4. TransferInv /\ [TransferNext]_transferVars
        => [ /\ attempt' # attempt => WriterEnded
             /\ (removed' # removed /\ removed' = "target") => WriterEnded ]_transferVars
  <2> SUFFICES ASSUME TransferInv, [TransferNext]_transferVars
               PROVE  /\ attempt' # attempt => WriterEnded
                      /\ (removed' # removed /\ removed' = "target") => WriterEnded
    OBVIOUS
  <2>0. FlowType /\ AnswerInv
    BY DEF TransferInv
  <2> USE DEF readUnchanged, loopUnchanged, clientUnchanged, serverUnchanged,
              writerUnchanged, sourceVars, dartVars, clientVars, serverVars, targetVars
  <2>1. ASSUME attempt' # attempt PROVE WriterEnded
    <3>1. loop = "begin"
      BY <2>0, <2>1, StepKinds
         DEF Begin, AwaitTransfer, QuietStep, RequestStep, WriterStep, coreVars, Forbid,
             Accept, ReceiverCancels, Forward, EndOfBody, Conclude, DropHandler
    <3> QED
      BY <2>0, <3>1 DEF AnswerInv
  <2>2. ASSUME removed' # removed, removed' = "target" PROVE WriterEnded
    <3>1. FinishAbort \/ AwaitTransfer
      BY <2>2 DEF TransferNext, Source, Dart, Client, Server, Writer, Begin, Read, SendGet, LoseGet,
                  OpenGet, NextChunk, NextLocal, Add, CloseSink, Refused, DeleteSource,
                  UserCancels, Collect, Connect, SendBody, Respond, GiveUp, Forbid, Accept,
                  ReceiverCancels, Forward, EndOfBody, Conclude, DropHandler, OpenTarget,
                  Write, Flush, transferVars
    <3>2. route.to = "saf" /\ TransferEnded
      BY <2>2, <3>1 DEF FinishAbort, AwaitTransfer
    <3> QED
      BY <3>2 DEF TransferEnded, HasRequest
  <2> QED
    BY <2>1, <2>2
<1> QED
  BY <1>1, <1>2, <1>3, <1>4, PTL DEF TransferSpec, RetriesSafe, OneWriter
=============================================================================
