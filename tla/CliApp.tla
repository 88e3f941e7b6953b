-------------------------------- MODULE CliApp --------------------------------
(***************************************************************************)
(* The command line program: one loop that handles keys, events of its     *)
(* HTTP server, results of its tasks and discovered devices, one at a      *)
(* time, and the tasks it has started.                                     *)
(*                                                                         *)
(* The server is here as the program sees it: one upload session at a time *)
(* (UploadSession has its details), whose handlers send events and wait    *)
(* for answers.  It is stopped and started again to share a link.          *)
(***************************************************************************)
EXTENDS Integers, Sequences, FiniteSets

CONSTANTS
    Devices,    \* fingerprints of the other devices
    Addresses,  \* where they are reachable; numbers above 1
    MaxSlot,    \* hotkeys: nine
    Attempts,   \* MAX_UPLOAD_ATTEMPTS of the server
    EventPlaces,    \* places of the discovery events' channel: 16
    Tree, Parent, Queries,  \* what the picker finds, see CliPicker
    Worlds      \* what may happen, see World

\* What a life of the program may meet.  requests arrive in this order: from
\* the device whose certificate would prove it, with the fingerprint their
\* payload claims.
World(w) ==
    /\ w.preselected \in BOOLEAN                \* files given with --file
    /\ w.requests \in Seq([from : Devices, claims : Devices, message : BOOLEAN, files : Nat])
    /\ w.paired \in [Devices -> {0, 1} \cup Addresses]  \* paired-v2.json at the start
    /\ w.seen \in Nat /\ w.sends \in Nat        \* confirmations, sends
    /\ w.presses \in Nat /\ w.lives \in Nat     \* keys pressed, runs
    /\ w.hotkeys \subseteq 1..MaxSlot
    /\ w.keys \subseteq STRING /\ w.faults \subseteq STRING
    /\ w.dir \in DOMAIN Tree                    \* where a picker opens

ASSUME ConstantsAssumption ==
    /\ Addresses \subseteq Nat \ {0, 1}
    /\ MaxSlot \in Nat /\ Attempts \in Nat \ {0} /\ EventPlaces \in Nat
    /\ \A w \in Worlds : World(w)

VARIABLES
    world,      \* one of Worlds
    left,       \* what remains of its bounds
    run,        \* whether the program runs
    loop,       \* what its loop awaits: events, or a restart of the server
    ui,         \* suspended or not, the screen in use, prompts
    chord,      \* chord_w
    web,        \* the web link mode
    modal,      \* the picker or the device list
    pending,    \* the request that waits for Y/N/P
    receive,    \* the receive session
    send,       \* the send state and its SendCancel
    task,       \* the send task
    peer,       \* the session of the send at the receiver
    server,     \* the server: whether it listens, its mode and session slot
    ending,     \* events of requests and tasks that have freed the slot
    serverRx,   \* its events
    asking,     \* upload handlers about to send FileUpload
    writes,     \* uploads that are being written
    results,    \* ReceiveFileResult events
    sendRx,     \* events of the send task
    store,      \* the discovery store: where a device was confirmed last
    adding,     \* device_confirmed tasks
    discoveryRx, slots,
    missed,     \* devices with an event that found the channel full
    file, paired, identity, device, made, unsaved,  \* see CliStorage
    cancels,    \* cancel_v2_session calls of spawned tasks
    accepted,   \* sessions that were accepted, and how
    lost,       \* sessions that ended without a SessionEnd event
    unaware     \* a receiver that was not told that the send ended

storage == INSTANCE CliStorage
pick == INSTANCE CliPicker

netVars == <<server, ending, serverRx, asking, writes, results, cancels, lost>>
sendVars == <<send, task, peer, sendRx, unaware>>
findVars == <<store, adding, discoveryRx, slots, missed>>
diskVars == <<file, paired, identity, device, made, unsaved>>
appVars == <<chord, web, modal, pending, receive, accepted>>
vars == <<world, left, run, loop, ui, appVars, netVars, sendVars, findVars, diskVars>>

None == [id |-> 0]
NoSend == [n |-> 0, sid |-> FALSE, token |-> FALSE, byPeer |-> FALSE]
NoModal == [kind |-> "none"]
Idle == [stage |-> "idle", mode |-> "tls"]
Screen == [suspended |-> FALSE, alt |-> FALSE, buffered |-> 0, shown |-> 0,
           stray |-> FALSE, over |-> 0, gone |-> 0]
Off == [up |-> FALSE, stop |-> FALSE, mode |-> "tls", slot |-> None]

Init ==
    /\ world \in Worlds
    /\ left = [keys |-> world.presses, sends |-> world.sends, seen |-> world.seen,
               lives |-> world.lives, came |-> 0]
    /\ run = "off" /\ loop = Idle
    /\ ui = Screen
    /\ chord = FALSE /\ web = "off" /\ modal = NoModal
    /\ pending = None /\ receive = None
    /\ send = NoSend /\ task = "none" /\ peer = "none" /\ unaware = FALSE
    /\ server = Off /\ ending = {}
    /\ serverRx = <<>> /\ asking = {} /\ writes = {} /\ results = {}
    /\ sendRx = <<>>
    /\ store = [d \in Devices |-> 0] /\ adding = {} /\ discoveryRx = <<>>
    /\ slots = [d \in {} |-> 0] /\ missed = {}
    /\ storage!Install(world.paired)
    /\ cancels = {} /\ accepted = {} /\ lost = {}

-----------------------------------------------------------------------------
(* The user interface.                                                     *)

Faulty(f) == f \in world.faults
Ready == run = "on" /\ loop = Idle

\* Ui::log of a prompt: buffered while a modal owns the screen; otherwise it
\* goes to the screen in use, which may be a stray alternate one.
Prompt(u, id) ==
    IF u.suspended THEN [u EXCEPT !.buffered = id]
    ELSE IF u.alt THEN [u EXCEPT !.over = id]
    ELSE [u EXCEPT !.shown = id]

\* What was written on a stray screen is gone with it.
Lost(u) == IF u.over = 0 THEN u.gone ELSE u.over
OnAlternate(u) == [u EXCEPT !.alt = TRUE, !.over = 0, !.gone = Lost(u)]
Suspend(u) == [OnAlternate(u) EXCEPT !.suspended = TRUE, !.stray = FALSE]

\* The alternate screen was entered, then Terminal::new failed: nothing is
\* suspended, and nothing leaves the screen but the next modal.
Stray(u) == [OnAlternate(u) EXCEPT !.stray = TRUE]

\* Ui::resume flushes what was buffered; close left the alternate screen.
Resume(u) ==
    [u EXCEPT !.suspended = FALSE, !.alt = FALSE, !.buffered = 0,
              !.shown = IF u.buffered = 0 THEN u.shown ELSE u.buffered]

CloseModal == modal' = NoModal /\ ui' = IF modal = NoModal THEN ui ELSE Resume(ui)
KeepModal == UNCHANGED <<modal, ui>>
OpenFails == Faulty("screen") /\ UNCHANGED modal /\ ui' \in {ui, Stray(ui)}

Spend(key) ==
    /\ left.keys > 0 /\ key \in world.keys
    /\ left' = [left EXCEPT !.keys = @ - 1]

Quit == run' = "quit"

\* Slots::get and the rows of the device list: paired ones first.
SlotOf(d) == IF d \in DOMAIN slots THEN slots[d] ELSE 0
Row(d, isPaired) == [dev |-> d, online |-> store[d] # 0, paired |-> isPaired]
DeviceRowsOf(mem) ==
    pick!SetToSeq({Row(d, TRUE) : d \in {x \in Devices : mem[x] # 0}})
    \o pick!SetToSeq({Row(d, FALSE) : d \in {x \in Devices : mem[x] = 0 /\ store[x] # 0}})

ListModal(rows) == [kind |-> "list", list |-> pick!OpenList(rows)]
PickerModal(target) == [kind |-> "picker", picker |-> pick!ShowPicker(target, world.dir)]

\* open_device_list, with the pairings in memory.
OpenDeviceList(mem) ==
    \/ modal' = ListModal(DeviceRowsOf(mem)) /\ ui' = Suspend(ui)
    \/ OpenFails

\* open_picker, also from the device list, whose screen it takes over: only
\* then a failure leaves the screen.
OpenPicker(target) ==
    IF target # "share" /\ send # NoSend
    THEN CloseModal
    ELSE \/ modal' = PickerModal(target) /\ ui' = Suspend(ui)
         \/ IF modal = NoModal THEN OpenFails ELSE Faulty("screen") /\ CloseModal

-----------------------------------------------------------------------------
(* The server's session slot, as the program's answers reach it.           *)

Request(id) == world.requests[id]
Files(id) == 1..Request(id).files
Waits(id) == server.slot.id = id /\ server.slot.phase = "waiting" /\ server.slot.decision = "none"

\* decision_tx.send: an error when the request has ended.
Decide(id, decision) ==
    IF Waits(id) THEN server' = [server EXCEPT !.slot.decision = decision] ELSE UNCHANGED server

NewSession(id) ==
    [id |-> id, busy |-> {}, finished |-> 0, failed |-> 0, ended |-> "no"]
Remember(id, how) == accepted' = accepted \cup {[id |-> id, how |-> how]}

\* Broken variant: the session is tracked although the request has died.
AcceptAllBlindly(id, how) ==
    /\ Decide(id, "accept") /\ receive' = NewSession(id)
    /\ IF Waits(id) THEN Remember(id, how) ELSE UNCHANGED accepted
\* Accepts all files; a session only if the decision arrived.
AcceptAll(id, how) ==
    /\ Decide(id, "accept")
    /\ IF Waits(id) THEN receive' = NewSession(id) /\ Remember(id, how)
                    ELSE UNCHANGED <<receive, accepted>>

\* Who sent a request: the device of its verified certificate, or, when the
\* server runs without TLS, whoever the payload claims.
Sender(e) == IF e.cert THEN Request(e.id).from ELSE Request(e.id).claims

\* PrepareUpload arrived.  An older request that still waited here is dead.
\* device_confirmed always takes the claim.
HandlePrepare(e) ==
    LET d == Sender(e)
    IN  /\ adding' = adding \cup {Request(e.id).claims}
        /\ CASE Request(e.id).message ->
                  Decide(e.id, "empty") /\ UNCHANGED <<pending, receive, accepted, ui>>
             [] ~Request(e.id).message /\ storage!Paired(d) ->
                  AcceptAll(e.id, IF e.cert THEN "paired" ELSE "claimed") /\ UNCHANGED <<pending, ui>>
             [] OTHER ->
                  /\ pending' = [id |-> e.id, as |-> d] /\ ui' = Prompt(ui, e.id)
                  /\ UNCHANGED <<server, receive, accepted>>
        /\ UNCHANGED <<asking, writes, results>>

\* handle_file_upload: answers where to write, or drops the responder.
HandleUpload(up) ==
    LET awaited == server.slot.id = up.id /\ server.slot.phase = "active"
                   /\ server.slot.files[up.f] = "busy"
    IN  /\ IF receive.id = up.id
           THEN /\ receive' = [receive EXCEPT !.busy = @ \cup {up.f}]
                /\ IF awaited THEN writes' = writes \cup {up} /\ UNCHANGED results
                              ELSE results' = results \cup {[up |-> up, ok |-> FALSE]}
                                   /\ UNCHANGED writes
                /\ UNCHANGED server
           ELSE /\ IF awaited THEN server' = [server EXCEPT !.slot.files[up.f] = "refused"]
                              ELSE UNCHANGED server
                /\ UNCHANGED <<receive, writes, results>>
        /\ UNCHANGED <<pending, accepted, ui, adding, asking>>

\* finish_receive_if_done: once it ended and no result is outstanding.
Summarise(r) == IF r.ended # "no" /\ r.busy = {} THEN None ELSE r

HandleSessionEnd(id, reason) ==
    /\ receive' = IF receive.id = id THEN Summarise([receive EXCEPT !.ended = reason])
                                     ELSE receive
    /\ UNCHANGED <<pending, accepted, ui, adding, server, asking, writes, results>>

HandleAborted(id) ==
    /\ pending' = IF pending.id = id THEN None ELSE pending
    /\ UNCHANGED <<receive, accepted, ui, adding, server, asking, writes, results>>

\* CancelReceived: the session and the address must be those of the send.
HandleCancelReceived(n, host) ==
    IF send # NoSend /\ send.sid /\ send.n = n /\ host
    THEN send' = [send EXCEPT !.byPeer = TRUE, !.token = TRUE]
    ELSE UNCHANGED send

HandleServerEvent ==
    /\ Ready /\ serverRx # <<>>
    /\ serverRx' = Tail(serverRx)
    /\ LET e == Head(serverRx)
       IN  IF e.kind = "cancel"
           THEN /\ HandleCancelReceived(e.n, e.host)
                /\ UNCHANGED <<pending, receive, accepted, ui, adding, server, asking, writes, results>>
           ELSE /\ CASE e.kind = "prepare" -> HandlePrepare(e)
                     [] e.kind = "upload" -> HandleUpload(e.up)
                     [] e.kind = "end" -> HandleSessionEnd(e.id, e.reason)
                     [] e.kind = "aborted" -> HandleAborted(e.id)
                /\ UNCHANGED send
    /\ UNCHANGED <<world, left, run, loop, chord, web, modal, ending, cancels, lost,
                   task, peer, sendRx, unaware, store, discoveryRx, slots, missed, diskVars>>

\* receive_file_result: results of another session are dropped.
ReceiveFileResult ==
    /\ Ready
    /\ \E r \in results :
        /\ results' = results \ {r}
        /\ receive' = IF receive.id # r.up.id THEN receive
                      ELSE Summarise([receive EXCEPT !.busy = @ \ {r.up.f},
                                          !.finished = @ + (IF r.ok THEN 1 ELSE 0),
                                          !.failed = @ + (IF r.ok THEN 0 ELSE 1)])
    /\ UNCHANGED <<world, left, run, loop, ui, chord, web, modal, pending, accepted,
                   server, ending, serverRx, asking, writes, cancels, lost, sendVars, findVars, diskVars>>

-----------------------------------------------------------------------------
(* The tasks and handlers of the server.                                   *)

\* Of a session slot: the state after one file is final.  A "stuck" file is
\* in progress with no handler left to finish it.
Unfinished == {"todo", "busy", "refused", "stuck"}
Finalised(slot, f, status) ==
    LET s == [slot EXCEPT !.files[f] = status]
    IN  IF \E g \in DOMAIN s.files : s.files[g] \in Unfinished THEN s ELSE None

\* The slot is freed under the lock; the event is sent after, by a request,
\* which may be dropped before it is, or by a task.
Owes(by, event) == [by |-> by, event |-> event]
Ended(id, reason) == [kind |-> "end", id |-> id, reason |-> reason]
Aborted(id) == [kind |-> "aborted", id |-> id]
Finalise(f, status, by) ==
    /\ server' = [server EXCEPT !.slot = Finalised(@, f, status)]
    /\ ending' = IF server'.slot = None
                 THEN ending \cup {Owes(by, Ended(server.slot.id, "finished"))} ELSE ending

\* UploadGuard::finish, by a request that may be dropped at the lock, after
\* it has disarmed the guard; or the guard's own task.
Finish(f, status, by) ==
    \/ Finalise(f, status, by)
    \/ /\ Faulty("drop") /\ by = "request"
       /\ server' = [server EXCEPT !.slot.files[f] = "stuck"] /\ UNCHANGED ending

ServerOnly == UNCHANGED <<world, run, loop, ui, appVars, sendVars, findVars, diskVars>>
Running == run = "on" /\ server.up

\* A sender asks; while another session has the slot it is refused.
Arrive ==
    /\ Running /\ server.slot = None
    /\ left.came < Len(world.requests)
    /\ LET id == left.came + 1
       IN  /\ left' = [left EXCEPT !.came = id]
           /\ server' = [server EXCEPT !.slot = [id |-> id, phase |-> "waiting", decision |-> "none",
                             files |-> [f \in Files(id) |-> "todo"], tries |-> [f \in Files(id) |-> 0]]]
           /\ serverRx' = Append(serverRx, [kind |-> "prepare", id |-> id,
                                            cert |-> server.mode = "tls"])
    /\ UNCHANGED <<ending, asking, writes, results, cancels, lost>> /\ ServerOnly

\* The handler reads the decision, and frees the slot or activates the session.
ReadDecision ==
    /\ Running /\ server.slot # None
    /\ server.slot.phase = "waiting" /\ server.slot.decision # "none"
    /\ server' = IF server.slot.decision = "accept"
                 THEN [server EXCEPT !.slot.phase = "active"]
                 ELSE [server EXCEPT !.slot = None]
    /\ UNCHANGED <<left, ending, serverRx, asking, writes, results, cancels, lost>> /\ ServerOnly

\* The sender cancels or vanishes while its request waits; the decision may
\* have been sent, and is then never read.
SenderAborts ==
    /\ Running /\ server.slot # None /\ server.slot.phase = "waiting"
    /\ server' = [server EXCEPT !.slot = None]
    /\ ending' = ending \cup {Owes("task", Aborted(server.slot.id))}
    /\ lost' = lost \cup (IF server.slot.decision = "accept" THEN {server.slot.id} ELSE {})
    /\ UNCHANGED <<left, serverRx, asking, writes, results, cancels>> /\ ServerOnly

\* The sender cancels its session; uploads that run find out by themselves.
SenderCancels ==
    /\ Running /\ server.slot # None /\ server.slot.phase = "active"
    /\ Faulty("cancel")
    /\ server' = [server EXCEPT !.slot = None]
    /\ ending' = ending \cup {Owes("request", Ended(server.slot.id, "cancelled"))}
    /\ UNCHANGED <<left, serverRx, asking, writes, results, cancels, lost>> /\ ServerOnly

\* The event of a slot that was freed; other events may have overtaken it.
SendEnding ==
    /\ run = "on"
    /\ \E e \in ending :
        /\ ending' = ending \ {e}
        /\ \/ serverRx' = Append(serverRx, e.event) /\ UNCHANGED lost
           \/ /\ Faulty("drop") /\ e.by = "request"
              /\ lost' = lost \cup {e.event.id} /\ UNCHANGED serverRx
    /\ UNCHANGED <<left, server, asking, writes, results, cancels>> /\ ServerOnly

\* An upload begins: the file is marked under the lock, the event sent after.
StartUpload ==
    /\ Running /\ server.slot # None /\ server.slot.phase = "active"
    /\ \E f \in DOMAIN server.slot.files :
        /\ server.slot.files[f] = "todo" /\ server.slot.tries[f] < Attempts
        /\ server' = [server EXCEPT !.slot.files[f] = "busy", !.slot.tries[f] = @ + 1]
        /\ asking' = asking \cup {[id |-> server.slot.id, f |-> f, try |-> server.slot.tries[f] + 1]}
    /\ UNCHANGED <<left, ending, serverRx, writes, results, cancels, lost>> /\ ServerOnly

AskTarget ==
    /\ Running
    /\ \E up \in asking :
        /\ asking' = asking \ {up}
        /\ serverRx' = Append(serverRx, [kind |-> "upload", up |-> up])
    /\ UNCHANGED <<left, server, ending, writes, results, cancels, lost>> /\ ServerOnly

\* A request is dropped before it has its answer; the guard's task finalises.
DropUpload ==
    /\ Running /\ Faulty("drop") /\ server.slot # None /\ server.slot.phase = "active"
    /\ \E up \in asking \cup {e.up : e \in {x \in {serverRx[i] : i \in DOMAIN serverRx} :
                                          x.kind = "upload"}} :
        /\ up.id = server.slot.id /\ server.slot.files[up.f] = "busy"
        /\ asking' = asking \ {up}
        /\ Finalise(up.f, "failed", "task")
    /\ UNCHANGED <<left, serverRx, writes, results, cancels, lost>> /\ ServerOnly

\* An upload ended: the result is sent, then the file is finalised; of a
\* request that was dropped, by the guard's task.
FinishWrite ==
    /\ Running
    /\ \E up \in writes, outcome \in {"ok", "failed", "mismatch"}, by \in {"request", "task"} :
        /\ outcome # "ok" => Faulty(outcome)
        /\ by = "task" => outcome = "failed"
        /\ writes' = writes \ {up}
        /\ results' = results \cup {[up |-> up, ok |-> outcome = "ok"]}
        /\ IF server.slot.id = up.id
           THEN Finish(up.f, IF outcome = "mismatch" /\ up.try < Attempts THEN "todo" ELSE outcome, by)
           ELSE UNCHANGED <<server, ending>>
    /\ UNCHANGED <<left, serverRx, asking, cancels, lost>> /\ ServerOnly

\* The responder was dropped: the request fails and so does the file.
FailUpload ==
    /\ Running /\ server.slot # None
    /\ \E f \in DOMAIN server.slot.files, by \in {"request", "task"} :
        /\ server.slot.files[f] = "refused"
        /\ by = "task" => Faulty("drop")
        /\ Finish(f, "failed", by)
    /\ UNCHANGED <<left, serverRx, asking, writes, results, cancels, lost>> /\ ServerOnly

\* cancel_v2_session sends no event.
CancelSession ==
    /\ run = "on"
    /\ \E id \in cancels :
        /\ cancels' = cancels \ {id}
        /\ server' = IF server.slot.id = id /\ server.slot.phase = "active"
                     THEN [server EXCEPT !.slot = None] ELSE server
        /\ lost' = lost \cup (IF server.slot.id = id /\ server.slot.phase = "waiting"
                              THEN {id} ELSE {})
    /\ UNCHANGED <<left, ending, serverRx, asking, writes, results>> /\ ServerOnly

\* The stop signal drops all connections: requests that waited are aborted,
\* uploads that ran fail, and a session with a file to come is forgotten, as
\* is the end that a request has not sent yet.
ServerStops ==
    /\ run = "on" /\ server.up /\ server.stop
    /\ LET s == server.slot
           active == s # None /\ s.phase = "active"
           done == active /\ \A f \in DOMAIN s.files : s.files[f] \notin {"todo", "stuck"}
           dropped == {e \in ending : e.by = "request"}
       IN  /\ ending' = (ending \ dropped) \cup
                 (IF s # None /\ ~active THEN {Owes("task", Aborted(s.id))}
                  ELSE IF done THEN {Owes("task", Ended(s.id, "finished"))}
                  ELSE {})
           /\ lost' = lost \cup {e.event.id : e \in dropped}
                          \cup (IF s # None /\ ~done THEN {s.id} ELSE {})
    /\ server' = [server EXCEPT !.up = FALSE, !.stop = FALSE, !.slot = None]
    /\ asking' = {} /\ writes' = {}
    /\ results' = results \cup {[up |-> up, ok |-> FALSE] : up \in writes}
    /\ UNCHANGED <<left, serverRx, cancels>> /\ ServerOnly

ServerStep ==
    \/ Arrive \/ ReadDecision \/ SenderAborts \/ SenderCancels \/ SendEnding \/ StartUpload
    \/ AskTarget \/ DropUpload \/ FinishWrite \/ FailUpload \/ CancelSession \/ ServerStops

-----------------------------------------------------------------------------
(* Sending.                                                                *)

\* collect_files skips what cannot be read any more.
Readable == {TRUE, ~Faulty("unreadable")}

\* start_send: one send at a time, to a device with an address, of files
\* that can still be read.
BeginSend ==
    /\ left' = [left EXCEPT !.sends = @ - 1, !.keys = @ - 1]
    /\ send' = [n |-> left.sends, sid |-> FALSE, token |-> FALSE, byPeer |-> FALSE]
    /\ task' = "prepare" /\ peer' = "asked" /\ unaware' = FALSE
    /\ UNCHANGED sendRx
StartSend(d) ==
    \E readable \in Readable :
        IF send = NoSend /\ store[d] # 0 /\ left.sends > 0 /\ readable THEN BeginSend
        ELSE left' = [left EXCEPT !.keys = @ - 1] /\ UNCHANGED sendVars

SendOnly == UNCHANGED <<world, left, run, loop, ui, appVars, server, ending, asking, writes, results,
                        cancels, lost, findVars, diskVars>>

\* Broken variant: the request does not look at the cancellation token.
PrepareUncancellable(next) ==
    /\ peer \in (IF next = "announce" THEN {"active", "over"} ELSE {"refused"})
    /\ UNCHANGED <<peer, unaware>>

\* prepare_upload of the client: a session, which the receiver may have
\* cancelled since, a refusal, an error or the cancellation, which sends no
\* cancel request.
PrepareUpload(next) ==
    \/ /\ peer \in (IF next = "announce" THEN {"active", "over"} ELSE {"refused"})
       /\ UNCHANGED <<peer, unaware>>
    \/ /\ next = "ended"
       /\ send.token \/ Faulty("network")
       /\ unaware' = (peer = "active")
       /\ peer' = IF peer = "asked" THEN "refused" ELSE peer

PrepareEnds ==
    /\ run = "on" /\ task = "prepare"
    /\ \E next \in {"announce", "ended"} : task' = next /\ PrepareUpload(next)
    /\ UNCHANGED <<send, sendRx, serverRx>> /\ SendOnly

\* SendSessionStarted
Announce ==
    /\ run = "on" /\ task = "announce"
    /\ task' = "upload" /\ sendRx' = Append(sendRx, "started")
    /\ UNCHANGED <<send, peer, unaware, serverRx>> /\ SendOnly

\* The response names a file that was not offered: files[*file_id] panics
\* before the first upload, and the task is gone without a cancel request.
Panics == Faulty("strange") /\ task' = "panicked" /\ unaware' = (peer = "active")

\* The uploads of the accepted files, one after the other.
UploadFiles ==
    /\ run = "on" /\ task = "upload"
    /\ \/ peer = "active" /\ task' = "ended" /\ peer' = "over" /\ UNCHANGED unaware
       \/ /\ send.token /\ task' = (IF send.byPeer THEN "ended" ELSE "notify")
          /\ UNCHANGED <<peer, unaware>>
       \/ (peer = "over" \/ Faulty("network")) /\ task' = "notify" /\ UNCHANGED <<peer, unaware>>
       \/ Panics /\ UNCHANGED peer
    /\ UNCHANGED <<send, sendRx, serverRx>> /\ SendOnly

\* The cancel request to the receiver, which may not get there.
Cancel ==
    \/ peer' = "over" /\ UNCHANGED unaware
    \/ Faulty("network") /\ unaware' = (peer = "active") /\ UNCHANGED peer

Notify ==
    /\ run = "on" /\ task = "notify"
    /\ task' = "ended"
    /\ Cancel
    /\ UNCHANGED <<send, sendRx, serverRx>> /\ SendOnly

\* SendEnded
EndSend ==
    /\ run = "on" /\ task = "ended"
    /\ task' = "none" /\ sendRx' = Append(sendRx, "ended")
    /\ UNCHANGED <<send, peer, unaware, serverRx>> /\ SendOnly

\* The receiver decides, and may cancel its session; its request reaches an
\* encrypted server only, and its address may have changed.
PeerAnswers ==
    /\ run = "on" /\ peer = "asked"
    /\ peer' \in {"active", "refused"}
    /\ UNCHANGED <<send, task, sendRx, unaware, serverRx>> /\ SendOnly
PeerCancels ==
    /\ run = "on" /\ peer = "active" /\ Faulty("cancel") /\ send # NoSend
    /\ peer' = "over"
    /\ \/ /\ server.up /\ server.mode = "tls"
          /\ \E host \in BOOLEAN :
                serverRx' = Append(serverRx, [kind |-> "cancel", n |-> send.n, host |-> host])
       \/ UNCHANGED serverRx
    /\ UNCHANGED <<send, task, sendRx, unaware>> /\ SendOnly

SendStep == PrepareEnds \/ Announce \/ UploadFiles \/ Notify \/ EndSend \/ PeerAnswers \/ PeerCancels

\* The handler of the send task's events.
HandleSendEvent ==
    /\ Ready /\ sendRx # <<>>
    /\ sendRx' = Tail(sendRx)
    /\ IF Head(sendRx) = "started"
       THEN /\ send' = IF send = NoSend THEN send ELSE [send EXCEPT !.sid = TRUE]
            /\ UNCHANGED run
       ELSE /\ send' = NoSend
            /\ IF world.preselected THEN Quit ELSE UNCHANGED run
    /\ UNCHANGED <<world, left, loop, ui, appVars, netVars, task, peer, unaware, findVars, diskVars>>

-----------------------------------------------------------------------------
(* Sharing links: the server is restarted, and the loop awaits it.         *)

\* restart_server: the stop signal, then at most three seconds of waiting.
Restart(mode) ==
    /\ loop' = [stage |-> "wait", mode |-> mode]
    /\ server' = [server EXCEPT !.stop = server.up]

\* What is served once the restart succeeded.
WebOf(mode) == IF mode = "tls" THEN "off" ELSE mode

\* restore_encrypted_server, unless that was to be started.
AfterFailure(mode) == IF mode = "tls" THEN Idle ELSE [stage |-> "wait", mode |-> "tls"]

\* start_with_port on the same port; without a stop in time it is in use.
StartServer ==
    /\ run = "on" /\ loop.stage = "wait"
    /\ ~server.up \/ Faulty("slow")
    /\ \/ /\ ~server.up
          /\ server' = [Off EXCEPT !.up = TRUE, !.mode = loop.mode]
          /\ web' = WebOf(loop.mode)
          /\ loop' = Idle
       \/ /\ server.up \/ Faulty("port")
          /\ loop' = AfterFailure(loop.mode)
          /\ UNCHANGED <<server, web>>
    /\ UNCHANGED <<world, left, run, ui, chord, modal, pending, receive, accepted, ending, serverRx,
                   asking, writes, results, cancels, lost, sendVars, findVars, diskVars>>

\* One link at a time, and not while something is received.
Toggles == web = "off" /\ pending = None /\ receive = None

DisableWeb == web' = "off" /\ Restart("tls") /\ KeepModal
ToggleReceive ==
    CASE web = "receive" -> DisableWeb
      [] Toggles -> Restart("receive") /\ KeepModal /\ UNCHANGED web
      [] OTHER -> KeepModal /\ UNCHANGED <<web, loop, server>>
ToggleShare ==
    CASE web = "share" -> DisableWeb
      [] Toggles /\ world.preselected -> Restart("share") /\ KeepModal /\ UNCHANGED web
      [] Toggles /\ ~world.preselected -> OpenPicker("share") /\ UNCHANGED <<web, loop, server>>
      [] OTHER -> KeepModal /\ UNCHANGED <<web, loop, server>>

\* enable_web_share, after the picker: nothing is checked again.
EnableShare ==
    \E readable \in Readable :
        IF readable THEN Restart("share") ELSE UNCHANGED <<loop, server>>

-----------------------------------------------------------------------------
(* Keys.                                                                   *)

KeyOnly == UNCHANGED <<world, ending, serverRx, asking, writes, results, lost,
                       peer, task, sendRx, unaware, findVars>>

\* Keys of the main screen that are half of a chord, or toggle a link.
PressChord ==
    /\ Ready /\ modal = NoModal
    /\ \E key \in {"w", "s", "r"} :
        /\ Spend(key)
        /\ chord' = (key = "w")
        /\ CASE chord /\ key = "s" -> ToggleShare
             [] chord /\ key = "r" -> ToggleReceive
             [] OTHER -> KeepModal /\ UNCHANGED <<web, loop, server>>
    /\ UNCHANGED <<run, pending, receive, accepted, send, cancels, diskVars>> /\ KeyOnly

\* The prompt the user can see, and how a request is answered: in sight of
\* its prompt, or while a stray screen hides the prompt or took it away.
Visible(u) == IF u.suspended THEN 0 ELSE IF u.alt THEN u.over ELSE u.shown
Shown(id) ==
    IF Visible(ui) = id THEN "shown"
    ELSE IF ui.stray \/ ui.gone = id THEN "astray"
    ELSE "unseen"

\* answer_pending: a pairing is saved before the decision is sent.
Answer(key) ==
    /\ pending' = None
    /\ IF pending = None
       THEN UNCHANGED <<server, receive, accepted, diskVars>>
       ELSE /\ IF key = "n" THEN Decide(pending.id, "decline") /\ UNCHANGED <<receive, accepted>>
                            ELSE AcceptAll(pending.id, Shown(pending.id))
            /\ IF key = "p" /\ web # "receive"
               THEN storage!Insert(pending.as, store[pending.as], Faulty("disk"))
               ELSE UNCHANGED diskVars

\* Broken variant: the answer keys are also read while a modal hides the prompt.
PressAnswerAnywhere ==
    /\ Ready
    /\ \E key \in {"y", "n", "p"} : Spend(key) /\ Answer(key)
    /\ chord' = FALSE
    /\ UNCHANGED <<run, loop, web, modal, ui, send, cancels>> /\ KeyOnly
PressAnswer ==
    /\ Ready /\ modal = NoModal
    /\ \E key \in {"y", "n", "p"} : Spend(key) /\ Answer(key)
    /\ chord' = FALSE
    /\ UNCHANGED <<run, loop, web, modal, ui, send, cancels>> /\ KeyOnly

PressDevices ==
    /\ Ready /\ modal = NoModal /\ Spend("d")
    /\ chord' = FALSE
    /\ OpenDeviceList(paired)
    /\ UNCHANGED <<run, loop, web, pending, receive, accepted, server, send, cancels, diskVars>> /\ KeyOnly

\* A hotkey: start_picking.
PressHotkey ==
    /\ Ready /\ modal = NoModal /\ left.keys > 0
    /\ chord' = FALSE
    /\ \E d \in DOMAIN slots :
        /\ slots[d] # 0 /\ slots[d] \in world.hotkeys
        /\ IF world.preselected
           THEN StartSend(d) /\ KeepModal
           ELSE /\ left' = [left EXCEPT !.keys = @ - 1]
                /\ OpenPicker(d) /\ UNCHANGED sendVars
    /\ UNCHANGED <<world, run, loop, web, pending, receive, accepted, netVars, findVars, diskVars>>

\* handle_picker_key
PressInPicker ==
    /\ Ready /\ modal.kind = "picker"
    /\ \E key \in world.keys \cap {"esc", "up", "down", "end", "left", "right", "back", "space", "enter", "x"},
          readable \in Readable :
        LET p == pick!PickerKey(modal.picker, key, readable)
        IN  /\ left.keys > 0
            /\ CASE p.out = "open" ->
                      /\ modal' = [modal EXCEPT !.picker = p.picker]
                      /\ Spend(key) /\ UNCHANGED <<ui, loop, server, send, task, peer, unaware, sendRx>>
                 [] p.out = "cancelled" ->
                      CloseModal /\ Spend(key) /\ UNCHANGED <<loop, server, send, task, peer, unaware, sendRx>>
                 [] p.out = "picked" /\ p.picker.target = "share" ->
                      /\ CloseModal /\ Spend(key)
                      /\ EnableShare
                      /\ UNCHANGED <<send, task, peer, unaware, sendRx>>
                 [] p.out = "picked" /\ p.picker.target # "share" ->
                      CloseModal /\ StartSend(p.picker.target) /\ UNCHANGED <<loop, server>>
    /\ UNCHANGED <<world, run, chord, web, pending, receive, accepted, ending, serverRx, asking,
                   writes, results, cancels, lost, findVars, diskVars>>

\* The rows are refreshed by every tick and after a change of the pairings.
WithRows(mem) ==
    modal' = [modal EXCEPT !.list = pick!SetRows(@, DeviceRowsOf(mem))]

Tick ==
    /\ Ready /\ modal.kind = "list"
    /\ modal.list.rows # DeviceRowsOf(paired)
    /\ WithRows(paired)
    /\ UNCHANGED <<world, left, run, loop, ui, chord, web, pending, receive, accepted,
                   netVars, sendVars, findVars, diskVars>>

\* pair and unpair: the list stays open.
Pair(d) ==
    /\ storage!Insert(d, store[d], Faulty("disk"))
    /\ WithRows(paired') /\ UNCHANGED <<run, ui, sendVars>>
Unpair(d) ==
    /\ storage!Remove(d, Faulty("disk"))
    /\ WithRows(paired') /\ UNCHANGED <<run, ui, sendVars>>

\* With --file the device list is the whole program, and the files are given.
ListClosed ==
    /\ CloseModal
    /\ IF world.preselected THEN Quit ELSE UNCHANGED run
ListSends(d) ==
    IF world.preselected
    THEN CloseModal /\ StartSend(d)
    ELSE OpenPicker(d) /\ left' = [left EXCEPT !.keys = @ - 1] /\ UNCHANGED sendVars

\* handle_device_list_key
PressInList ==
    /\ Ready /\ modal.kind = "list" /\ left.keys > 0
    /\ \E key \in world.keys \cap {"esc", "d", "up", "down", "enter", "p"} :
        LET k == pick!ListKey(modal.list, key)
        IN  \/ /\ k.out = "open" /\ Spend(key)
               /\ modal' = [modal EXCEPT !.list =
                                IF key \in {"up", "down"} THEN pick!MoveDevice(@, key = "up") ELSE @]
               /\ UNCHANGED <<run, ui, sendVars, diskVars>>
            \/ k.out = "closed" /\ Spend(key) /\ ListClosed /\ UNCHANGED <<sendVars, diskVars>>
            \/ k.out = "send" /\ ListSends(k.dev) /\ UNCHANGED <<run, diskVars>>
            \/ k.out = "pair" /\ Spend(key) /\ Pair(k.dev)
            \/ k.out = "unpair" /\ Spend(key) /\ Unpair(k.dev)
    /\ UNCHANGED <<world, loop, chord, web, pending, receive, accepted, netVars, findVars>>

\* handle_ctrl_c: closes the modal, or cancels everything, or quits.
CtrlC ==
    /\ Ready /\ Spend("ctrl-c")
    /\ chord' = FALSE
    /\ IF modal # NoModal
       THEN /\ CloseModal
            /\ IF modal.kind = "list" /\ world.preselected THEN Quit ELSE UNCHANGED run
            /\ UNCHANGED <<pending, receive, accepted, server, send, cancels>>
       ELSE /\ IF pending # None THEN Decide(pending.id, "decline") ELSE UNCHANGED server
            /\ pending' = None
            /\ send' = IF send = NoSend THEN send ELSE [send EXCEPT !.token = TRUE]
            /\ receive' = None
            /\ cancels' = cancels \cup ({receive.id} \ {0})
            /\ IF pending = None /\ send = NoSend /\ receive = None THEN Quit ELSE UNCHANGED run
            /\ UNCHANGED <<modal, ui, accepted>>
    /\ UNCHANGED <<loop, web, diskVars>> /\ KeyOnly

Press == PressChord \/ PressAnswer \/ PressDevices \/ PressHotkey \/ PressInPicker \/ PressInList \/ CtrlC

-----------------------------------------------------------------------------
(* Discovery.                                                              *)

FindOnly == UNCHANGED <<world, run, loop, ui, appVars, netVars, sendVars>>

\* The store confirms a device: because it was announced, or by a task of
\* device_confirmed.  A new one is Discovered, a known one Updated; the event
\* is dropped when the channel is full (try_send).
Confirm(d, address) ==
    /\ store' = [store EXCEPT ![d] = address]
    /\ IF Len(discoveryRx) < EventPlaces
       THEN /\ discoveryRx' = Append(discoveryRx, [new |-> store[d] = 0, dev |-> d])
            /\ UNCHANGED missed
       ELSE missed' = missed \cup {d} /\ UNCHANGED discoveryRx

Discover ==
    /\ run = "on" /\ left.seen > 0
    /\ left' = [left EXCEPT !.seen = @ - 1]
    /\ \E d \in Devices, address \in Addresses : Confirm(d, address)
    /\ UNCHANGED <<adding, slots, diskVars>> /\ FindOnly

AddDevice ==
    /\ run = "on"
    /\ \E d \in adding :
        /\ adding' = adding \ {d}
        /\ \E address \in Addresses : (\A a \in Addresses : address <= a) /\ Confirm(d, address)
    /\ UNCHANGED <<left, slots, diskVars>> /\ FindOnly

\* Slots::assign: the next free hotkey; the ones beyond the last have none.
Assign(d) ==
    LET free == (1..MaxSlot) \ {slots[x] : x \in DOMAIN slots}
        slot == IF free = {} THEN 0 ELSE CHOOSE i \in free : \A j \in free : i <= j
    IN  IF d \in DOMAIN slots THEN slots
        ELSE [x \in DOMAIN slots \cup {d} |-> IF x = d THEN slot ELSE slots[x]]

\* handle_discovery, with refresh_paired_channels for both kinds of events.
Refreshes(e) == TRUE
HandleDiscovery ==
    /\ Ready /\ discoveryRx # <<>>
    /\ discoveryRx' = Tail(discoveryRx)
    /\ LET e == Head(discoveryRx)
       IN  /\ IF Refreshes(e) THEN storage!Update(e.dev, store[e.dev], Faulty("disk"))
                              ELSE UNCHANGED diskVars
           /\ slots' = IF e.new THEN Assign(e.dev) ELSE slots
           /\ missed' = missed \ {e.dev}
    /\ UNCHANGED <<left, store, adding>> /\ FindOnly

-----------------------------------------------------------------------------
(* The life of the program.                                                *)

\* run: storage, server, discovery; with --file the device list opens.
Start ==
    /\ run = "off" /\ left.lives > 0
    /\ left' = [left EXCEPT !.lives = @ - 1]
    /\ storage!Load
    /\ run' = "on"
    /\ server' = [Off EXCEPT !.up = TRUE]
    /\ IF world.preselected THEN OpenDeviceList(paired') ELSE KeepModal
    /\ UNCHANGED <<world, loop, chord, web, pending, receive, accepted, ending, serverRx, asking,
                   writes, results, cancels, lost, sendVars, findVars>>

StartFails ==
    /\ run = "off" /\ left.lives > 0
    /\ left' = [left EXCEPT !.lives = @ - 1]
    /\ \/ storage!LoadDies
       \/ storage!DeleteIdentity
    /\ UNCHANGED <<world, run, loop, ui, appVars, netVars, sendVars, findVars>>

\* The end of run, or of the process: tasks and connections end with it.
Exit ==
    /\ run = "quit" \/ (run = "on" /\ Faulty("crash"))
    /\ run' = "off" /\ loop' = Idle
    /\ ui' = Screen
    /\ chord' = FALSE /\ web' = "off" /\ modal' = NoModal
    /\ pending' = None /\ receive' = None /\ send' = NoSend /\ task' = "none"
    /\ unaware' = (peer = "active")
    /\ peer' = IF peer = "asked" THEN "refused" ELSE peer
    /\ server' = Off /\ ending' = {}
    /\ serverRx' = <<>> /\ asking' = {} /\ writes' = {} /\ results' = {} /\ cancels' = {}
    /\ sendRx' = <<>>
    /\ store' = [d \in Devices |-> 0] /\ adding' = {} /\ discoveryRx' = <<>>
    /\ slots' = [d \in {} |-> 0] /\ missed' = {}
    /\ storage!Unload
    /\ UNCHANGED <<world, left, accepted, lost>>

Handle == HandleServerEvent \/ ReceiveFileResult \/ HandleSendEvent \/ HandleDiscovery \/ Tick
Next ==
    \/ Handle \/ Press \/ StartServer \/ ServerStep \/ SendStep
    \/ Discover \/ AddDevice \/ Start \/ StartFails \/ Exit

\* The loop, the tasks and the server are scheduled; users and peers may stop.
Scheduled ==
    \/ Handle \/ StartServer \/ AddDevice
    \/ ReadDecision \/ SendEnding \/ AskTarget \/ FinishWrite \/ FailUpload \/ CancelSession \/ ServerStops
    \/ PrepareEnds \/ Announce \/ UploadFiles \/ Notify \/ EndSend

Spec == Init /\ [][Next]_vars /\ WF_vars(Scheduled)

-----------------------------------------------------------------------------
(* Properties.                                                             *)

Ids(w) == 1..Len(w.requests)
SlotType(s) ==
    \/ s = None
    \/ /\ s.id \in Ids(world) /\ s.phase \in {"waiting", "active"}
       /\ s.decision \in {"none", "accept", "empty", "decline"}
       /\ \A f \in Files(s.id) :
            /\ s.files[f] \in Unfinished \cup {"ok", "failed", "mismatch"}
            /\ s.tries[f] \in 0..Attempts

TypeOK ==
    /\ world \in Worlds /\ run \in {"off", "on", "quit"}
    /\ loop.stage \in {"idle", "wait"} /\ loop.mode \in {"tls", "share", "receive"}
    /\ chord \in BOOLEAN /\ web \in {"off", "share", "receive"}
    /\ modal.kind \in {"none", "list", "picker"}
    /\ pending.id \in Ids(world) \cup {0} /\ receive.id \in Ids(world) \cup {0}
    /\ send.n \in 0..world.sends
    /\ task \in {"none", "prepare", "announce", "upload", "notify", "ended", "panicked"}
    /\ peer \in {"none", "asked", "active", "refused", "over"}
    /\ SlotType(server.slot)
    /\ store \in [Devices -> {0} \cup Addresses] /\ adding \subseteq Devices /\ missed \subseteq Devices
    /\ DOMAIN slots \subseteq Devices /\ \A d \in DOMAIN slots : slots[d] \in 0..MaxSlot
    /\ storage!StorageType

(* What the server receives was accepted for a paired sender, or by a key   *)
(* pressed while the prompt of this very request was on the screen.  Two    *)
(* exceptions: without TLS the sender is whoever the payload claims, so     *)
(* that a request that claims a paired fingerprint is accepted ("claimed"); *)
(* and a screen that a failed picker or list left behind may hide a prompt, *)
(* or be gone with it, when the key is pressed ("astray").                  *)
Consented ==
    /\ \A a \in accepted : a.how \in {"paired", "shown", "claimed", "astray"}
    /\ server.slot # None /\ server.slot.phase = "active" =>
            \E a \in accepted : a.id = server.slot.id

(* A modal owns the alternate screen, and only then the log is buffered; or *)
(* the program is on the main screen, which shows the prompt that waits for *)
(* an answer unless a stray screen took it away; or a picker or list that   *)
(* could not be opened has left the program on the alternate screen.        *)
ScreenOwned ==
    /\ (modal # NoModal) = ui.suspended
    /\ ui.alt = (ui.suspended \/ ui.stray)
    /\ ~ui.suspended => ui.buffered = 0
    /\ ~ui.alt /\ pending # None => pending.id \in {ui.shown, ui.gone}

(* A receive session of the program will end: the server has it, or its end *)
(* is on its way, or results are.  The sessions that were lost stay until   *)
(* they are cancelled with Ctrl+C: their request died after the answer, the *)
(* server was restarted, or the request that had freed the slot was dropped *)
(* before it could send the end.                                            *)
ReceiveTracked ==
    receive # None /\ receive.id \notin lost =>
        IF receive.ended = "no"
        THEN \/ server.slot.id = receive.id
             \/ \E e \in {x.event : x \in ending} \cup {serverRx[i] : i \in DOMAIN serverRx} :
                    e.kind = "end" /\ e.id = receive.id
        ELSE \E u \in writes \cup {r.up : r \in results} : u.id = receive.id /\ u.f \in receive.busy

(* The send state lives as long as its task, whose end it waits for: there  *)
(* is one send at a time, and no event of an earlier one.  A task that      *)
(* panicked never ends it.                                                  *)
SendTracked ==
    /\ (send # NoSend) = (task # "none" \/ sendRx # <<>>)
    /\ \A i \in DOMAIN sendRx :
        sendRx[i] = "ended" => i = Len(sendRx) /\ task = "none"

(* When a send is over its receiver knows, by its own cancel, by the last   *)
(* file or by a cancel request; unless that request was lost, the send      *)
(* ended while the answer to its first request was on the way, or its task  *)
(* panicked.                                                                *)
PeerInformed ==
    run = "on" /\ task \in {"none", "panicked"} /\ peer = "active" => unaware

(* A paired device has the address discovery confirmed last, the one the    *)
(* next run probes: an older one has its event on the way, or the event was *)
(* dropped when the channel was full and none of the device came since.     *)
PairedInSync ==
    \A d \in Devices :
        store[d] # 0 /\ storage!Paired(d) /\ paired[d] # store[d] =>
            \/ \E i \in DOMAIN discoveryRx : discoveryRx[i].dev = d
            \/ d \in missed

(* A hotkey means the same device for the whole run, and only that one.     *)
HotkeysStable ==
    [][run' = "on" /\ run = "on" =>
        /\ \A d \in DOMAIN slots : d \in DOMAIN slots' /\ slots'[d] = slots[d]
        /\ \A d, e \in DOMAIN slots' : slots'[d] = slots'[e] /\ slots'[d] # 0 => d = e]_vars

ShownEntries(p) ==
    {i \in DOMAIN Tree[p.dir] : p.query = 1 \/ Tree[p.dir][i].name \in Queries[p.query]}

Highlighted(p) ==
    LET shown == ShownEntries(p)
    IN  /\ (p.row = 0) = (shown = {})
        /\ p.row # 0 => p.index \in shown
                        /\ Cardinality({i \in shown : i <= p.index}) = p.row

(* The highlighted row of the picker is the entry its keys act on; there is *)
(* one as long as any entry passes the filter.                              *)
HighlightTrue == [][modal'.kind = "picker" => Highlighted(modal'.picker)]_vars

(* Files are selected while the filter shows them, never hidden ones.       *)
SelectsShown ==
    [][modal.kind = "picker" /\ modal'.kind = "picker" =>
        modal'.picker.selected \ modal.picker.selected
            \subseteq {Tree[modal.picker.dir][i].name : i \in ShownEntries(modal.picker)}]_vars

Outstanding(id) == \E u \in writes \cup {r.up : r \in results} : u.id = id

(* "Print the summary only once the last in-flight file has reported its    *)
(* outcome": as long as no file is sent again after a checksum mismatch.    *)
SummaryComplete ==
    [][receive # None /\ receive' = None /\ run' = "on" /\ cancels' = cancels =>
        ~Outstanding(receive.id)' \/ Faulty("mismatch")]_vars

(* Nothing is received without consent, and the screen has one owner, but   *)
(* for the exceptions that Consented and ScreenOwned name (app/receive.rs,  *)
(* ui.rs, picker.rs, device_list.rs); the state is well typed.              *)
Consent == TypeOK /\ Consented /\ ScreenOwned

(* The program's picture of its sessions, received and sent, is that of     *)
(* the server, of its task and of the receiver (receive.rs, send_task.rs).  *)
SessionsTracked == ReceiveTracked /\ SendTracked /\ PeerInformed

(* What is on disk can be read after any crash or failed write, and is what *)
(* the running program has, unless it reported a failed save; it has what   *)
(* it was told (storage/paired.rs, storage/identity.rs, app/discovery.rs).  *)
KeptOnDisk ==
    PairedInSync /\ storage!FileWhole /\ storage!DiskCurrent /\ storage!IdentityKept

(* What a key selects is what the user saw: a hotkey stays with its device, *)
(* the highlight with its entry, and a summary counts every file.           *)
Selections == HighlightTrue /\ HotkeysStable /\ SelectsShown /\ SummaryComplete

(* Everything the program began it ends: the loop does not await a server,  *)
(* no event is left, no task runs but a send whose receiver still decides;  *)
(* no send is left but that one and one whose task panicked.                *)
Settled ==
    run = "on" =>
        /\ loop = Idle
        /\ serverRx = <<>> /\ sendRx = <<>> /\ discoveryRx = <<>>
        /\ asking = {} /\ writes = {} /\ results = {} /\ cancels = {} /\ adding = {}
        /\ ending = {}
        /\ task \in {"none", "prepare", "panicked"}
        /\ send # NoSend => task \in {"prepare", "panicked"}
        /\ task = "prepare" => peer = "asked" /\ ~send.token
Settles == <>[]Settled
=============================================================================
