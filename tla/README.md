# A TLA+ model of FireBoxTransfer

FireBoxTransfer (a LocalSend derivative) sends files between devices of one
network, serves files to browsers, and lets a paired device browse a remote
file system. This directory holds a formal model of the parts of the program
that carry its own logic, the TLC runs that check it on small instances, and
TLAPS proofs that hold for every size of instance. `PROJECT.json` maps each
definition to the source lines it models.

All paths are relative to the repository. `core` is
`packages/core/src`, `isolates` is `packages/localsend_isolates`.

## 1. Inventory

| Component | State | Operations | Hard behaviour | Module |
|---|---|---|---|---|
| v2 upload sessions (`core/http/server/v2.rs`, `common/session.rs`) | one session slot behind a mutex, status and attempts per file | register, prepare-upload, upload, cancel, `cancel_v2_session` | request futures dropped at any await, guards that clean up in spawned tasks, one bounded event channel, an application that answers late or never | `UploadSession` |
| PIN gate (`common/pin.rs`) | failures per address in an LRU cache | `check_pin` | eviction | `PinGate` |
| server life cycle (`core/http/server/mod.rs`, `isolates/rust/src/api/server.rs`, `http_server.dart`) | the running server, its stop signal, listeners, connections | start, stop, listen, accept, route | hot restart of the Dart side, two locks, stop racing with start | `HttpServer` |
| saving and sending content (`common/save.rs`, `isolates/rust/src/api/http.rs`, upload isolate, `explorer_transfer_service.dart`) | channels between reader, request, handler and writer; attempts | upload, copy, move, cancel | any stage failing or closing early, short and long bodies, retry after a checksum mismatch | `FileTransfer` |
| web send (`core/http/server/web.rs`) | download sessions keyed by address | prepare-download, download | several tabs of one browser share one entry | `WebSend` |
| remote file system (`core/http/server/firebox.rs`, isolate) | permits, pending responders, the file system | roots, list, metadata, create, rename, move, delete, read, write | a request that times out while the application still works on it | `RemoteFs` |
| receive isolate and bridge (`server_isolate.dart`, `api/server.rs`), receive controller (`receive_controller.dart`) | one pending decision, responders per file, the session shown to the user | forward events and answers; accept, decline, cancel, close | answers in flight while the next request arrives | `ReceiveApp` |
| discovery (`core/discovery/`) | devices with ranked channels and logs, running scans | announce, answer, probe, scan, staged discovery | late answers, devices that move, a full event channel | `Discovery` |
| multicast and discovery bridge (`core/multicast/`, `api/discovery.rs`, `discovery.dart`) | sockets, receive loops, supervisor, stop signal | start, listen, stop | interfaces that fail, hot restart, stop racing with start | `DiscoveryService` |
| signaling server and client (`server/src/`, `core/webrtc/signaling.rs`) | peers per address group, a bounded channel per peer | join, update, forward, leave | full channels, order of Hello, Join and Left | `Signaling` |
| WebRTC transfer (`core/webrtc/webrtc.rs`, `api/webrtc.rs`) | the state of both ends of a data channel | offer, nonces, tokens, PINs, list, selection, chunks, results | two sequential protocols that must fit; messages told apart by state | `WebRtcTransfer` |
| command line program (`cli/src/`) | screen and modal, pending request, receive and send session, links, hotkeys, identity and paired devices on disk | keys, server events, results, devices | one loop beside its tasks; a server that is restarted to share a link; a crash while saving | `CliApp`, `CliStorage`, `CliPicker` |
| v3 registration (`core/http/server/v3.rs`) | nonces per client | nonce exchange | not wired up | - |
| application's send page, access snapshot providers, settings | provider state | user actions | updates across an await | - |
| crypto, DTOs, UI, platform code, generated bridges | - | conversions | left to tests | - |

What makes the components correct, in one line each: the slot is owned by one
request at a time, is always given back, and a session ends exactly once; one
server and one discovery run at a time and can always be found and stopped; a
file that is reported as transferred is whole; a browser downloads only what
the user granted to its address; a remote-file-system answer is true and
permits are returned; an answer of the user reaches the request it was given
for; a device is stored with the channels it answered on, the best first; a
peer that joined a group is seen by the others until it leaves; both ends of a
WebRTC transfer stay in step; a key pressed in the terminal does what the
screen promised.

## 2. Plan

Modelled so far, in this order:

1. `UploadSession` and its abstract specification `SessionSlot`: the heart of
   the receiving side.
2. `PinGate`, `WebSend`, `Signaling`.
3. `RemoteFs`: the server's side of the remote file system.
4. `ReceiveApp`: what becomes of requests and answers between server and user.
5. `FileTransfer`: content on every route, with the outcomes that
   `UploadSession` and `RemoteFs` choose freely.
6. `HttpServer` (which contains `PinGate`) and `DiscoveryService`: the life of
   the two services, across hot restarts.
7. `Discovery`, `WebRtcTransfer`.
8. `CliApp` with `CliStorage` and `CliPicker`.

Every component has its proofs, in eight modules: `UploadProofs`
(`UploadSession` and `FileTransfer`), `HttpServerProofs` (`HttpServer` with the
`PinGate` in it, and `WebSend`), `DiscoveryProofs` (`Discovery` and
`DiscoveryService`), `RemoteFsProofs`, `ReceiveAppProofs`, `SignalingProofs`,
`WebRtcTransferProofs` and `CliAppProofs`. Where a module of proofs is about two
components, it extends both, and so one of the two has names of its own for what
every component has: `WebInit`, `ServiceNext`, `TransferSpec` and so on.

Left, most important first:

9. The providers that publish the access snapshot, and the Android provider
   of the remote file system.
10. The send session of the application's user interface.
11. Proofs about the picker of `CliApp` (section 5).

## 3. The modules

Common to all: a step of a process is what the code does between two awaits,
or one critical section of a lock; dropping a future, killing an isolate,
losing a connection or a user's action is an action of its own wherever the
code can meet it. Some code appears in two modules at two depths: as its own
subject, and as the environment of another one.

### UploadSession and SessionSlot

`UploadSession` has one program counter per prepare-upload request (`pc`), per
connection that uploads (`upc`) and per cancel request (`cpc`). Each value is an
`await` of the handler: a lock, a send to the bounded event channel, a oneshot
answer, the body.

| State | Code |
|---|---|
| `slot`, `files`, `attempts` | `V2State.session` and the `SessionFileV2` records of the active session |
| `pinFails` | `V2State.pin_attempts`, as one counter per address (`PinGate` justifies this) |
| `decision`, `accepted`, `cancelled` | oneshot channel and cancellation token of a pending request |
| `abort`, `orphans`, `ending` | the tasks that dropped guards spawn |
| `events`, `rxOpen` | the event channel and whether the application still reads it |

Dropping a request's future is possible at every await (`DropPrepare`,
`DropUpload`, `DropCancel`): hyper drops it when the client disconnects. The
application takes events in order, answers or loses an answer, cancels, or goes
away. Two awaits come after a guard was disarmed: a declined or cancelled request
that waits for the lock in `clear` (`v2.rs:562`), and an upload that waits for it
in `finish` (`v2.rs:615`). A future dropped there leaves the slot pending, or the
file in progress, with nobody to settle it. The history `abandoned` records which
ones were; the properties of the guards name it as their only exception.

`SessionSlot` is what the slot promises, without tasks, guards or channels: a
session claims the free slot, is accepted or released, its files start and
settle, and it ends when all are settled or it is given up; a session that ended
never comes back. `UploadSession` implements it with
`fresh <- {r : pc[r] \in {"new", "claim"}}`.

### HttpServer and PinGate

Instance `n` is the one of the `n`-th call of `start_server`. The calls take
the locks of `RUNNING_SERVER` (`lock`) and of an instance's `stop_tx`
(`txLock`); the server task has its accept loops, its connections and its event
channels, and `listen` forwards them to Dart until nobody listens. A hot restart
kills the Dart side at any moment and leaves the Rust side as it is. Starts in
one Dart isolate are not concurrent, and a stop while the start still runs finds
nothing to stop, as in `http_server.dart`. A connection makes one request: of
the v2 or web routes it waits for the application, the internal one does not
wait, and one for the file system needs a verified certificate. Of the two PIN
caches one is modelled, that of the route a configuration puts behind the PIN.

`PinGate` is `check_pin` on an LRU cache of addresses: every lookup moves an
entry to the front, a failure inserts or replaces one, the right PIN removes it,
a full cache forgets its last entry. `others` is history: whose entries were
used since an address was last seen.

### WebSend

The download API of `web.rs`: one entry per address, inserted as pending by
`prepare-download`, accepted or removed when the application has decided, looked
up by `download`. Requests of two tabs of one browser have the same address and
so the same entry. `UnguardedDrop` is the set of requests that may be dropped
while their disarmed guard waits for the lock; properties of the guard are stated
for the addresses that have none of them. A request that the PIN check refuses
changes nothing here and is left out.

### Signaling

The server's handler per connection, its receive task, its send task and the
client behind it. A room is the set of connections of one address group, `chan`
the bounded channel of each peer. A handler joins the room under the lock, then
tells the others one by one, then queues its own `Hello`, and only then starts
the task that reads its channel. Offers and answers are forwarded by the same
code and are one message here. `view` is what the client's application shows.
Decoding and grouping of addresses are not modelled.

### RemoteFs

A request passes through the HTTP handler (`pc`, `free`), the event channel
(`queue`), the bridge (`pending`, `answer`) and a handler of the isolate (`app`),
works on the file system (`fs`), and its answer takes the same way back. The
handler gives up after its time limit (`Timeout`), clients disconnect (`Drop`),
the Dart side goes away, as in a hot restart (`DartGone`), and the user publishes
new grants at any time (`UpdateAccess`).

Shared folders are flat and paths are names in them; validating paths is a
conversion without state. The awaits of one path resolution are one read of the
file system. The last check of the grant and the issue of the mutation happen in
one turn of the isolate's event loop, without an await between them, and are one
step. Two grants of one root differ in their capability only. `fs`
distinguishes items by origin, which is enough to see one replaced by another.

### ReceiveApp

Server handlers, bridge, isolate, receive controller and user, linked only by
queues: events travel one way, tasks the other, and calls of the isolate into
Rust are tasks of their own (`replies`). The bridge's answer to a request does
not name it, so it may meet another one. The handlers of the server are those of
`UploadSession` without their drops at single awaits: a request is answered or
its sender gives up. Requests may offer the same file IDs, as those of the upload
page do (`packages/core/assets/web/upload.html:145`). `consent`, `saved`, `unsent`,
`cancelled` and `left` are history, and so is what nothing in the code passes on:
the request the user was asked about when he gave an answer (`asked` in a task or
a reply), and `answers`, which requests were asked about in the answers that a
request received.

### FileTransfer

One file on one of the routes upload, put, saf (a document of Android) and
local, from a path, bytes in memory, a local stream or a remote file. The
stages are reader, GET body, Dart loop, request body, handler and writer, joined
by bounded channels. All channels are first in, first out, so content is
counted in chunks; the source may have fewer or more than was listed. hyper
cuts a body at its content length, and ends it as broken when it is shorter.
`set_len` and timestamps are best effort in the code and left out. A lost
connection is noticed; one that hangs for ever is not modelled. A response that
Dart abandons is released by Dart's garbage collector, whose time nobody knows.

### Discovery and DiscoveryService

`Discovery` is a running discovery: what listens at each host (`net`) changes
while requests are under way, and their answers are merged into the store in any
order. A device is its fingerprint, a channel a host and a protocol. Over HTTPS
the certificate identifies who answers; over plain HTTP the announced
fingerprint is taken on trust, as in the code. `order` and `holders` are history.

`DiscoveryService` is its life: sockets per interface with their receive loops
and error counters, the supervisor of `multicast::start`, the task that takes
events, the bridge, the Dart loop with its settings, and hot restarts. What a
list of the interface filter matches is given as a set of addresses.

### WebRtcTransfer

Both ends have a main function and a task for the data channel. A message is a
record of whether it is binary, what it parses as and its content; `wire` is the
channel and its buffer, `inbox` what was delivered. Users type PINs, select files
and report results, or close. The receiver never sends `Pair`, and the sender
never parses results, in this version. Only the loss that shows as
`Disconnected` is noticed.

### CliApp, CliStorage, CliPicker

`CliApp` is the loop of `cli/src/app` that handles one key, server event, task
result or device at a time, and the tasks it starts. `CliStorage` holds
`identity.pem` and `paired-v2.json` with crashes between their writes and
renames; `CliPicker` is the picker and the device list as functions of their
state. The server and the receiver of a send are there as the program sees
them. A behaviour takes place in one of the `Worlds`, which says what may
happen in it: requests, keys, faults, restarts of the program.

| State | Code |
|---|---|
| `ui` | `Ui.suspended` and its buffered prompt; `alt`: the alternate screen is in use, `stray`: a picker or list that failed to open left it in use; the prompt on the main screen (`shown`), on the stray one (`over`), and the one that vanished with it (`gone`) |
| `pending` | the request that waits for Y/N/P, and the fingerprint the program takes for its sender's (`Sender`): that of the certificate, or without TLS the one the payload claims |
| `server`, `ending` | listener, mode and session slot; the `SessionEnd` and `PrepareUploadAborted` events that are still to be sent by whoever freed the slot, a request that may be dropped before it does or a task |
| `lost` | history: sessions whose end the program will not hear of |
| `send`, `task`, `peer` | the send state, its task (which may have panicked) and the receiver |
| `discoveryRx`, `missed` | the bounded channel of discovery events; history: devices with an event it had no room for, and none since |
| `file`, `paired`, `unsaved` | `paired-v2.json`, the pairings in memory, and whether the program had to report that saving them failed |

## 4. What TLC checks

Properties that belong to one question are checked as one conjunction; its
parts are definitions of their own, each with its comment.

| Run | Shows |
|---|---|
| `upload_sessions` | `GuardOwnsSlot`: whoever still has to free or fill the slot owns it; `OneReceiverPerFile`: no two tasks receive or finalize one file of one session; `SessionEndsOnce`: the application hears at most once that a session ended; `ImplementsSessionSlot`. Futures may be dropped everywhere. |
| `upload_live` | Futures may be dropped everywhere here too. `PendingSlotNotLeaked`, `FileNotStuck`: a slot or a file is left without a task in one way only, the drop of a future that waits for the lock with its guard disarmed. `AttemptsBounded`, and with fair tasks `UploadsSettle` (`PendingSlotResolved`, `StartedFileSettles`), with the same exception. |
| `http_server` | `ServerSafe`: the port is free when a server binds (`PortFree`), stop releases everything (`StopReleases`), a server that runs can be found (`LeftoverFound`), the file system serves only verified clients (`RemoteVerified`) and lets none wait for a listener that is gone (`RemoteReleased`). `PinCounts`: apart from evictions and new servers, PIN failures are a counter per address. `CallsReturn`: no start or stop blocks another one for ever. |
| `web_send` | `SessionsGuarded` (`OnlyGrantedServed`, `PendingEntryNotLeaked`), `AcceptedUntilRenewed`, `EntrySettles`. |
| `signaling` | `MembersKnown` (`Registered`, `NobodyMissing`): every member is in its room and shown to the others, or about to be. `NewcomersExact`: what is shown of a peer that joined later is what it last said. |
| `remote_fs` | `OperationsBounded`: response and request bodies count against the limit; `LiveRequestKept`: the bridge refuses no request that still waits; `OkMeansDone`: ok is only said of a change that took place; `ReadOnlyUntouched`; `RequestsEnd` (`DispatchEnds`, `ResponderReleased`) although the isolate may never answer. |
| `webrtc_transfer` | `ProtocolFits`: no end reads what it cannot parse (`InStep`), the list leaves only after the PINs (`PinsFirst`). `DataBelongs`: chunks and results belong to the file they are taken for (`ChunkBelongs`, `ResultsMatch`), closing loses no data (`CloseLosesNoData`). `EachEndEnds`: each end comes to an end, unless the other one failed. |
| `discovery` | `StoreFaithful`: one channel per host (`OneChannelPerHost`), the best is the latest (`BestIsLatest`), HTTPS channels are those of the holder of the certificate (`HttpsHolder`), the application shows what is stored (`ShownIsCurrent`). `ScansComplete` (`NothingLeftOut`, `ScanGuarded`). `ScansEnd`, even if nobody reads events. |
| `discovery_service` | `OneDiscovery`: one instance hears at a time (`OneHears`), can be found (`LeftoverFound`) and releases its port (`PortReleased`); a broken interface does not end the others (`OthersGoOn`). `CallsReturn`. |
| `receive_app` | Two requests with the same file ID. `FilesAccountedFor`: what arrives was offered and has an ID the user accepted in a request whose answer reached this one (`Consented`; section 6 says why it need not be this very request), what is shown as finished was saved (`ShownIsTrue`). `CancelledGetsNoTarget`: unless the request received the answer to another one. `ComesToRest`: no sender is left waiting, no result is lost (`RequestsAnswered`, `UploadsAnswered`, `SavedShown`), with the exceptions these name. |
| `file_transfer` | `WholeFiles`: nobody is told that a file arrived, and no move deletes its source, unless the target is whole (`SavedIsWhole`, `FinishedIsWhole`). `RetriesSafe`: a retry is never one too many (`RetriesWelcome`) and meets no older writer (`OneWriter`). `EveryPartEnds`. |
| `cli_app` | `Consent`: nothing is received but from a paired sender or by an answer given in sight of its prompt (`Consented`), the screen has one owner (`ScreenOwned`). `SessionsTracked`: the program's picture of its sessions is that of the server, of its task and of the receiver (`ReceiveTracked`, `SendTracked`, `PeerInformed`). `KeptOnDisk`, across crashes and failed writes: the file can be read (`FileWhole`) and holds what the program has in memory unless a failed save was reported (`DiskCurrent`), that is what discovery confirmed last (`PairedInSync`), and the identity is kept (`IdentityKept`). `Selections` (`HighlightTrue`, `HotkeysStable`, `SelectsShown`, `SummaryComplete`). `Settles`. The exceptions are listed below. |

The properties of `cli_app` hold up to what the code does not prevent, and each
part names it:

- `Consented`: without TLS a request is accepted because it claims the fingerprint
  of a paired device (`"claimed"`); an answer is given to a prompt that a stray
  screen hides or took with it (`"astray"`). `ScreenOwned` allows the stray screen
  itself, which only a picker or list that failed to open leaves behind.
- `ReceiveTracked`: a session in `lost` stays on the screen until Ctrl+C. Its
  request died after the answer, the server was restarted, or the request that
  freed the slot was dropped before it sent the end.
- `SendTracked`, `PeerInformed` and `Settles`: a task that panicked never ends its
  send, nor tells the receiver. `PeerInformed` also allows a cancel request that
  was lost, and a send that ended while its first answer was on the way.
- `PairedInSync`: an address whose event is on the way, or found the channel full
  (`missed`). `DiskCurrent`: a save that failed and was reported (`unsaved`).

The type invariant of a module is part of its first conjunction and is proved
with it (section 5). Deadlock is not
checked: every instance has a finite set of requests, connections or inputs and
stops when they are done. Whether somebody waits for ever is the question of the
liveness properties.

**Bounds.** In every instance channels have the smallest capacity that can be
full while somebody waits, and limits the smallest value with one legal step
below them.

- Uploads: two requests compete for the one slot and two connections for one
  file; a third of either is in the position of the second. A session with two
  files is in `upload_live`, cancel requests and PINs are in `upload_sessions`.
  `MaxUploadAttempts` is 2 for 3.
- `http_server`: two starts, so that one can find the other one or its remains;
  the second serves browsers behind a PIN and without TLS. Two connections, one
  with a valid and one with an invalid certificate; a PIN cache of one address
  with two addresses stands for 200.
- `web_send`: two tabs of one browser and another browser.
- `signaling`: a room holds two of three connections, so that the limit is met
  and a third one joins while another leaves; the channel has 2 places so that a
  message can be ahead of `Hello` without filling it. `MaxRequests` 2 with one
  reset (`MaxHours`) bounds what clients say.
- `remote_fs`: six requests, one of each changing operation and a read, meet in
  the groups of `MCRemoteFs`: three around one file with two permits, pairs that
  compete for one name. While three are under way the grant of the first root
  stays as it is and the rest of the access may change.
- `webrtc_transfer`: two files of one chunk, because a header, a result or a
  chunk can only go to the wrong file if there is another one; two attempts at a
  PIN.
- `discovery`: two devices and this one, three hosts of which one is an IPv6
  address, two logs per device, two inputs (a device moves, an announcement, a
  user's action) after an initial network that may already differ from the
  announced one. One interface: scans of different interfaces share only the
  counter of confirmations.
- `discovery_service`: two starts, two interfaces, two errors in a row for ten.
- `receive_app`: two requests of one file, which has the same ID in both; one of
  the senders repeats it. An answer for more files than the next request offers is
  too large for this instance and left to the proof of `FilesAccountedFor`.
- `file_transfer`: two chunks, so that content can end before, in and after the
  middle, and a source of up to three; three attempts on both sides, as in the
  code.
- `cli_app`: two devices with two addresses, one hotkey, a channel of one event
  for 16, and fourteen worlds with few keys each: receiving, requests dropped at an
  await, retrying, sending, preselected files, a list that cannot be shown, sharing
  links, a claimed fingerprint without TLS, a slow stop, stray screens, browsing,
  pairing, restarting, and a program that dies while it sends to a receiver whose
  answer may make the task panic. Faults are named in the world: files that cannot
  be read, a port that is taken, a full disk, a terminal that fails, a crash.

Symmetry is used for files, connections, peers and infos in `upload_sessions`
and `signaling`, which check no liveness.

**Fairness.** Weak fairness of a step means that the tokio runtime polls a task
that is ready, or that the Dart event loop takes its next event. Strong fairness
is assumed only of sends to a bounded channel: its semaphore serves waiters in
order, so a waiter gets room if it becomes free again and again.

- Uploads and downloads: the application takes and answers its events, as the
  documentation of the events demands, or loses an answer; a body ends or breaks off.
- `HttpServer`, `DiscoveryService`: calls and tasks run; clients, datagrams and
  users may never come.
- `Discovery`: requests time out (the client has a time limit), the application
  need not read its events.
- `RemoteFs` assumes least: timers fire and the handler receives an answer that
  is there; nothing of clients, isolate or user.
- `ReceiveApp`: nothing can go on for ever, so it is enough that the system does
  not stop while a task, a queue or an asked user can move; senders need not
  continue.
- `FileTransfer`: every stage is scheduled; losses, cancels and the garbage
  collector are not required to happen.
- `WebRtcTransfer`: tasks are polled, the connection delivers while it is up,
  users type, select and report; nobody has to lose the connection.
- `CliApp`: its loop and its tasks are scheduled; keys, requests and faults are
  not required to happen.

## 5. What is proved

The proofs hold for all values of the constants under the named assumptions of
each module (`ConstantsAssumption`, or `WebAssumption`, `ServiceAssumption` and
`TransferAssumption`; `ReceiveApp` also has `DeclinedAssumption`), which say no more than the types of the constants, positive limits, and that
`None` and the like are none of the values. One theorem, `Retries`, has a
hypothesis of its own, named below with the reason.

Every proof has the same outline. The property is strengthened to an invariant
that the initial states satisfy and every step keeps; a lemma per conjunct says
so, action by action. Where many actions do the same to
one part of the state, a first lemma says what any step can do to that part
(`ConnsMove` of `HttpServerProofs`, `UploadSteps` of `ReceiveAppProofs`,
`GetSteps` of `UploadProofs`, `SlotMoves` of `CliAppProofs`) and the invariants are derived from that. An
action property then follows from the invariant in one step.

**`UploadProofs`: `UploadSession`**

- `TypeCorrect`: `Spec => []TypeOK`. `TypeOK` is strengthened by `Shape`, which
  relates the program counters to the data that is only meaningful then.
- `GuardsOwnTheSlot`: `Spec => []GuardOwnsSlot`. Inductive as `SlotInv`: a
  spawned cleanup means its handler is over, and so does an active session, so
  the stages of one request exclude each other; another request could only
  claim a slot that is free.
- `OneReceiver`: `Spec => []OneReceiverPerFile`. Inductive as `UploadInv`: a task
  with a file in its hands works for a session whose prepare-upload request is
  over, so the session cannot be activated again under it, and while that
  session is active the file is in progress, which keeps others out.
- `AttemptLimit`: `Spec => []AttemptsBounded`.
- `NoLeak`: `Spec => []PendingSlotNotLeaked`, with drops at every await: there is
  no way to leak the slot but the drop recorded in `abandoned`.
- `NoStuckFile`: `Spec => []FileNotStuck`, likewise for a file in progress.
- `EndsOnce`: `Spec => []SessionEndsOnce`. Inductive as `EndInv`: a session has
  at most one end event on its way or one task that will send it; a session
  that is ending has left the slot, and cannot come back to it because its
  prepare-upload request is over.
- `Refinement`: `Spec => ImplementsSessionSlot`, step by step from `SlotInv`,
  `UploadInv` and the types.

**`RemoteFsProofs`**

- `TypeCorrect`: `Spec => []TypeOK`.
- `OkIsTrue`: `Spec => []OkMeansDone`. Inductive as `DoneInv`: an ok on its way
  back (`answer`, or a handler of the isolate that looks up its result) stands
  for a mutation that took place, and a handler that still waits has told its
  client nothing.
- `ReadOnlyKept`: `Spec => []ReadOnlyUntouched`. Inductive as `AllowedInv`: the
  published snapshot is one of the user's, and whoever holds a file to write was
  authorized by one that allows it.
- `PermitsBound`: `Spec => []OperationsBounded`. Inductive as `PermitInv`: free
  permits and requests that hold one add up to `MaxConcurrent`.
- `LiveKept`: `Spec => LiveRequestKept`. From `QueueInv`: a request is queued
  for the bridge at most once, not before it was dispatched and not once it is
  in the map, which by `PermitInv` has room for it while it waits.

**`HttpServerProofs`: `WebSend`**

- `Guards`: `WebSpec => []SessionsGuarded`. Inductive as `WebInv`: the responder of
  a download request is queued at most once and only while its handler waits
  (`QueuedInv`); an entry is accepted, or an answer that will accept it is under
  way, only if the application granted it (`GrantedInv`).
- `AcceptedStays`: `WebSpec => AcceptedUntilRenewed`, from the same invariant.

**`HttpServerProofs`: `HttpServer`**

- `Safe`: `Spec => []ServerSafe`. Inductive as `ServerInv`: the types, and
  `LifeInv`: who binds the port holds the lock and found no server (`StartInv`);
  a task that has not ended is that of the instance the next start finds, and a
  stop nobody waits for any more has ended its task (`StopInv`); a connection
  lives no longer than the task that serves it, and is past its handshake only
  if it was admitted (`ConnInv`).
- `Counting`: `Spec => PinCounts`. From `PinInv`: the history of an address
  holds every address whose entry lies before its own in the cache. So a full
  cache evicts an address only after as many others were used as the cache has
  places. The lemmas say what `Without`, which
  takes an entry out of a list, leaves at which place.

**`SignalingProofs`**

- `MembersStayKnown`: `Spec => []MembersKnown`; `NewcomersShown`:
  `Spec => []NewcomersExact`. Both from `ServerInv`: the tasks of a connection
  and what they forward (`PeerInv`); a room is never larger than the limit allows
  (`SizeInv`); a `Left` on its way is of a peer that leaves (`LeftInv`); whoever
  is in a room is shown or announced to each other member (`KnownInv`); and what
  is on its way about a peer ends with what the peer said last (`ToldInv`). The
  three queues between server and client are treated as one.

**`UploadProofs`: `FileTransfer`**

- `NothingPartial`: `TransferSpec => []WholeFiles`. Inductive as `TransferInv`: what
  is on the disk, in hand and in the sink was taken from the source (`DiskInv`,
  over `GetInv` for a body that comes from a remote device), what may have been
  said about it so far (`AnswerInv`, `OutcomeInv`), and that the receiver has
  taken no more attempts than the sender has begun (`AttemptInv`).
- `Retries`: `SenderAttempts <= ReceiverAttempts => (TransferSpec => RetriesSafe)`. From
  `RetryInv`: while an attempt is about to be made the file is pending, or its
  session is gone. The hypothesis is what the constants of `upload_isolate.dart`
  and `v2.rs` satisfy, and without it the last attempt is refused.

**`ReceiveAppProofs`**

- `Accounted`: `Spec => []FilesAccountedFor`, whatever IDs the requests offer.
  Inductive as `AppInv`: a request is announced once on its way through the three
  queues, and until its page opens no file of it can be accepted (`PipeInv`); an
  answer under way grants only what was accepted in the request it was given to,
  and what a request received is recorded in `answers` (`ConsentInv`); what the
  page shows is behind what was saved (`ShownInv`).
- `CancelledStaysCancelled`: `Spec => CancelledGetsNoTarget`, from three facts. An
  attempt is told of once on its way to the isolate, and no handler of its file is
  at work or waits before it gets there (`FlowInv`). A cancellation is the last
  word on its request, unless the request received the answer to another one
  (`Misled`): no decision for it comes after the cancellation, or after the one
  that accepts its files, neither among the tasks nor from the page (`LastInv`, with
  `GrantInv` for acceptances that wait for the permission). So the isolate has no
  session that is cancelled, or about to be (`SessionInv`), and lets no upload of
  one near a handler (`Barred`). The exception is real: the answer to an aborted
  request is taken for the next one, and the user's own answer to that one, given
  after its upload was cancelled as unexpected, creates the session of the isolate
  again (section 6).

**`WebRtcTransferProofs`**

- `Fits`: `Spec => []ProtocolFits`; `Belongs`: `Spec => []DataBelongs`. Both from
  `TransferInv`. `TalkInv` says what can be on its way to an end in each of its
  states (`Expect`) and where two live ends stand to each other (`Turn`): one
  of them is to act, and what comes to it, if anything, is what makes it act.
  `PinInv`: the PIN on its way is the one typed last, and the sender gets on
  only once every PIN was entered. In `FileInv` whatever is on its way, followed
  by the chunk the sender may be about to add (`Ahead`), is a `Stream`: data
  follows its header or other data of its file. `ResultInv`: the application
  owes at most the result of the file that is open. `CloseInv`: data is buffered
  only while the sender sends, or once it has failed.

**`DiscoveryProofs`: `Discovery`**

- `StoreFaithfulHolds`: `Spec => []StoreFaithful`, for any devices, hosts, limits
  and any number of logs. Inductive as `DiscoveryInv`: an answer to a pinned
  request over HTTPS is of whom it pins, who held the certificate at that host
  (`RequestInv`); a stored device has one channel per host and its logs are a
  tail of the order its channels were confirmed in (`StoreInv`). The lemmas about
  the store say what a confirmation does to that tail when it moves a channel
  to another protocol and when it drops the oldest log, and that the ranking
  (`Better`) then puts the channel confirmed last first, among those of its
  kind.
- `ScansCompleteHolds`: `Spec => []ScansComplete`. From `ScanInv`: each host of a
  scan that `discover_staged` waits for is still to be probed, is being probed or
  was probed, whichever scans were dropped, skipped or started meanwhile.

**`DiscoveryProofs`: `DiscoveryService`**

- `OneDiscoveryHolds`: `ServiceSpec => []OneDiscovery`. Inductive as
  `ServiceInv`: who stops the old instance or binds its own holds the lock of
  `RUNNING_DISCOVERY` (`StartInv`); an instance whose supervisor lives is the one
  the next start finds, and the lock of its `stop_tx` is held from the request
  until its task has ended (`StopInv`); loops run and sockets are kept only
  under a supervisor, which without a request closes only what has ended
  (`TaskInv`).

**`CliAppProofs`**

All from `CliInv`, for every world, any requests, devices and bounds. Its parts
are proved one after another: the types and the send need nothing else, the
screen and the sessions need the types.

- `ConsentHolds`: `Spec => []Consent`. A request that waits for an answer is on
  the screen, buffered behind the modal that hides it, or on or gone with a stray
  screen (`ScreenInv`, `Prompts`); a decision is taken from the server's slot only
  after it was given (`SlotInv`), and it was given to a sender whose certificate is
  paired, to one that claims it without TLS, or with the prompt shown, but for a
  stray screen (`AcceptInv`).
- `SessionsTrackedHolds`: `Spec => []SessionsTracked`. A receive session lives as
  long as the server's, or its end is on the way, in the channel or in the hands of
  whoever freed the slot, or it was lost (`SlotInv`, `ReceiveTracked`); each file it
  counts as busy is being written or has its result on the way, and when it has
  ended it still counts one (`BusyInv`). `SendInv`: the task of a send, which may
  have panicked, determines which of its events may be on the way and what its
  receiver may still do; the number of a send tells a cancel of an older one.
- `KeptOnDiskHolds`: `Spec => []KeptOnDisk`, with crashes and failed writes at
  each step of a save (`DiskInv`): it relates the discovery store, the events that
  are queued or were dropped, the pairings in memory and the file.
- `HotkeysStableHolds`: `Spec => HotkeysStable`, for any number of devices and
  hotkeys.

What did not hold in general was found in the attempt. The receiver of a send
whose program dies before the answer to its first request is asked for ever
unless the connection ends with the program, as it does (`Exit`); an answer to
that request may arrive after its receiver has cancelled (`PrepareUpload`); a
channel confirmed again counts once in the order of confirmation (`MoveToEnd`).
TLC's instances now reach the first two, in the world `Dying`.

**Only model-checked.** All liveness (`UploadsSettle`, `EntrySettles`,
`RequestsEnd`, `CallsReturn`, `ScansEnd`, `EachEndEnds`, `ComesToRest`,
`EveryPartEnds`, `Settles`): fairness is beyond this prover. Of `Selections`, what
is about the picker (`HighlightTrue`, `SelectsShown`): the row under the
highlight is a number of entries, and counting them is an induction over the
listing, which these provers cannot do; and `SummaryComplete`.

## 6. Where code and comments disagree, and hazards no property covers

The models show these; the properties above are stated so that they hold beside
them, and each says where it stops.

- `core/http/server/v2.rs:562`: the comment of `PendingSessionGuard` (537-539)
  says the slot is not leaked when the request is cancelled. `clear` disarms the
  guard and then awaits the lock; a future dropped there leaks the slot.
  `UploadGuard::finish` (`v2.rs:615`) and `PendingWebSessionGuard::clear`
  (`web.rs:466`) have the same gap. The properties of `UploadSession` name these
  drops as the only exception; those of `WebSend` are stated for the addresses
  whose requests do not meet them.
- `v2.rs:471`: a cancel of a pending request is acknowledged; when the request
  is already past its `select`, the session becomes active all the same.
- `web.rs:292` and `:486`: a session "is created when accepted" (`:38`). After a
  reload the cleanup of the first request may have removed the entry of the
  second, and the browser is told 200 without a session.
- `server/src/controller/ws_controller.rs:159`: `Hello` is the initial message
  (`signaling.rs:22`). Other peers can fill the channel first, and the handler
  then waits on a channel nobody reads yet; the client's channel of one message
  (`core/webrtc/signaling.rs:240`) has the same form. The list in `Hello` is
  older than a `Left` that overtakes it: that peer stays shown.
- `server_isolate.dart:1191`: a move to a destination that exists is rejected
  (1181-1182); two requests that looked at the free name before either used it
  replace each other's file.
- `server_isolate.dart:857`: a write that was authorized is carried out although
  its grant was revoked before the file was opened.
- `isolates/rust/src/api/server.rs:839`: the accepted IDs are "a subset of the
  offered files" (`:833`). An answer that was delayed behind an abort reaches the
  next pending request, which did not offer them. The server drops the IDs that
  one does not offer and accepts the common ones; the upload page numbers its files
  from zero in every request, so it has some. A file is then received that the user
  was not asked about, or had declined (`Consented` holds up to this). The same
  delayed answer can also revive a session that was cancelled: an upload of it that
  was on its way then gets a target (`Misled` in `CancelledGetsNoTarget`).
- `api/server.rs:500` and `api/discovery.rs:397`: `http_server.dart:204` and
  `discovery.dart:113` say that stop ends the `listen` stream; `listen` goes on until
  every sender of its channels is gone, and the instance keeps one.
- `receive_controller.dart:597`: a user who leaves the page between accepting and
  the permission dialog leaves the request waiting until its sender gives up.
- `cli/src/app/mod.rs:336`: Ctrl+C "returns `true` (quit) only when there was
  nothing to cancel". In `--file` mode closing the device list quits
  (`devices.rs:80`), also while a request waits or a file is received.
- `cli/src/app/web_link.rs:53`: sharing is "not while a receive is active (the
  server would restart)". The picker for it stays open while a receive begins, and
  its result (`sending.rs:101`) restarts the server without another check.
- `cli/src/app/receive.rs:213`: the summary is printed "only once the last in-flight
  file has reported its outcome"; a file that is sent again after a checksum
  mismatch is the exception in `SummaryComplete`.

- `cli/src/send_task.rs:179`: `run_send` "always ends by emitting
  `AppEvent::SendEnded`" (`:47`). The task indexes the offered files with the IDs of
  the receiver's answer, and an ID that was not offered panics it, although line 160
  tolerates one. The event is never sent: the program refuses every later send, and
  Ctrl+C, which finds a send to cancel every time, never quits.
- `cli/src/device_list.rs:73`, `picker.rs:80` and `:93`: the alternate screen is to
  be left "exactly once per enter" (`util.rs:19`). `open` enters it and then returns
  the error of `Terminal::new`, and its callers do not leave it. The log and its
  prompts go to that screen until the next modal is closed, and are gone then.
- `cli/src/app/receive.rs:146`: without TLS, while a receive link is open, the sender
  is whoever the payload claims to be. A request that claims the fingerprint of a
  paired device is accepted without a prompt, although the prompt offers no pairing
  in that mode because "the fingerprint is an unverified payload value" (`:181`).
- `core/discovery/mod.rs:197`: "dropping an event only costs a refresh" (`:194`). The
  command line program gives hotkeys on `Discovered` only. When that event is
  dropped, every later one of the device is `Updated`, and the device has no hotkey
  for the rest of the run; and a changed address of a paired device is not stored
  until the next event of it.
- `v2.rs:498` and `:675`: a session is ended under the lock and its `SessionEnd` sent
  after it by the request that ended it. A request dropped in between ends the
  session without telling the application.

Hazards without a property: a session whose sender vanishes before it starts its
remaining files never times out (`v2.rs:664`); an answer callback is registered
after its offer was sent (`webrtc.rs:587`); two updates of the access snapshot
race (`remote_fs_access_provider.dart:33`); a listing is paged by offset over a
directory that changes (`server_isolate.dart:728`); the size of a copied file is
that of the listing (`explorer_transfer_service.dart:112`, though `FileTransfer`
shows that a copy of another size is not reported as done); a document provider
that cannot truncate keeps the rest of a longer file (`save.rs:329`); an unusable
certificate ends the server task after start has returned
(`http/server/mod.rs:410`); a refused connection leaves an empty room
(`ws_controller.rs:111`); a server that starts while the call that turns answering
off is awaited is not heard of (`discovery.dart:88`).

## 7. What is not modelled

Crypto, wire formats, the v3 registration (not wired up in this version),
persistence of the application's settings, user interface, platform code and
generated bridges: conversions, system calls or code without protocol state of
its own. Of modelled components: the Android provider, paging and error mapping
of the remote explorer, the providers of the access snapshot, the send session
of the application's user interface, drawing, QR codes, configuration
precedence and the answers to browsers (`handle_web_event`) of the command line
program. Payloads, file names and tokens are data that the properties do not
tell apart; a request with a wrong token or an unknown ID is an input that the
guards refuse.
