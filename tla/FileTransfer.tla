---------------------------- MODULE FileTransfer ----------------------------
(***************************************************************************)
(* The content of one file on its way from a source to a target:           *)
(*   "upload": a file of a send session (upload_isolate.dart, http_upload) *)
(*             to the receiver's v2 upload handler;                        *)
(*   "put":    a copy of the explorer to a remote file system;             *)
(*   "saf":    a copy to a document of Android (write_stream_to_target);   *)
(*   "local":  a copy to a local directory;                                *)
(* where the source is a "path" read in Rust, "bytes" in memory, a "local" *)
(* Dart stream or a "remote" file read over HTTP.  The stages are          *)
(*                                                                         *)
(*   reader -pipe-> GET body -get-> loop -sink-> request body -body->      *)
(*   handler -chunks-> writer -> disk                                      *)
(*                                                                         *)
(* and run concurrently, joined by bounded channels; each may fail, the    *)
(* connection may be lost and the user may cancel at any moment.  All      *)
(* channels are first in, first out, so content is counted in chunks.      *)
(***************************************************************************)
EXTENDS Integers, FiniteSets

CONSTANTS
    Size,               \* size of the file as announced or listed, in chunks
    ChannelCapacity,    \* of the channels in Rust (and of a connection)
    SenderAttempts,     \* _maxUploadAttempts of upload_isolate.dart
    ReceiverAttempts    \* MAX_UPLOAD_ATTEMPTS of v2.rs

ASSUME TransferAssumption ==
    /\ Size \in Nat
    /\ ChannelCapacity \in Nat \ {0}
    /\ SenderAttempts \in Nat \ {0}
    /\ ReceiverAttempts \in Nat \ {0}

Routes ==
    [from : {"path", "bytes"}, to : {"upload"}, move : {FALSE}, hash : BOOLEAN]
    \cup [from : {"local", "remote"}, to : {"put", "saf", "local"}, move : BOOLEAN, hash : {FALSE}]

VARIABLES
    route,      \* from where to where; whether it is a move, has a checksum
    attempt,    \* of the upload isolate
    good,       \* whether what the source gives has the announced checksum
    left,       \* chunks the source still has
    reader,     \* read_file_into_sender
    pipe,       \* the channel of FileContent::into_receiver
    length,     \* content-length of the GET response
    get,        \* its body, and how much of it has been sent and received
    held,       \* who holds the response of the GET request
    loop,       \* the Dart loop that feeds the sink and awaits the transfer
    sink,       \* create_stream: the channel from Dart to Rust
    token,      \* whether the RsCancellationToken is cancelled
    request,    \* the future of the client's request with the body
    sent,       \* chunks of its body that were sent
    body,       \* the body on its way, as the handler reads it
    handler,    \* the server's handler, in save_req_to_target
    broke,      \* its stream_error
    chunks,     \* the channel of spawn_file_writer
    writer,     \* write_file_from_receiver, or write_stream_to_target
    disk,       \* chunks of the target that were written
    told,       \* what the receiving application was told
    answer,     \* the response of the handler
    status,     \* FileStatusV2 at the receiver, or gone with its session
    starts,     \* and its attempts
    removed     \* what was removed: the target after a failure, a moved source

transferVars == <<route, attempt, good, left, reader, pipe, length, get, held, loop, sink,
          token, request, sent, body, handler, broke, chunks, writer, disk,
          told, answer, status, starts, removed>>

sourceVars == <<good, left, reader, pipe, length, get, held>>
dartVars == <<route, attempt, loop, token, removed>>
clientVars == <<request, sent>>
serverVars == <<handler, broke, told, answer, status, starts>>
targetVars == <<writer, disk>>

\* A bounded channel: its content, the end dropped by senders, by receivers.
NewChannel == [n |-> 0, closed |-> FALSE, dead |-> FALSE]
Push(c) == [c EXCEPT !.n = @ + 1]
Pop(c) == [c EXCEPT !.n = @ - 1]
Close(c) == [c EXCEPT !.closed = TRUE]
Drop(c) == [c EXCEPT !.dead = TRUE]

\* A body on a connection: what was sent and not read, and how it ends.
NewBody == [n |-> 0, end |-> "open"]
Break(b) == [b EXCEPT !.end = IF @ = "open" THEN "broken" ELSE @]

\* The channel the request body, or the writer of a copy, reads from.
Feeds == IF route.from = "path" THEN pipe ELSE sink
FeedsTo(c) ==
    IF route.from = "path" THEN pipe' = c /\ UNCHANGED sink
                           ELSE sink' = c /\ UNCHANGED pipe

HasRequest == route.to \in {"upload", "put"}
RequestEnded == request \notin {"off", "connect", "send"}
WriterEnded == writer \in {"off", "ok", "err"}

TransferInit ==
    /\ route \in Routes
    /\ attempt = 0
    /\ good = TRUE
    /\ left = 0
    /\ reader = "off"
    /\ pipe = NewChannel
    /\ length = 0
    /\ get = [sent |-> 0, got |-> 0, n |-> 0, end |-> "open"]
    /\ held = "none"
    /\ loop = "begin"
    /\ sink = NewChannel
    /\ token = FALSE
    /\ request = "off"
    /\ sent = 0
    /\ body = NewBody
    /\ handler = "off"
    /\ broke = FALSE
    /\ chunks = NewChannel
    /\ writer = "off"
    /\ disk = 0
    /\ told = "nothing"
    /\ answer = "none"
    /\ status = "pending"
    /\ starts = 0
    /\ removed = "nothing"

-----------------------------------------------------------------------------
(* The source.                                                             *)

\* An attempt begins: a file that changed since it was listed or hashed is
\* longer, shorter, or has another checksum; bytes in memory are not.
Begin ==
    /\ loop = "begin"
    /\ attempt' = attempt + 1
    /\ left' \in IF route.from = "bytes" THEN {Size} ELSE 0 .. Size + 1
    /\ good' \in IF route.hash /\ route.from = "path" THEN BOOLEAN ELSE {TRUE}
    /\ loop' = CASE route.from = "path"   -> "await"
                 [] route.from = "remote" -> "open"
                 [] OTHER                 -> "pull"
    /\ reader' = IF route.from = "path" THEN "run" ELSE "off"
    /\ pipe' = NewChannel
    /\ sink' = NewChannel
    /\ request' = IF HasRequest THEN "connect" ELSE "off"
    /\ writer' = IF HasRequest THEN "off" ELSE "open"
    /\ sent' = 0
    /\ body' = NewBody
    /\ answer' = "none"
    /\ UNCHANGED <<route, token, length, get, held, handler, broke, chunks, told,
                   status, starts, disk, removed>>

readUnchanged == <<dartVars, good, length, clientVars, body, serverVars, chunks, targetVars>>

\* read_file_into_sender: a chunk is read; the end of the file, an error or a
\* receiver that is gone end it the same way.
Read ==
    /\ reader = "run"
    /\ IF left > 0 /\ ~pipe.dead
       THEN /\ pipe.n < ChannelCapacity
            /\ pipe' = Push(pipe)
            /\ left' = left - 1
            /\ UNCHANGED reader
       ELSE /\ reader' = "done"
            /\ pipe' = Close(pipe)
            /\ UNCHANGED left
    /\ UNCHANGED <<readUnchanged, get, held, sink>>

\* The server sends the body of GET until the length it promised is reached;
\* content that ends before breaks the response.
SendGet ==
    /\ held # "none"
    /\ get.end = "open"
    /\ CASE get.sent = length -> get' = [get EXCEPT !.end = "clean"] /\ pipe' = Drop(pipe)
         [] get.sent < length /\ pipe.n > 0 ->
                /\ get.n < ChannelCapacity
                /\ get' = [get EXCEPT !.n = @ + 1, !.sent = @ + 1]
                /\ pipe' = Pop(pipe)
         [] get.sent < length /\ pipe.n = 0 ->
                /\ pipe.closed
                /\ get' = [get EXCEPT !.end = "broken"]
                /\ pipe' = Drop(pipe)
    /\ UNCHANGED <<readUnchanged, left, reader, held, sink>>

\* The connection of GET is lost, or closed because the response is dropped;
\* what was not read yet is lost with it.
LoseGet ==
    /\ held # "none"
    /\ get.end = "open"
    /\ get' = [get EXCEPT !.end = "broken", !.n = 0]
    /\ pipe' = Drop(pipe)
    /\ UNCHANGED <<readUnchanged, left, reader, held, sink>>

-----------------------------------------------------------------------------
(* The Dart side of a copy or of an upload of bytes.                       *)

loopUnchanged == <<route, attempt, good, reader, clientVars, body, serverVars, chunks, targetVars>>

\* The catch of writeFile and of http_upload: the request is cancelled, the
\* sink closed.
Abort ==
    /\ loop' = "aborted"
    /\ token' = (token \/ HasRequest)
    /\ sink' = Close(sink)

\* The loop leaves openRead before its end: the token of the read is
\* cancelled, but nobody calls next_chunk to notice, and the response stays
\* open until the object is collected.
Abandon == held' = IF held = "loop" THEN "garbage" ELSE held

\* The device serves the file, at the size it has now.
ReadResponse ==
    /\ length' \in 0 .. Size + 1
    /\ reader' = "run"

\* remote_fs_open_read: a response, or an error.
OpenGet ==
    /\ loop = "open"
    /\ \/ /\ ReadResponse
          /\ held' = "loop"
          /\ loop' = "pull"
          /\ UNCHANGED <<token, sink>>
       \/ Abort /\ UNCHANGED <<length, reader, held>>
    /\ UNCHANGED <<route, attempt, good, left, clientVars, body, serverVars, chunks,
                   targetVars, pipe, get, removed>>

\* next_chunk on a response: the next chunk, the end, or an error, and with
\* the latter two the response is dropped.
NextChunk ==
    /\ loop = "pull"
    /\ route.from = "remote"
    /\ \/ /\ get.n > 0
          /\ get' = [get EXCEPT !.n = @ - 1, !.got = @ + 1]
          /\ IF get.got + 1 > length
             THEN held' = "nobody" /\ Abort
             ELSE loop' = "push" /\ UNCHANGED <<token, sink, held>>
       \/ /\ get.n = 0
          /\ get.end # "open"
          /\ held' = "nobody"
          /\ IF get.end = "clean" /\ get.got = length
             THEN loop' = "close" /\ UNCHANGED <<token, sink>>
             ELSE Abort
          /\ UNCHANGED get
    /\ UNCHANGED <<loopUnchanged, left, pipe, length, removed>>

\* A local stream gives a chunk, ends, or fails; bytes in memory do not fail.
NextLocal ==
    /\ loop = "pull"
    /\ route.from # "remote"
    /\ \/ left > 0 /\ left' = left - 1 /\ loop' = "push" /\ UNCHANGED <<token, sink, held>>
       \/ left = 0 /\ loop' = "close" /\ UNCHANGED <<left, token, sink, held>>
       \/ route.from = "local" /\ Abort /\ UNCHANGED <<left, held>>
    /\ UNCHANGED <<loopUnchanged, pipe, length, get, removed>>

\* sink.add: waits for room (one chunk), fails once the receiver is gone.
Add ==
    /\ loop = "push"
    /\ IF sink.dead
       THEN loop' = "refused" /\ UNCHANGED sink
       ELSE /\ sink.n < 1
            /\ sink' = Push(sink)
            /\ loop' = "pull"
    /\ UNCHANGED <<loopUnchanged, left, pipe, length, get, held, token, removed>>

\* sink.close
CloseSink ==
    /\ loop = "close"
    /\ sink' = Close(sink)
    /\ loop' = "await"
    /\ UNCHANGED <<loopUnchanged, left, pipe, length, get, held, token, removed>>

TransferEnded == IF HasRequest THEN RequestEnded ELSE WriterEnded
TransferOk == IF HasRequest THEN request = "ok" ELSE writer = "ok"

\* Adding failed: the transfer is awaited, then the error goes to the catch.
Refused ==
    /\ loop = "refused"
    /\ TransferEnded
    /\ Abort
    /\ Abandon
    /\ UNCHANGED <<loopUnchanged, left, pipe, length, get, removed>>

\* The end of the catch: the transfer is awaited whatever its outcome; a
\* partial document is removed, if the provider lets it.
FinishAbort ==
    /\ loop = "aborted"
    /\ TransferEnded
    /\ loop' = "failed"
    /\ removed' \in IF route.to = "saf" THEN {"target", "nothing"} ELSE {removed}
    /\ UNCHANGED <<loopUnchanged, left, pipe, length, get, held, token, sink>>

\* The transfer is awaited: it is done, is repeated after a checksum mismatch
\* (uploads only), or has failed, which removes a partial document.
AwaitTransfer ==
    /\ loop = "await"
    /\ TransferEnded
    /\ \/ TransferOk /\ loop' = "finished" /\ UNCHANGED removed
       \/ request = "mismatch" /\ attempt < SenderAttempts /\ loop' = "begin" /\ UNCHANGED removed
       \/ /\ ~TransferOk /\ ~(request = "mismatch" /\ attempt < SenderAttempts)
          /\ loop' = "failed"
          /\ removed' \in IF route.to = "saf" THEN {"target", "nothing"} ELSE {removed}
    /\ UNCHANGED <<loopUnchanged, sourceVars, token, sink>>

\* A move deletes its source once every copy is complete; that may fail.
DeleteSource ==
    /\ loop = "finished"
    /\ route.move
    /\ removed = "nothing"
    /\ removed' = "source"
    /\ UNCHANGED <<loopUnchanged, sourceVars, token, sink, loop>>

\* The user cancels a send (HttpUploadCancelTask).
UserCancels ==
    /\ route.to = "upload"
    /\ ~token
    /\ loop \notin {"finished", "failed"}
    /\ token' = TRUE
    /\ UNCHANGED <<loopUnchanged, sourceVars, loop, sink, removed>>

\* The garbage collector finds the response that was abandoned.
Collect ==
    /\ held = "garbage"
    /\ held' = "nobody"
    /\ get' = [get EXCEPT !.end = IF @ = "open" THEN "broken" ELSE @, !.n = 0]
    /\ pipe' = Drop(pipe)
    /\ UNCHANGED <<loopUnchanged, left, length, loop, token, sink, removed>>

-----------------------------------------------------------------------------
(* The client's request.                                                   *)

clientUnchanged == <<dartVars, good, left, reader, length, get, held, chunks, targetVars>>

\* The future of the request is over and drops what it was sending.
EndRequest(outcome) ==
    /\ request' = outcome
    /\ FeedsTo(Drop(Feeds))
    /\ body' = Break(body)

\* Who answers at the address: PinnedServerCertVerifier takes a certificate
\* that is valid and has the pinned fingerprint.
Certificates == [valid : BOOLEAN, pinned : BOOLEAN]
Verified(cert) == cert.valid /\ cert.pinned

\* The handshake precedes everything that is sent of a request.
Connect ==
    /\ request = "connect"
    /\ \E cert \in Certificates :
          IF Verified(cert)
          THEN request' = "send" /\ handler' = "ask" /\ UNCHANGED <<pipe, sink, body>>
          ELSE EndRequest("error") /\ UNCHANGED handler
    /\ UNCHANGED <<clientUnchanged, sent, broke, told, answer, status, starts>>

\* A chunk of the body is sent, or its end.  PUT has a content-length: what
\* follows it is not sent, less than it breaks the request.
SendBody ==
    /\ request = "send"
    /\ body.end = "open"
    /\ CASE route.to = "put" /\ sent = Size ->
                /\ body' = [body EXCEPT !.end = "clean"]
                /\ FeedsTo(Drop(Feeds))
                /\ UNCHANGED <<request, sent>>
         [] Feeds.n > 0 /\ ~(route.to = "put" /\ sent = Size) ->
                /\ body.n < ChannelCapacity
                /\ body' = [body EXCEPT !.n = @ + 1]
                /\ sent' = sent + 1
                /\ FeedsTo(Pop(Feeds))
                /\ UNCHANGED request
         [] Feeds.n = 0 /\ ~(route.to = "put" /\ sent = Size) ->
                /\ Feeds.closed
                /\ IF route.to = "put"
                   THEN EndRequest("error")
                   ELSE body' = [body EXCEPT !.end = "clean"] /\ UNCHANGED <<request, pipe, sink>>
                /\ UNCHANGED sent
    /\ UNCHANGED <<clientUnchanged, serverVars>>

\* into_error keeps the status, which tells a checksum mismatch apart.
StatusError == IF answer = "mismatch" THEN "mismatch" ELSE "error"
\* The error of ensure_success does not.
RemoteError == "error"

\* The response arrives, maybe before the body was sent.
Respond ==
    /\ request = "send"
    /\ answer # "none"
    /\ EndRequest(CASE answer = "saved"                        -> "ok"
                    [] answer # "saved" /\ route.to = "upload" -> StatusError
                    [] answer # "saved" /\ route.to = "put"    -> RemoteError)
    /\ UNCHANGED <<clientUnchanged, sent, serverVars>>

\* The token is noticed (select without bias, so the response may win), or
\* the connection is lost.
GiveUp ==
    /\ request \in {"connect", "send"}
    /\ \/ token /\ EndRequest("cancelled")
       \/ request = "send" /\ EndRequest("error")
    /\ UNCHANGED <<clientUnchanged, sent, serverVars>>

-----------------------------------------------------------------------------
(* The server: the handler, save_req_to_target, and the writer.            *)

serverUnchanged == <<dartVars, sourceVars, clientVars, sink>>

\* The receiver's upload handler takes a file that is pending; the PUT
\* handler asks no more than the application.  With the target that one
\* grants the writer starts.
Takes == route.to = "upload" => status = "pending"
Started == starts + (IF route.to = "upload" THEN 1 ELSE 0)
TransferStatus(s) == IF route.to = "upload" /\ status # "gone" THEN s ELSE status

Forbid ==
    /\ handler = "ask"
    /\ ~Takes
    /\ handler' = "done"
    /\ answer' = "forbidden"
    /\ UNCHANGED <<serverUnchanged, body, broke, told, status, starts, chunks, targetVars>>

Accept ==
    /\ handler = "ask"
    /\ Takes
    /\ starts' = Started
    /\ \/ /\ status' = TransferStatus("inProgress")
          /\ handler' = "body" /\ writer' = "open"
          /\ chunks' = NewChannel /\ broke' = FALSE /\ told' = "nothing"
          /\ UNCHANGED answer
       \/ /\ status' = TransferStatus("failed")
          /\ handler' = "done" /\ answer' = "error"
          /\ UNCHANGED <<chunks, writer, broke, told>>
    /\ UNCHANGED <<serverUnchanged, body, disk>>

\* The receiving user cancels: the session with its files is gone, an upload
\* that is running goes on.
ReceiverCancels ==
    /\ route.to = "upload"
    /\ status \in {"pending", "inProgress"}
    /\ status' = "gone"
    /\ UNCHANGED <<serverUnchanged, handler, broke, told, answer, starts, body, chunks, targetVars>>

\* A frame of the body goes to the writer, unless that has closed.
Forward ==
    /\ handler = "body"
    /\ body.n > 0
    /\ IF chunks.dead
       THEN broke' = TRUE /\ handler' = "await" /\ chunks' = Close(chunks) /\ UNCHANGED body
       ELSE /\ chunks.n < ChannelCapacity
            /\ chunks' = Push(chunks)
            /\ body' = [body EXCEPT !.n = @ - 1]
            /\ UNCHANGED <<broke, handler>>
    /\ UNCHANGED <<serverUnchanged, told, answer, status, starts, targetVars>>

\* The body ends, or reading it fails: binary_tx is dropped.
EndOfBody ==
    /\ handler = "body"
    /\ body.end = "broken" \/ (body.end = "clean" /\ body.n = 0)
    /\ broke' = (body.end = "broken")
    /\ handler' = "await"
    /\ chunks' = Close(chunks)
    /\ UNCHANGED <<serverUnchanged, body, told, answer, status, starts, targetVars>>

\* finalize_file
Finalize(result) ==
    status' = TransferStatus(CASE result = "saved" -> "finished"
                           [] result = "mismatch" /\ starts < ReceiverAttempts -> "pending"
                           [] OTHER -> "failed")

\* Broken variant: the checksum is looked at before the writer is awaited.
ConcludeHashFirst ==
    /\ handler = "await"
    /\ WriterEnded \/ (~broke /\ route.hash /\ ~good)
    /\ LET result == CASE ~broke /\ route.hash /\ ~good -> "mismatch"
                       [] ~broke /\ writer = "ok" -> "saved"
                       [] OTHER -> "error"
       IN /\ told' = IF result = "saved" THEN "ok" ELSE "error"
          /\ answer' = result
          /\ Finalize(result)
    /\ handler' = "done"
    /\ UNCHANGED <<serverUnchanged, body, broke, starts, chunks, targetVars>>

\* Broken variant: a body that breaks off after the last byte counts as saved.
ConcludeBroken ==
    /\ handler = "await"
    /\ WriterEnded
    /\ LET result == IF writer = "ok" THEN "saved" ELSE "error"
       IN /\ told' = IF result = "saved" THEN "ok" ELSE "error"
          /\ answer' = result
          /\ Finalize(result)
    /\ handler' = "done"
    /\ UNCHANGED <<serverUnchanged, body, broke, starts, chunks, targetVars>>

\* The outcome: a broken body fails whatever was written, then the writer's
\* result counts, then the checksum.  The application is told, the file gets
\* its status, the client its response.
Conclude ==
    /\ handler = "await"
    /\ WriterEnded
    /\ LET result == CASE broke \/ writer # "ok" -> "error"
                       [] ~broke /\ writer = "ok" /\ route.hash /\ ~good -> "mismatch"
                       [] OTHER -> "saved"
       IN /\ told' = IF result = "saved" THEN "ok" ELSE "error"
          /\ answer' = result
          /\ Finalize(result)
    /\ handler' = "done"
    /\ UNCHANGED <<serverUnchanged, body, broke, starts, chunks, targetVars>>

\* The client is gone and the handler is dropped: the writer runs on, the
\* application's result is dropped, the guard fails a file it had taken.
DropHandler ==
    /\ handler \in {"ask", "body", "await"}
    /\ body.end = "broken" \/ request \in {"error", "cancelled"}
    /\ chunks' = IF handler = "body" THEN Close(chunks) ELSE chunks
    /\ IF handler = "ask"
       THEN status' \in {status, TransferStatus("failed")} /\ UNCHANGED told
       ELSE status' = TransferStatus("failed") /\ told' = "aborted"
    /\ handler' = "done"
    /\ UNCHANGED <<serverUnchanged, body, broke, answer, starts, targetVars>>

\* The channel the writer reads from.
Incoming == IF HasRequest THEN chunks ELSE sink
IncomingTo(c) ==
    IF HasRequest THEN chunks' = c /\ UNCHANGED sink
                  ELSE sink' = c /\ UNCHANGED chunks
writerUnchanged == <<dartVars, sourceVars, clientVars, body, serverVars>>

\* Broken variant: a writer that fails leaves its channel open.
EndWriterOpen(result) == writer' = result /\ UNCHANGED <<chunks, sink>>

\* The writer is over and closes its channel, which unblocks the handler.
EndWriter(result) == writer' = result /\ IncomingTo(Drop(Incoming))

\* The target is created, or a document's descriptor is taken over.
OpenTarget ==
    /\ writer = "open"
    /\ \/ /\ writer' = "run"
          /\ disk' = 0
          /\ UNCHANGED <<chunks, sink>>
       \/ EndWriter("err") /\ UNCHANGED disk
    /\ UNCHANGED writerUnchanged

\* One chunk too many is an error at once (not for a local file, which is
\* measured when it is closed); at the end the size must be exact.
MayWrite == disk < Size \/ route.to = "local"
Exact == disk = Size

\* A chunk is written, or that fails.
Write ==
    /\ writer = "run"
    /\ Incoming.n > 0
    /\ \/ /\ MayWrite
          /\ IncomingTo(Pop(Incoming))
          /\ disk' = disk + 1
          /\ UNCHANGED writer
       \/ EndWriter("err") /\ UNCHANGED disk
    /\ UNCHANGED writerUnchanged

\* All is written and flushed.  (set_len and the
\* timestamps that follow are best effort and leave the content alone.)
Flush ==
    /\ writer = "run"
    /\ Incoming.n = 0
    /\ Incoming.closed
    /\ \/ Exact /\ EndWriter("ok")
       \/ EndWriter("err")
    /\ UNCHANGED <<writerUnchanged, disk>>

Source == Read \/ SendGet
Dart ==
    \/ Begin \/ OpenGet \/ NextChunk \/ NextLocal \/ Add \/ CloseSink \/ Refused
    \/ FinishAbort \/ AwaitTransfer
Client == Connect \/ SendBody \/ Respond
Cancelled == token /\ GiveUp
Server == Forbid \/ Accept \/ Forward \/ EndOfBody \/ Conclude
Writer == OpenTarget \/ Write \/ Flush

TransferNext ==
    \/ Source \/ Dart \/ Client \/ GiveUp \/ Server \/ Writer
    \/ LoseGet \/ DeleteSource \/ UserCancels \/ Collect \/ DropHandler \/ ReceiverCancels

\* Every task is scheduled; losses, cancels and the collector are not.
Fairness == WF_transferVars(Source \/ Dart \/ Client \/ Cancelled \/ Server \/ Writer)

TransferSpec == TransferInit /\ [][TransferNext]_transferVars /\ Fairness
-----------------------------------------------------------------------------
Channels == [n : Nat, closed : BOOLEAN, dead : BOOLEAN]
BodyEnds == {"open", "clean", "broken"}

\* Types, and that no channel is filled beyond its capacity.
TransferTypeOK ==
    /\ route \in Routes /\ attempt \in Nat /\ good \in BOOLEAN
    /\ left \in 0 .. Size + 1 /\ length \in 0 .. Size + 1
    /\ reader \in {"off", "run", "done"}
    /\ pipe \in Channels /\ sink \in Channels /\ chunks \in Channels
    /\ pipe.n <= ChannelCapacity /\ chunks.n <= ChannelCapacity /\ sink.n <= 1
    /\ get \in [sent : 0 .. Size + 1, got : 0 .. Size + 1, n : 0 .. ChannelCapacity, end : BodyEnds]
    /\ held \in {"none", "loop", "garbage", "nobody"}
    /\ loop \in {"begin", "open", "pull", "push", "close", "refused", "aborted", "await",
                 "finished", "failed"}
    /\ token \in BOOLEAN /\ broke \in BOOLEAN
    /\ request \in {"off", "connect", "send", "ok", "mismatch", "error", "cancelled"}
    /\ sent \in Nat
    /\ body \in [n : 0 .. ChannelCapacity, end : BodyEnds]
    /\ handler \in {"off", "ask", "body", "await", "done"}
    /\ writer \in {"off", "open", "run", "ok", "err"}
    /\ disk \in 0 .. Size + 1
    /\ told \in {"nothing", "ok", "error", "aborted"}
    /\ answer \in {"none", "saved", "mismatch", "error", "forbidden"}
    /\ status \in {"pending", "inProgress", "finished", "failed", "gone"}
    /\ starts \in 0 .. ReceiverAttempts
    /\ removed \in {"nothing", "target", "source"}

\* The target holds the file at its size, with the announced checksum.
Whole == disk = Size /\ (route.hash => good)

\* The receiving application is told that a file was saved only if all of it
\* arrived, from a body that ended properly, with the right checksum.
SavedIsWhole == told = "ok" => Whole /\ ~broke /\ writer = "ok"

\* The sender or the explorer is told that a file was transferred, and a move
\* deletes its source, only if the target holds the whole file: whatever the
\* file became since it was listed, whichever stage failed, was cut off or
\* closed early, and whichever answer raced with a cancel.
FinishedIsWhole ==
    loop = "finished" =>
        /\ Whole /\ writer = "ok"
        /\ HasRequest => told = "ok"

\* A file is repeated only while the receiver still takes it: the attempts of
\* the sender never outnumber those the receiver allows.
RetriesWelcome == answer = "forbidden" => status = "gone"

\* Nothing writes to a target any more when it is removed or when the next
\* attempt opens it.
OneWriter ==
    [][ /\ attempt' # attempt => WriterEnded
        /\ (removed' # removed /\ removed' = "target") => WriterEnded ]_transferVars

\* Nobody takes a file for complete that is not: neither the application
\* that saves it, nor the sender or explorer that sent it (the checks of
\* save_upload_to_target, upload_isolate and the explorer's copy and move).
WholeFiles == TransferTypeOK /\ SavedIsWhole /\ FinishedIsWhole

\* A retry is never one too many, and never meets the writer before it.
RetriesSafe == []RetriesWelcome /\ OneWriter

Over ==
    /\ loop \in {"finished", "failed"}
    /\ HasRequest => RequestEnded
    /\ handler \in {"off", "done"}
    /\ WriterEnded
    /\ reader # "run" \/ held = "garbage"

\* Every stage comes to an end, whoever fails, stops to read or closes
\* early: none waits for ever for room in a channel, for content or for a
\* result.  The one exception is the device that serves a remote file whose
\* response was abandoned: it waits for the collector.
EveryPartEnds == <>[]Over
=============================================================================
