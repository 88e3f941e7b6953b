--------------------------- MODULE WebRtcTransfer ---------------------------
(***************************************************************************)
(* A transfer over WebRTC (packages/core/src/webrtc/webrtc.rs): send_offer *)
(* on one device, accept_offer on the other, the data channel between them *)
(* and the controllers of api/webrtc.rs through which the two applications *)
(* take part.  Each end has a main function ("main": signaling, then a     *)
(* select of its task and the loss of the connection) and a task ("pc")    *)
(* that talks over the data channel.  A step of a task is what it does     *)
(* between two awaits of a message, of a user or of the buffer.            *)
(*                                                                         *)
(* A message is a record: "bin" tells binary from text, "t" is what it     *)
(* parses as, "x" its content.  Strings that are sent in chunks are one    *)
(* chunk and a delimiter, file data is counted in chunks.  Nonces, tokens  *)
(* and descriptions are opaque.                                            *)
(***************************************************************************)
EXTENDS Integers, Sequences, FiniteSets

CONSTANTS
    Files,       \* the files offered
    Size,        \* announced size of a file in chunks
    MaxTries,    \* PinConfig::max_tries
    Capacity,    \* of the channel behind to_receive_stream
    None         \* no file, no message

ASSUME ConstantsAssumption ==
    /\ IsFiniteSet(Files)
    /\ Size \in [Files -> Nat]
    /\ MaxTries \in Nat \ {0}
    /\ Capacity \in Nat \ {0}
    /\ None \notin Files \cup {"unexpected"}

Ends == {"sender", "receiver"}
Peer(e) == IF e = "sender" THEN "receiver" ELSE "sender"

VARIABLES
    main,       \* the main function of each end
    pc,         \* where the task of each end waits
    err,        \* why an end failed, if it did
    pins,       \* the ends that were configured with a PIN
    tries,      \* pin_try of each end's verify_pin
    typed,      \* history: the last PIN that was typed at an end
    offer,      \* the signaling channel: where offer and answer are
    conn,       \* the peer connection
    wire,       \* sent by an end and not yet delivered (buffered_amount)
    inbox,      \* the channel behind to_receive_stream of an end
    chunks,     \* what receive_string_from_chunks has collected
    selected,   \* the files of the receiver's selection
    given,      \* files the sender's application handed to send_file
    out,        \* the file being sent and the chunks it still has
    file,       \* file_state of the receiver
    held,       \* the message that ended a file, while its result is awaited
    app,        \* state of each file in the receiver's application
    alive,      \* whether that application still holds its controller
    results,    \* the channel of send_file_status
    told,       \* history: whose result was reported as that of a file
    cut         \* history: files cut off because they were too long

vars == <<main, pc, err, pins, tries, typed, offer, conn, wire, inbox, chunks,
          selected, given, out, file, held, app, alive, results, told, cut>>
pinVars == <<pins, tries, typed>>
fileVars == <<selected, given, out, file, held, app, alive, results, told, cut>>

Text(t, x) == [bin |-> FALSE, t |-> t, x |-> x]
Binary(t, x) == [bin |-> TRUE, t |-> t, x |-> x]

\* send_delimiter; a delimiter parses as no message.
Delimiter == Text("delimiter", None)
\* send_string_in_chunks and the delimiter its callers send after it.
InChunks(t, x) == <<Binary(t, x), Delimiter>>

NoFile == [id |-> None, received |-> 0]
NoOut == [id |-> None, left |-> 0]

Init ==
    /\ main = [e \in Ends |-> "signal"]
    /\ pc = [e \in Ends |-> "channel"]
    /\ err = [e \in Ends |-> None]
    /\ pins \in SUBSET Ends
    /\ tries = [e \in Ends |-> 0]
    /\ typed = [e \in Ends |-> "no"]
    /\ offer = "none"
    /\ conn = "none"
    /\ wire = [e \in Ends |-> <<>>]
    /\ inbox = [e \in Ends |-> <<>>]
    /\ chunks = [e \in Ends |-> <<>>]
    /\ selected = {}
    /\ given = {}
    /\ out = NoOut
    /\ file = NoFile
    /\ held = None
    /\ app = [f \in Files |-> "none"]
    /\ alive = TRUE
    /\ results = <<>>
    /\ told = [f \in Files |-> None]
    /\ cut = {}

-----------------------------------------------------------------------------
(* Signaling: send_offer registers its callback after the offer was sent,  *)
(* and the listener of the signaling connection drops an answer that finds *)
(* no callback.                                                            *)

signalUnchanged == <<pc, err, pins, tries, typed, wire, inbox, chunks, selected,
                     given, out, file, held, app, alive, results, told, cut>>

\* send_offer and send_answer of the managed connection queue a description.
SendSdp(description) == offer' = description

SendOffer ==
    /\ main["sender"] = "signal"
    /\ SendSdp("offered")
    /\ main' = [main EXCEPT !["sender"] = "register"]
    /\ UNCHANGED <<signalUnchanged, conn>>

OnAnswer ==
    /\ main["sender"] = "register"
    /\ main' = [main EXCEPT !["sender"] = "answer"]
    /\ UNCHANGED <<signalUnchanged, offer, conn>>

SendAnswer ==
    /\ main["receiver"] = "signal"
    /\ offer = "offered"
    /\ SendSdp("answered")
    /\ main' = [main EXCEPT !["receiver"] = "run"]
    /\ UNCHANGED <<signalUnchanged, conn>>

\* start_listener takes the answer; with it the descriptions are exchanged.
ListenerTakesAnswer ==
    /\ offer = "answered"
    /\ IF main["sender"] = "answer"
       THEN /\ offer' = "taken"
            /\ main' = [main EXCEPT !["sender"] = "run"]
       ELSE offer' = "lost" /\ UNCHANGED main
    /\ UNCHANGED <<signalUnchanged, conn>>

(* The peer connection (external): it comes up once both descriptions are  *)
(* set, is lost at any time, and with it what is still buffered.           *)
ChannelOpens ==
    /\ offer = "taken"
    /\ conn = "none"
    /\ conn' = "up"
    /\ UNCHANGED <<signalUnchanged, main, offer>>

ConnectionLost ==
    /\ conn = "up"
    /\ conn' = "lost"
    /\ wire' = [e \in Ends |-> <<>>]
    /\ UNCHANGED <<main, pc, err, pins, tries, typed, offer, inbox, chunks, selected,
                   given, out, file, held, app, alive, results, told, cut>>

\* The handler that to_receive_stream installed waits for room.
Deliver(e) ==
    /\ conn = "up"
    /\ wire[e] # <<>>
    /\ Len(inbox[Peer(e)]) < Capacity
    /\ inbox' = [inbox EXCEPT ![Peer(e)] = Append(@, Head(wire[e]))]
    /\ wire' = [wire EXCEPT ![e] = Tail(@)]
    /\ UNCHANGED <<main, pc, err, pins, tries, typed, offer, conn, chunks, selected,
                   given, out, file, held, app, alive, results, told, cut>>

-----------------------------------------------------------------------------
(* Steps of the tasks.  A task that is done or failed takes its main        *)
(* function along; a task whose main function is over goes on detached.     *)

SetMain(e, m) == main' = [main EXCEPT ![e] = IF @ = "run" THEN m ELSE @]
Goto(e, p) == pc' = [pc EXCEPT ![e] = p]

\* The task goes on and sends these messages; a lost connection refuses them.
Say(e, ms, p) ==
    /\ conn = "up"
    /\ wire' = [wire EXCEPT ![e] = @ \o ms]
    /\ Goto(e, p)
    /\ UNCHANGED <<main, err, offer, conn>>

Quietly(e, p) ==
    /\ Goto(e, p)
    /\ UNCHANGED <<main, err, offer, conn, wire>>

\* The task returns an error: the main function returns it, nothing is closed.
FailWith(e, why) ==
    /\ Goto(e, "failed")
    /\ err' = [err EXCEPT ![e] = why]
    /\ SetMain(e, "error")
    /\ UNCHANGED <<offer, conn>>

Fail(e, why) == FailWith(e, why) /\ UNCHANGED wire

\* It does so after it has told the peer.
LastWords(e, ms, why) ==
    /\ conn = "up"
    /\ wire' = [wire EXCEPT ![e] = @ \o ms]
    /\ FailWith(e, why)

\* The task returns Ok: the main function goes on to close the connection.
Done(e) ==
    /\ Goto(e, "done")
    /\ SetMain(e, "closing")
    /\ UNCHANGED <<err, offer, conn>>

\* A message of the peer is taken from the stream.
Message(e) == Head(inbox[e])
Receives(e, p) ==
    /\ pc[e] = p
    /\ inbox[e] # <<>>
    /\ inbox' = [inbox EXCEPT ![e] = Tail(@)]

\* A send of a task fails because the connection is gone.
SendFails(e) ==
    /\ conn = "lost"
    /\ \/ pc[e] \in {"enter", "select", "result", "next"}
       \/ /\ pc[e] \in {"nonce", "token", "tokenResponse", "pinResponse", "verify"}
          /\ inbox[e] # <<>>
    /\ Fail(e, "send")
    /\ UNCHANGED <<inbox, chunks, pinVars, fileVars>>

\* data channel open: the sender says its nonce, the receiver waits for one.
StartTask(e) ==
    /\ conn = "up"
    /\ pc[e] = "channel"
    /\ IF e = "sender" THEN Say(e, <<Text("nonce", None)>>, "nonce") ELSE Quietly(e, "nonce")
    /\ UNCHANGED <<inbox, chunks, pinVars, fileVars>>

\* receive_nonce, and what each end says next.
ReceiveNonce(e) ==
    /\ Receives(e, "nonce")
    /\ IF Message(e).t # "nonce"
       THEN Fail(e, "unexpected")
       ELSE IF e = "sender" THEN Say(e, <<Text("token", None)>>, "tokenResponse")
                            ELSE Say(e, <<Text("nonce", None)>>, "token")
    /\ UNCHANGED <<chunks, pinVars, fileVars>>

\* The receiver checks the sender's token, if it expects a key, and answers.
ReceiveToken ==
    LET e == "receiver" IN
    /\ Receives(e, "token")
    /\ IF Message(e).t # "token"
       THEN Fail(e, "unexpected")
       ELSE \/ IF e \in pins
               THEN Say(e, <<Text("tokenResponse", "pin")>>, "verify")
               ELSE Say(e, <<Text("tokenResponse", "ok")>>, "list")
            \/ LastWords(e, <<Text("tokenResponse", "invalid")>>, "signature")
    /\ UNCHANGED <<chunks, pinVars, fileVars>>

\* Where the sender goes once it has no PIN to enter: it challenges the
\* receiver (verify_pin with the initial notice) or sends the file list.
SenderVerifies ==
    IF "sender" \in pins
    THEN Say("sender", InChunks("pinRequired", None), "verify")
    ELSE Say("sender", InChunks("list", None), "selection")

\* The sender checks the receiver's token, if it expects a key.
ReceiveTokenResponse ==
    LET e == "sender" IN
    /\ Receives(e, "tokenResponse")
    /\ IF Message(e).t # "tokenResponse"
       THEN Fail(e, "unexpected")
       ELSE \/ Message(e).x = "pin" /\ Quietly(e, "enter")
            \/ Message(e).x = "ok" /\ SenderVerifies
            \/ Fail(e, "signature")
    /\ UNCHANGED <<chunks, pinVars, fileVars>>

-----------------------------------------------------------------------------
(* PIN: handle_pin at the end that enters it, verify_pin at the other one. *)

\* send_pin of a controller takes the one sender that was left for it.
PinEntered(e, pin) == typed' = [typed EXCEPT ![e] = pin]

\* The user enters a PIN or closes the dialog.
EnterPin(e) ==
    /\ pc[e] = "enter"
    /\ \/ \E pin \in {"wrong", "right"} :
            /\ PinEntered(e, pin)
            /\ Say(e, <<Text("pin", pin)>>, IF e = "sender" THEN "pinResponse" ELSE "list")
       \/ Fail(e, "user") /\ UNCHANGED typed
    /\ UNCHANGED <<inbox, chunks, pins, tries, fileVars>>

\* The sender reads the receiver's verdict on its PIN.
ReceivePinResponse ==
    LET e == "sender" IN
    /\ Receives(e, "pinResponse")
    /\ CASE Message(e) = Text("pinOk", None)       -> SenderVerifies
         [] Message(e) = Text("pinRequired", None) -> Quietly(e, "enter")
         [] Message(e) = Text("tooMany", None)     -> Fail(e, "tooMany")
         [] OTHER                                  -> Fail(e, "unexpected")
    /\ UNCHANGED <<chunks, pinVars, fileVars>>

\* Broken variant: the sender's verdict is not sent in chunks.
VerdictAsText(e, t) == <<Text(t, None)>>

\* A verdict is one text message of the receiver, chunks of the sender.
Verdict(e, t) == IF e = "receiver" THEN <<Text(t, None)>> ELSE InChunks(t, None)

\* verify_pin; the right PIN is followed by Ok or by the file list.
VerifyPin(e) ==
    /\ Receives(e, "verify")
    /\ IF Message(e).t # "pin"
       THEN Fail(e, "unexpected") /\ UNCHANGED tries
       ELSE /\ tries' = [tries EXCEPT ![e] = @ + 1]
            /\ CASE Message(e).x = "right" ->
                       IF e = "receiver" THEN Say(e, Verdict(e, "pinOk"), "list")
                                         ELSE Say(e, InChunks("list", None), "selection")
                 [] Message(e).x = "wrong" /\ tries[e] + 1 < MaxTries ->
                       Say(e, Verdict(e, "pinRequired"), "verify")
                 [] Message(e).x = "wrong" /\ tries[e] + 1 >= MaxTries ->
                       LastWords(e, Verdict(e, "tooMany"), "tooMany")
    /\ UNCHANGED <<chunks, pins, typed, fileVars>>

-----------------------------------------------------------------------------
(* File list and selection, both in chunks (receive_string_from_chunks).   *)

\* A chunk is collected.
Collect(e, p) ==
    /\ Receives(e, p)
    /\ Message(e).bin
    /\ chunks' = [chunks EXCEPT ![e] = Append(@, Message(e))]
    /\ Quietly(e, p)
    /\ UNCHANGED <<pinVars, fileVars>>

\* The next text, whatever it says, ends the string.
StringEnds(e, p) ==
    /\ Receives(e, p)
    /\ ~Message(e).bin
    /\ chunks' = [chunks EXCEPT ![e] = <<>>]

\* What a complete string parses as, if it is exactly one message.
Parsed(e) == IF Len(chunks[e]) = 1 THEN chunks[e][1].t ELSE "nothing"

\* The file list, or that the sender wants a PIN first or gives up; the
\* latter is only expected once a PIN was entered.
ReceiveList ==
    LET e == "receiver" IN
    /\ StringEnds(e, "list")
    /\ CASE Parsed(e) = "list"        -> Quietly(e, "select")
         [] Parsed(e) = "pinRequired" -> Quietly(e, "enter")
         [] Parsed(e) = "tooMany"     -> Fail(e, IF typed[e] = "no" THEN "unexpected" ELSE "tooMany")
         [] OTHER                     -> Fail(e, "unexpected")
    /\ UNCHANGED <<pinVars, fileVars>>

\* send_selection and decline of the receiving controller, which answer once.
SendSelection(s) ==
    /\ alive
    /\ selected' = s
    /\ Say("receiver", InChunks("selection", None), "files")

Decline ==
    /\ alive /\ conn = "up"
    /\ wire' = [wire EXCEPT !["receiver"] = @ \o InChunks("declined", None)]
    /\ Done("receiver")
    /\ UNCHANGED selected

\* The receiving user selects files, declines, or the controller is dropped.
Select ==
    LET e == "receiver" IN
    /\ pc[e] = "select"
    /\ \/ \E s \in SUBSET Files : SendSelection(s)
       \/ Decline
       \/ ~alive /\ Done(e) /\ UNCHANGED <<wire, selected>>
    /\ UNCHANGED <<inbox, chunks, pinVars, given, out, file, held, app, alive, results,
                   told, cut>>

\* The selection is published to the application, which may be gone.
PublishSelection == Quietly("sender", "next") \/ Fail("sender", "user")

ReceiveSelection ==
    LET e == "sender" IN
    /\ StringEnds(e, "selection")
    /\ CASE Parsed(e) = "selection" -> PublishSelection
         [] Parsed(e) = "declined"  -> Done(e) /\ UNCHANGED wire
         [] OTHER                   -> Fail(e, "unexpected")
    /\ UNCHANGED <<pinVars, fileVars>>

-----------------------------------------------------------------------------
(* The files.                                                              *)

\* send_file of the sending controller: a file is handed over once.
HandOver(f) ==
    /\ f \notin given
    /\ given' = given \cup {f}

\* The application hands over the next file with as many chunks as it
\* really has (RTCFileSender::send gives one).  A file that was not selected, or whose
\* header cannot be sent, is reported to the application and skipped.
SendFile(f, n) ==
    /\ pc["sender"] = "next"
    /\ HandOver(f)
    /\ IF f \in selected /\ conn = "up"
       THEN /\ Say("sender", <<Text("header", f)>>, "stream")
            /\ out' = [id |-> f, left |-> n]
       ELSE Quietly("sender", "next") /\ UNCHANGED out
    /\ UNCHANGED <<inbox, chunks, pinVars, selected, file, held, app, alive, results, told,
                   cut>>

\* process_in_chunks; a chunk that cannot be sent ends the file.
SendChunk ==
    /\ pc["sender"] = "stream"
    /\ IF out.left > 0 /\ conn = "up"
       THEN /\ Say("sender", <<Binary("data", out.id)>>, "stream")
            /\ out' = [out EXCEPT !.left = @ - 1]
       ELSE Quietly("sender", "next") /\ out' = NoOut
    /\ UNCHANGED <<inbox, chunks, pinVars, selected, given, file, held, app, alive, results,
                   told, cut>>

\* No more files: the buffer runs empty before the delimiter is sent.
SendDelimiter ==
    /\ pc["sender"] = "next"
    /\ wire["sender"] = <<>>
    /\ Say("sender", <<Delimiter>>, "last")
    /\ UNCHANGED <<inbox, chunks, pinVars, fileVars>>

\* One more message of the receiver, whichever it is, ends the task.
ReceiveLast ==
    /\ Receives("sender", "last")
    /\ Done("sender")
    /\ UNCHANGED <<wire, chunks, pinVars, fileVars>>

\* listen_receiving hands the file and its stream to the application.
ListenReceiving(f) == app' = [app EXCEPT ![f] = IF alive THEN "open" ELSE "stopped"]

\* Whether the application still reads the stream (RTCFileReceiver::receive).
Reads(f) == app[f] = "open"

\* A text while no file is open must be the header of a selected file; the
\* delimiter is none.  A file goes to the application with its stream.
OpenFile(m) ==
    IF m.t # "header"
    THEN Fail("receiver", IF m = Delimiter THEN "noFile" ELSE "unexpected") /\ UNCHANGED <<file, app>>
    ELSE /\ Quietly("receiver", "files")
         /\ IF m.x \in selected
            THEN /\ file' = [id |-> m.x, received |-> 0]
                 /\ ListenReceiving(m.x)
            ELSE UNCHANGED <<file, app>>

\* The application's receiver of a file sees the end of its stream.
Ended(f) == [app EXCEPT ![f] = IF @ = "open" THEN "ended" ELSE @]

\* Broken variant: a file is only over when all of it has arrived.
ReceiveTextIncomplete ==
    /\ Receives("receiver", "files")
    /\ ~Message("receiver").bin
    /\ CASE file.id = None -> OpenFile(Message("receiver")) /\ UNCHANGED held
         [] file.id # None /\ file.received < Size[file.id] ->
               Quietly("receiver", "files") /\ UNCHANGED <<file, held, app>>
         [] OTHER -> /\ app' = Ended(file.id)
                     /\ held' = Message("receiver")
                     /\ Quietly("receiver", "result")
                     /\ UNCHANGED file
    /\ UNCHANGED <<chunks, pinVars, selected, given, out, alive, results, told, cut>>

\* A text ends the file that is open, whose result is awaited next.
ReceiveText ==
    /\ Receives("receiver", "files")
    /\ ~Message("receiver").bin
    /\ IF file.id = None
       THEN OpenFile(Message("receiver")) /\ UNCHANGED held
       ELSE /\ app' = Ended(file.id)
            /\ held' = Message("receiver")
            /\ Quietly("receiver", "result")
            /\ UNCHANGED file
    /\ UNCHANGED <<chunks, pinVars, selected, given, out, alive, results, told, cut>>

\* The result of the file that ended is the next one in the channel, or
\* that there will be none; it is sent, and after the delimiter the loop ends.
ReceiveResult ==
    /\ pc["receiver"] = "result"
    /\ \/ /\ results # <<>>
          /\ results' = Tail(results)
          /\ told' = [told EXCEPT ![file.id] = Head(results)]
       \/ results = <<>> /\ ~alive /\ UNCHANGED <<results, told>>
    /\ file' = NoFile
    /\ Say("receiver", <<Text("result", file.id)>>,
           IF held = Delimiter THEN "flush" ELSE "header")
    /\ UNCHANGED <<inbox, chunks, pinVars, selected, given, out, held, app, alive, cut>>

\* The text that ended the last file is handled as the header it should be.
HandleHeader ==
    /\ pc["receiver"] = "header"
    /\ OpenFile(held)
    /\ held' = None
    /\ UNCHANGED <<inbox, chunks, pinVars, selected, given, out, alive, results, told, cut>>

\* Wait until the last result is sent, for at most five seconds.
Flush ==
    /\ pc["receiver"] = "flush"
    /\ Done("receiver")
    /\ UNCHANGED <<wire, inbox, chunks, pinVars, fileVars>>

\* A chunk for the application; one too many ends the file, one that
\* nobody reads ends the transfer, one without a header is reported.
ReceiveData ==
    LET e == "receiver" IN
    /\ Receives(e, "files")
    /\ Message(e).bin
    /\ IF file.id = None
       THEN Quietly(e, "files") /\ UNCHANGED <<file, app, cut>>
       ELSE IF file.received + 1 > Size[file.id]
            THEN /\ app' = Ended(file.id)
                 /\ cut' = cut \cup {file.id}
                 /\ file' = NoFile
                 /\ Quietly(e, "files")
            ELSE /\ file' = [file EXCEPT !.received = @ + 1]
                 /\ IF Reads(file.id) THEN Quietly(e, "files") ELSE Fail(e, "app")
                 /\ UNCHANGED <<app, cut>>
    /\ UNCHANGED <<chunks, pinVars, selected, given, out, held, alive, results, told>>

\* The receiving application reports a file (send_file_status): when its
\* stream ended, or before, when it cannot go on and stops to read.
AppReports(f) ==
    /\ alive
    /\ app[f] \in {"open", "ended"}
    /\ app' = [app EXCEPT ![f] = "stopped"]
    /\ results' = Append(results, f)
    /\ UNCHANGED <<main, pc, err, pinVars, offer, conn, wire, inbox, chunks, selected,
                   given, out, file, held, alive, told, cut>>

\* The receiving application drops its controller.
AppGone ==
    /\ alive
    /\ alive' = FALSE
    /\ app' = [f \in Files |-> IF app[f] = "none" THEN "none" ELSE "stopped"]
    /\ UNCHANGED <<main, pc, err, pinVars, offer, conn, wire, inbox, chunks, selected,
                   given, out, file, held, results, told, cut>>

-----------------------------------------------------------------------------
(* The ends of the main functions.                                         *)

\* done_rx of create_peer_connection: the state became Disconnected.
Disconnected(e) ==
    /\ conn = "lost"
    /\ main[e] = "run"
    /\ main' = [main EXCEPT ![e] = "finished"]
    /\ UNCHANGED <<pc, err, pinVars, offer, conn, wire, inbox, chunks, fileVars>>

\* Broken variant: the connection is not closed.
CloseNothing(e) ==
    /\ main[e] = "closing"
    /\ main' = [main EXCEPT ![e] = "finished"]
    /\ UNCHANGED <<pc, err, pinVars, offer, conn, wire, inbox, chunks, fileVars>>

\* The task is done: Finished is reported and the connection closed, which
\* drops what is still buffered at either end.
Close(e) ==
    /\ main[e] = "closing"
    /\ main' = [main EXCEPT ![e] = "finished"]
    /\ conn' = "lost"
    /\ wire' = [d \in Ends |-> <<>>]
    /\ UNCHANGED <<pc, err, pinVars, offer, inbox, chunks, fileVars>>

Task(e) ==
    \/ StartTask(e) \/ ReceiveNonce(e) \/ VerifyPin(e) \/ Close(e) \/ Disconnected(e)

SenderTask ==
    \/ ReceiveTokenResponse \/ ReceivePinResponse \/ Collect("sender", "selection")
    \/ ReceiveSelection \/ SendChunk \/ SendDelimiter \/ ReceiveLast

ReceiverTask ==
    \/ ReceiveToken \/ Collect("receiver", "list") \/ ReceiveList \/ ReceiveText
    \/ ReceiveResult \/ HandleHeader \/ ReceiveData \/ Flush

Signal == SendOffer \/ OnAnswer \/ SendAnswer \/ ListenerTakesAnswer \/ ChannelOpens

Next ==
    \/ Signal \/ ConnectionLost \/ SenderTask \/ ReceiverTask \/ Select \/ AppGone
    \/ \E e \in Ends : Task(e) \/ Deliver(e) \/ EnterPin(e) \/ SendFails(e)
    \/ \E f \in Files : AppReports(f) \/ \E n \in 0 .. Size[f] + 1 : SendFile(f, n)

\* Tasks are polled, the connection delivers, users and applications act.
Fairness ==
    /\ \A e \in Ends : WF_vars(Task(e)) /\ WF_vars(Deliver(e)) /\ WF_vars(EnterPin(e))
    /\ WF_vars(SenderTask) /\ WF_vars(ReceiverTask) /\ WF_vars(Select)
    /\ \A f \in Files : WF_vars(AppReports(f))

Spec == Init /\ [][Next]_vars /\ Fairness
-----------------------------------------------------------------------------
Messages ==
    {Text(t, None) : t \in {"nonce", "token", "pinOk", "pinRequired", "tooMany", "delimiter"}}
    \cup {Text("tokenResponse", x) : x \in {"ok", "pin", "invalid"}}
    \cup {Text("pin", x) : x \in {"wrong", "right"}}
    \cup {Text(t, f) : t \in {"header", "result"}, f \in Files}
    \cup {Binary(t, None) : t \in {"pinRequired", "tooMany", "list", "selection", "declined"}}
    \cup {Binary("data", f) : f \in Files}

TypeOK ==
    /\ main \in [Ends -> {"signal", "register", "answer", "run", "closing", "finished", "error"}]
    /\ pc \in [Ends -> {"channel", "nonce", "token", "tokenResponse", "enter", "pinResponse",
                        "verify", "list", "select", "selection", "next", "stream", "last",
                        "files", "result", "header", "flush", "done", "failed"}]
    /\ err \in [Ends -> {None, "send", "unexpected", "signature", "user", "tooMany", "noFile", "app"}]
    /\ pins \subseteq Ends
    /\ tries \in [Ends -> 0 .. MaxTries]
    /\ typed \in [Ends -> {"no", "wrong", "right"}]
    /\ offer \in {"none", "offered", "answered", "taken", "lost"}
    /\ conn \in {"none", "up", "lost"}
    /\ wire \in [Ends -> Seq(Messages)]
    /\ inbox \in [Ends -> Seq(Messages)]
    /\ chunks \in [Ends -> Seq(Messages)]
    /\ selected \subseteq Files /\ given \subseteq Files /\ cut \subseteq Files
    /\ out \in [id : Files \cup {None}, left : Nat]
    /\ file \in [id : Files \cup {None}, received : Nat]
    /\ held \in Messages \cup {None}
    /\ app \in [Files -> {"none", "open", "ended", "stopped"}]
    /\ alive \in BOOLEAN
    /\ results \in Seq(Files)
    /\ told \in [Files -> Files \cup {None}]

\* The two sequential protocols fit: no end ever reads a message it cannot
\* parse where it stands, whoever wants a PIN, however often it is mistyped,
\* and whatever is selected (the only exception is the delimiter while no
\* file is open, which fails the receiver on its own).
InStep == \A e \in Ends : err[e] # "unexpected"

\* The file list leaves the sender only after every end with a PIN has got
\* it from the other user, within the allowed number of attempts.
PinsFirst ==
    pc["sender"] \in {"selection", "next", "stream", "last"} =>
        \A e \in pins : typed[Peer(e)] = "right" /\ tries[e] \in 1 .. MaxTries

\* A chunk that arrives while a file is open belongs to that file: header,
\* result and rest of a file cut off never shift data to another file.
ChunkBelongs ==
    (pc["receiver"] = "files" /\ file.id # None /\ inbox["receiver"] # <<>>
        /\ Message("receiver").bin) => Message("receiver").x = file.id

\* The result that is sent for a file is the one the application gave for
\* it, although results carry no ID: until a file is cut off for its length
\* (its result then stays in the channel for the next file).
ResultsMatch == cut = {} => \A f \in Files : told[f] \in {f, None}

\* When the sender closes the connection of its own accord, no file data
\* is buffered any more that closing would lose.
CloseLosesNoData ==
    main["sender"] = "closing" =>
        \A i \in DOMAIN wire["sender"] : wire["sender"][i].t # "data"

\* The two sequential protocols fit each other: the state stays well typed
\* (the PIN counter within its limit), nobody reads what he cannot parse,
\* and no file list leaves before the PINs of webrtc.rs are settled.
ProtocolFits == TypeOK /\ InStep /\ PinsFirst

\* File data and results reach the file they belong to, and closing loses
\* none of the data (the receive loop of accept_offer, wait_buffer_empty).
DataBelongs == ChunkBelongs /\ ResultsMatch /\ CloseLosesNoData

\* Once the channel is open each end comes to an end, unless the other one
\* failed (which closes nothing) - through all waits for messages, users,
\* results and the buffer, and whatever is lost with the connection.
EachEndEnds ==
    \A e \in Ends :
        conn = "up" ~> (main[e] \in {"finished", "error"} \/ main[Peer(e)] = "error")
=============================================================================
