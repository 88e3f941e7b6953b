----------------------------- MODULE HttpServer -----------------------------
(***************************************************************************)
(* The life of the HTTP server: its listeners, connections and the stop    *)
(* signal (packages/core/src/http/server/mod.rs), the bridge that starts,  *)
(* listens to and stops it (localsend_isolates/rust/src/api/server.rs) and *)
(* the Dart service that owns it (task/server/http_server.dart).  Instance *)
(* n is the one of the n-th call of start_server.                          *)
(*                                                                         *)
(* What a request does once its event has reached the application is the   *)
(* subject of UploadSession, WebSend and RemoteFs; here it is answered or  *)
(* it waits.  The PIN in front of two of the routes is PinGate.            *)
(***************************************************************************)
EXTENDS Integers, Sequences, FiniteSets

CONSTANTS
  Conns,           \* connections
  Peers,           \* addresses of remote devices
  From,            \* the address of each connection
  Cert,            \* what it presents: "valid", "invalid" or "none"
  Config,          \* the configuration of each call of start_server
  MaxStarts,       \* bound: calls of start_server
  Capacity,        \* of each event channel
  CacheSize,       \* addresses whose PIN failures are remembered
  MaxPinAttempts,  \* MAX_PIN_ATTEMPTS
  None             \* nobody

Routes == {"v2", "web", "internal", "remote"}
Sockets == {"v4", "v6"}

ASSUME ConstantsAssumption ==
  /\ From \in [Conns -> Peers]
  /\ Cert \in [Conns -> {"valid", "invalid", "none"}]
  /\ DOMAIN Config = 1..MaxStarts
  /\ \A n \in 1..MaxStarts :
       /\ DOMAIN Config[n] = {"routes", "tls", "upload", "pin"}
       /\ "v2" \in Config[n].routes /\ Config[n].routes \subseteq Routes
       /\ Config[n].pin \subseteq {"v2", "web"} /\ Cardinality(Config[n].pin) <= 1
  /\ MaxStarts \in Nat \ {0} /\ Capacity \in Nat \ {0}
  /\ CacheSize \in Nat \ {0} /\ MaxPinAttempts \in Nat \ {0}
  /\ None \notin 1..MaxStarts /\ None \notin Routes /\ None \notin {"start", "stop"}

Instances == 1..MaxStarts

VARIABLES
  starts,    \* calls of start_server so far
  cur,       \* RUNNING_SERVER: the instance in it, or 0
  lock,      \* who holds the lock of RUNNING_SERVER
  startPc,   \* the call that starts an instance
  stopPc,    \* RsHttpServer::stop of an instance
  txLock,    \* who holds the lock of an instance's stop_tx
  stopTx,    \* stop_tx: not yet made, kept, sent
  task,      \* the server task of an instance
  accept,    \* its accept loops: the sockets they listen on
  conn,      \* each connection: its state, instance and route
  chan,      \* the event channels: the connections whose events they hold
  reads,     \* the channels listen still reads
  listener,  \* RsHttpServer::listen of an instance
  sink,      \* whether its Dart listener exists
  held,      \* connections whose responder the bridge keeps
  dart,      \* the Dart service: what it does, and with which instance
  cache,     \* PinGate: failures per address
  others     \* PinGate: its history

callVars == <<starts, cur, lock, startPc, stopPc, txLock, stopTx>>
serverVars == <<task, accept, conn>>
bridgeVars == <<chan, reads, listener, sink, held>>
pinVars == <<cache, others>>
vars == <<callVars, serverVars, bridgeVars, dart, pinVars>>

Pin == INSTANCE PinGate

Init ==
  /\ starts = 0 /\ cur = 0 /\ lock = None
  /\ startPc = [n \in Instances |-> "none"]
  /\ stopPc = [n \in Instances |-> "none"]
  /\ txLock = [n \in Instances |-> None]
  /\ stopTx = [n \in Instances |-> "none"]
  /\ task = [n \in Instances |-> "none"]
  /\ accept = [n \in Instances |-> {}]
  /\ conn = [c \in Conns |-> [at |-> "new", of |-> 0, route |-> None]]
  /\ chan = [n \in Instances |-> [k \in Routes |-> <<>>]]
  /\ reads = [n \in Instances |-> {}]
  /\ listener = [n \in Instances |-> "none"]
  /\ sink = [n \in Instances |-> FALSE]
  /\ held = {}
  /\ dart = [at |-> "idle", of |-> 0]
  /\ Pin!Init

-----------------------------------------------------------------------------
(* start_server.  The lock of RUNNING_SERVER is held to its end. *)

DartStarts ==
  /\ dart.at = "idle" /\ starts < MaxStarts
  /\ starts' = starts + 1
  /\ startPc' = [startPc EXCEPT ![starts + 1] = "lock"]
  /\ dart' = [at |-> "starting", of |-> starts + 1]
  /\ UNCHANGED <<cur, lock, stopPc, txLock, stopTx, serverVars, bridgeVars,
                 pinVars>>

StartLocks(n) ==
  /\ startPc[n] = "lock" /\ lock = None
  /\ lock' = n
  /\ startPc' = [startPc EXCEPT ![n] = IF cur = 0 THEN "bind" ELSE "stopOld"]
  /\ UNCHANGED <<starts, cur, stopPc, txLock, stopTx, serverVars, bridgeVars,
                 dart, pinVars>>

\* ServerInstance::stop, called by "who": the first caller sends the signal
\* and waits for the task with the lock of stop_tx in its hands, so that a
\* second one waits for that lock.
TakeStopTx(n, who) ==
  /\ txLock[n] = None /\ stopTx[n] = "kept"
  /\ txLock' = [txLock EXCEPT ![n] = who]
  /\ stopTx' = [stopTx EXCEPT ![n] = "sent"]

StopWaited(n, who) ==
  \/ txLock[n] = None /\ stopTx[n] = "sent" /\ UNCHANGED txLock
  \/ /\ txLock[n] = who /\ task[n] = "ended"
     /\ txLock' = [txLock EXCEPT ![n] = None]

StartTakesStopTx(n) ==
  /\ startPc[n] = "stopOld"
  /\ TakeStopTx(cur, "start")
  /\ UNCHANGED <<starts, cur, lock, startPc, stopPc, serverVars, bridgeVars,
                 dart, pinVars>>

\* Broken variant: the signal is sent and nobody waits.
StartStoppedOldAtOnce(n) ==
  /\ startPc[n] = "stopOld" /\ txLock[cur] = "start"
  /\ txLock' = [txLock EXCEPT ![cur] = None]
  /\ cur' = 0
  /\ startPc' = [startPc EXCEPT ![n] = "bind"]
  /\ UNCHANGED <<starts, lock, stopPc, stopTx, serverVars, bridgeVars, dart,
                 pinVars>>

StartStoppedOld(n) ==
  /\ startPc[n] = "stopOld"
  /\ StopWaited(cur, "start")
  /\ cur' = 0
  /\ startPc' = [startPc EXCEPT ![n] = "bind"]
  /\ UNCHANGED <<starts, lock, stopPc, stopTx, serverVars, bridgeVars, dart,
                 pinVars>>

Bound(n) == accept[n] # {}

\* The port is taken, or the file system is to be served without TLS: the
\* call fails and no server is left.
StartFails(n) ==
  /\ startPc[n] = "bind"
  /\ lock' = None
  /\ startPc' = [startPc EXCEPT ![n] = "failed"]
  /\ dart' = IF dart.of = n THEN [at |-> "idle", of |-> 0] ELSE dart
  /\ UNCHANGED <<starts, cur, stopPc, txLock, stopTx, serverVars, bridgeVars,
                 pinVars>>

\* The server is the running one, and start_server returns.
Running(n) ==
  /\ stopTx' = [stopTx EXCEPT ![n] = "kept"]
  /\ cur' = n
  /\ lock' = None
  /\ startPc' = [startPc EXCEPT ![n] = "started"]

\* The listeners are bound, IPv6 if possible, and the task is spawned with a
\* state of its own, so every PIN failure is forgotten.  An unusable
\* certificate ends the task at once, which the caller does not learn.
Start(n, sockets, certificate) ==
  /\ startPc[n] = "bind"
  /\ \A m \in Instances : ~Bound(m)
  /\ "remote" \in Config[n].routes => Config[n].tls
  /\ ~certificate => Config[n].tls
  /\ task' = [task EXCEPT ![n] = IF certificate THEN "running" ELSE "closing"]
  /\ accept' = [accept EXCEPT ![n] = IF certificate THEN sockets ELSE {}]
  /\ Running(n)
  /\ cache' = <<>>
  /\ others' = [p \in Peers |-> {}]
  /\ UNCHANGED <<starts, stopPc, txLock, conn, bridgeVars, dart>>

-----------------------------------------------------------------------------
(* The server task and its connections. *)

\* The stop signal drops the listeners; connections are dropped after that.
TaskStops(n) ==
  /\ task[n] = "running" /\ stopTx[n] = "sent"
  /\ task' = [task EXCEPT ![n] = "closing"]
  /\ accept' = [accept EXCEPT ![n] = {}]
  /\ UNCHANGED <<callVars, conn, bridgeVars, dart, pinVars>>

Live(c) == conn[c].at \notin {"new", "closed"}

\* The connection is gone, by either side: its request is dropped wherever
\* it waits.
Close(c) == conn' = [conn EXCEPT ![c].at = "closed"]

ConnectionDropped(c) ==
  /\ Live(c) /\ task[conn[c].of] = "closing"
  /\ Close(c)
  /\ UNCHANGED <<callVars, task, accept, bridgeVars, dart, pinVars>>

TaskEnds(n) ==
  /\ task[n] = "closing"
  /\ \A c \in Conns : Live(c) => conn[c].of # n
  /\ task' = [task EXCEPT ![n] = "ended"]
  /\ UNCHANGED <<callVars, accept, conn, bridgeVars, dart, pinVars>>

\* A connection reaches one of the loops.  An accept that fails is repeated,
\* after a pause if it would fail again at once; it never ends the loop.
Accept(n, s, c) ==
  /\ s \in accept[n] /\ conn[c].at = "new"
  /\ conn' = [conn EXCEPT ![c] = [at |-> "handshake", of |-> n, route |-> None]]
  /\ UNCHANGED <<callVars, task, accept, bridgeVars, dart, pinVars>>

\* A client certificate is required unless browsers are served, which have
\* none; one that is presented is verified in any case.
Optional(n) == "web" \in Config[n].routes \/ Config[n].upload

Admitted(c) ==
  LET n == conn[c].of IN
  ~Config[n].tls \/ Cert[c] = "valid" \/ (Cert[c] = "none" /\ Optional(n))

Handshake(c) ==
  /\ conn[c].at = "handshake"
  /\ IF Admitted(c) THEN conn' = [conn EXCEPT ![c].at = "ready"] ELSE Close(c)
  /\ UNCHANGED <<callVars, task, accept, bridgeVars, dart, pinVars>>

ClientLeaves(c) ==
  /\ Live(c)
  /\ Close(c)
  /\ UNCHANGED <<callVars, task, accept, bridgeVars, dart, pinVars>>

\* What the server knows of the client is the certificate it presented.
Identified(c) == Config[conn[c].of].tls /\ Cert[c] # "none"

\* The route exists, and the file system knows whom it serves.  Any other
\* request is answered with an error and changes nothing.
Routed(c, k) ==
  /\ k \in Config[conn[c].of].routes
  /\ k = "remote" => Identified(c)

\* PeerIp without the scope of a link-local address, by which PIN failures are
\* counted.
Ip(c) == From[c]

\* A request is routed; with a PIN it has to pass PinGate first.
RequestStarts(c, k) == conn' = [conn EXCEPT ![c].at = "send", ![c].route = k]

Request(c, k) ==
  /\ conn[c].at = "ready"
  /\ Routed(c, k)
  /\ IF k \in Config[conn[c].of].pin
     THEN Pin!CheckRight(Ip(c))
     ELSE UNCHANGED pinVars
  /\ RequestStarts(c, k)
  /\ UNCHANGED <<callVars, task, accept, bridgeVars, dart>>

RequestRefused(c, k) ==
  /\ conn[c].at = "ready"
  /\ Routed(c, k) /\ k \in Config[conn[c].of].pin
  /\ \/ Pin!CheckBlocked(Ip(c))
     \/ Pin!CheckWrong(Ip(c))
     \/ Pin!CheckAbsent(Ip(c))
  /\ UNCHANGED <<callVars, serverVars, bridgeVars, dart>>

\* The request is answered: the connection is ready for the next one.
Answered(cs) ==
  conn' = [c \in Conns |->
             IF c \in cs /\ Live(c)
             THEN [conn[c] EXCEPT !.at = "ready", !.route = None] ELSE conn[c]]

\* The event waits for room in its channel.  A channel nobody reads any more
\* refuses it.  The internal route does not wait for an answer.
SendEvent(c) ==
  /\ conn[c].at = "send"
  /\ LET n == conn[c].of
         k == conn[c].route
     IN IF listener[n] = "ended" \/ (listener[n] = "on" /\ k \notin reads[n])
        THEN /\ Answered({c})
             /\ UNCHANGED chan
        ELSE /\ Len(chan[n][k]) < Capacity
             /\ chan' = [chan EXCEPT ![n][k] = Append(@, c)]
             /\ IF k = "internal" THEN Answered({c})
                ELSE conn' = [conn EXCEPT ![c].at = "asking"]
  /\ UNCHANGED <<callVars, task, accept, reads, listener, sink, held, dart, pinVars>>

-----------------------------------------------------------------------------
(* listen: the events of every channel go to Dart, one at a time. *)

Asking(n) == {c \in Conns : conn[c].of = n /\ conn[c].at = "asking"}
OfRemote(cs) == {c \in cs : conn[c].route = "remote"}

\* listen returns: the events it did not take are dropped with their
\* responders, and so are the responders of the file system it kept.  Those
\* requests end with an error; the other responders stay with the server.
ListenEnds(n, keeps) ==
  /\ listener' = [listener EXCEPT ![n] = "ended"]
  /\ reads' = [reads EXCEPT ![n] = {}]
  /\ chan' = [chan EXCEPT ![n] = [k \in Routes |-> <<>>]]
  /\ held' = (held \cup keeps) \ OfRemote(Asking(n))
  /\ Answered(Asking(n) \ held')

\* One event: its responder is kept, unless it has none, and Dart is told.  If
\* Dart no longer listens, that is noticed here and ends listen.
Listen(n, k) ==
  /\ listener[n] = "on" /\ k \in reads[n] /\ chan[n][k] # <<>>
  /\ LET keeps == IF k = "internal" THEN {} ELSE {Head(chan[n][k])}
     IN IF sink[n]
        THEN /\ held' = held \cup keeps
             /\ chan' = [chan EXCEPT ![n][k] = Tail(@)]
             /\ UNCHANGED <<conn, reads, listener>>
        ELSE ListenEnds(n, keeps)
  /\ UNCHANGED <<callVars, task, accept, sink, dart, pinVars>>

\* The senders of a channel are gone with the server task and its
\* connections.  The server handle keeps the one of v2, so listen itself goes
\* on.
ListenClosed(n, k) ==
  /\ listener[n] = "on" /\ k \in reads[n] \ {"v2"}
  /\ chan[n][k] = <<>> /\ task[n] = "ended"
  /\ reads' = [reads EXCEPT ![n] = @ \ {k}]
  /\ UNCHANGED <<callVars, serverVars, chan, listener, sink, held, dart, pinVars>>

\* Responders of the file system whose request has ended are removed.
Prune(n) ==
  /\ listener[n] = "on" /\ "remote" \in reads[n]
  /\ LET gone == {c \in held : conn[c] = [at |-> "closed", of |-> n, route |-> "remote"]}
     IN gone # {} /\ held' = held \ gone
  /\ UNCHANGED <<callVars, serverVars, chan, reads, listener, sink, dart, pinVars>>

\* Dart answers a request: its responder is used up, whether or not the
\* request still waits.
Answer(n, c) ==
  /\ dart = [at |-> "running", of |-> n]
  /\ c \in held /\ conn[c].of = n
  /\ held' = held \ {c}
  /\ Answered({c})
  /\ UNCHANGED <<callVars, task, accept, chan, reads, listener, sink, dart, pinVars>>

-----------------------------------------------------------------------------
(* The Dart service.  A stop while a start is awaited finds no server. *)

DartListens(n) ==
  /\ dart = [at |-> "starting", of |-> n] /\ startPc[n] = "started"
  /\ dart' = [dart EXCEPT !.at = "running"]
  /\ listener' = [listener EXCEPT ![n] = "on"]
  /\ reads' = [reads EXCEPT ![n] = Config[n].routes]
  /\ sink' = [sink EXCEPT ![n] = TRUE]
  /\ UNCHANGED <<callVars, serverVars, chan, held, pinVars>>

\* The service forgets the server before it has stopped.
DartStops(n) ==
  /\ dart = [at |-> "running", of |-> n]
  /\ dart' = [at |-> "idle", of |-> 0]
  /\ stopPc' = [stopPc EXCEPT ![n] = "stop"]
  /\ UNCHANGED <<starts, cur, lock, startPc, txLock, stopTx, serverVars,
                 bridgeVars, pinVars>>

\* The isolate dies; the server and the calls into it go on.
HotRestart ==
  /\ dart.at # "idle"
  /\ dart' = [at |-> "idle", of |-> 0]
  /\ sink' = [n \in Instances |-> FALSE]
  /\ UNCHANGED <<callVars, serverVars, chan, reads, listener, held, pinVars>>

StopTakesStopTx(n) ==
  /\ stopPc[n] = "stop"
  /\ TakeStopTx(n, "stop")
  /\ UNCHANGED <<starts, cur, lock, startPc, stopPc, serverVars, bridgeVars,
                 dart, pinVars>>

\* Broken variant: it keeps the lock of stop_tx.
StopStoppedKeepsLock(n) ==
  /\ stopPc[n] = "stop"
  /\ txLock[n] = "stop" /\ task[n] = "ended"
  /\ stopPc' = [stopPc EXCEPT ![n] = "forget"]
  /\ UNCHANGED <<starts, cur, lock, startPc, txLock, stopTx, serverVars,
                 bridgeVars, dart, pinVars>>

StopStopped(n) ==
  /\ stopPc[n] = "stop"
  /\ StopWaited(n, "stop")
  /\ stopPc' = [stopPc EXCEPT ![n] = "forget"]
  /\ UNCHANGED <<starts, cur, lock, startPc, stopTx, serverVars, bridgeVars,
                 dart, pinVars>>

StopForgets(n) ==
  /\ stopPc[n] = "forget" /\ lock = None
  /\ cur' = IF cur = n THEN 0 ELSE cur
  /\ stopPc' = [stopPc EXCEPT ![n] = "done"]
  /\ UNCHANGED <<starts, lock, startPc, txLock, stopTx, serverVars, bridgeVars,
                 dart, pinVars>>

-----------------------------------------------------------------------------

Call(n) ==
  \/ StartLocks(n) \/ StartTakesStopTx(n) \/ StartStoppedOld(n) \/ StartFails(n)
  \/ \E sockets \in {{"v4"}, Sockets}, certificate \in BOOLEAN :
       Start(n, sockets, certificate)
  \/ StopTakesStopTx(n) \/ StopStopped(n) \/ StopForgets(n)

Shutdown(n) ==
  \/ TaskStops(n) \/ TaskEnds(n)
  \/ \E c \in Conns : conn[c].of = n /\ ConnectionDropped(c)

Serve(n) ==
  \E s \in Sockets, c \in Conns : Accept(n, s, c)

Exchange(c) ==
  \/ Handshake(c) \/ ClientLeaves(c) \/ SendEvent(c)
  \/ \E k \in Routes : Request(c, k) \/ RequestRefused(c, k)

Bridge(n) ==
  \/ \E k \in Routes : Listen(n, k) \/ ListenClosed(n, k)
  \/ Prune(n)
  \/ \E c \in Conns : Answer(n, c)

Dart == DartStarts \/ HotRestart \/ \E n \in Instances : DartListens(n) \/ DartStops(n)

Next ==
  \/ Dart
  \/ \E n \in Instances : Call(n) \/ Shutdown(n) \/ Serve(n) \/ Bridge(n)
  \/ \E c \in Conns : Exchange(c)

\* The runtime polls every task that can go on, and a mutex is fair.
Progress == \E n \in Instances : Call(n) \/ Shutdown(n)

Spec == Init /\ [][Next]_vars /\ WF_vars(Progress)

-----------------------------------------------------------------------------
(* Properties. *)

TypeOK ==
  /\ starts \in 0..MaxStarts
  /\ cur \in 0..MaxStarts /\ lock \in Instances \cup {None}
  /\ startPc \in [Instances -> {"none", "lock", "stopOld", "bind", "started", "failed"}]
  /\ stopPc \in [Instances -> {"none", "stop", "forget", "done"}]
  /\ txLock \in [Instances -> {None, "start", "stop"}]
  /\ stopTx \in [Instances -> {"none", "kept", "sent"}]
  /\ task \in [Instances -> {"none", "running", "closing", "ended"}]
  /\ accept \in [Instances -> SUBSET Sockets]
  /\ conn \in [Conns -> [at : {"new", "handshake", "ready", "send", "asking", "closed"},
                         of : 0..MaxStarts, route : Routes \cup {None}]]
  /\ chan \in [Instances -> [Routes -> Seq(Conns)]]
  /\ \A n \in Instances, k \in Routes : Len(chan[n][k]) <= Capacity
  /\ reads \in [Instances -> SUBSET Routes]
  /\ listener \in [Instances -> {"none", "on", "ended"}]
  /\ sink \in [Instances -> BOOLEAN]
  /\ held \subseteq Conns
  /\ dart \in [at : {"idle", "starting", "running"}, of : 0..MaxStarts]
  /\ Pin!TypeOK

Gone(n) == ~Bound(n) /\ \A c \in Conns : Live(c) => conn[c].of # n

\* When start_server binds, no server of this program is on the port and none
\* still serves a connection, whatever a hot restart or a stop that has not
\* returned left behind.
PortFree ==
  \A n \in Instances : startPc[n] = "bind" => \A m \in Instances : Gone(m)

\* "Returns after the listeners are closed, so the port can be bound again",
\* and no client talks to the stopped server, also if it was start_server that
\* sent the signal.
StopReleases == \A n \in Instances : stopPc[n] = "done" => Gone(n)

\* A server that runs is the one start_server will find and stop, even when a
\* stop of an older one returns late.
LeftoverFound ==
  \A n \in Instances : task[n] = "running" /\ stopTx[n] = "kept" => cur = n

\* The file system serves only clients whose certificate was verified, though
\* browsers are let in without one and the routes share a listener.
RemoteVerified ==
  \A c \in Conns : conn[c].route = "remote" => Cert[c] = "valid"

\* When listen has ended because nobody listens in Dart, no request for the
\* file system waits for an answer.
RemoteReleased ==
  \A n \in Instances : listener[n] = "ended" => OfRemote(Asking(n)) = {}

\* At every moment of starts, stops and hot restarts one server at most has
\* the port, it can be found and stopped, and its file system serves and
\* keeps waiting only whom it should (start_server, RsHttpServer::stop and
\* listen of api/server.rs, the accept loop of http/server/mod.rs).
ServerSafe ==
  /\ TypeOK
  /\ PortFree
  /\ StopReleases
  /\ LeftoverFound
  /\ RemoteVerified
  /\ RemoteReleased

\* The PIN failures of an address are counted until they are forgotten, by the
\* cache or by a new server: an address that used up its attempts stays out
\* until as many others as the cache holds have been there.
PinCounts ==
  [][Pin!Counts \/ \E n \in Instances : stopTx[n] = "none" /\ stopTx'[n] = "kept"]_pinVars

\* Every start_server and every stop returns, in whatever order they run.
CallsReturn ==
  <>[](\A n \in Instances : /\ startPc[n] \in {"none", "started", "failed"}
                            /\ stopPc[n] \in {"none", "done"})
=============================================================================
