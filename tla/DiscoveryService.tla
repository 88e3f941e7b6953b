-------------------------- MODULE DiscoveryService --------------------------
(***************************************************************************)
(* The life of a discovery: multicast sockets and their receive loops      *)
(* (packages/core/src/multicast), the task that takes their events         *)
(* (discovery::start), the bridge that starts, listens to and stops an     *)
(* instance (localsend_isolates/rust/src/api/discovery.rs) and the Dart    *)
(* loop that uses it (task/discovery/discovery.dart).  Instance n is the   *)
(* one of the n-th call of start_discovery.  What is found and how it is   *)
(* stored is the subject of module Discovery.                              *)
(***************************************************************************)
EXTENDS Integers, FiniteSets

CONSTANTS
    Names,         \* network interfaces
    AddressesOf,   \* addresses of each of them
    V6Addresses,   \* the addresses that are IPv6 addresses
    Indexed,       \* the interfaces that have an index
    Filters,       \* settings: the addresses matched by each of the lists
    MaxStarts,     \* bound: calls of start_discovery
    MaxErrors,     \* MAX_CONSECUTIVE_RECEIVE_ERRORS
    Capacity,      \* MULTICAST_CHANNEL_SIZE
    ListenCapacity,\* of the channel of discovery events
    Nobody         \* nobody, no list

ASSUME ServiceAssumption ==
    /\ IsFiniteSet(Names) /\ Indexed \subseteq Names
    /\ MaxStarts \in Nat \ {0} /\ MaxErrors \in Nat \ {0}
    /\ Capacity \in Nat \ {0} /\ ListenCapacity \in Nat \ {0}
    /\ \A f \in Filters : DOMAIN f = {"whitelist", "blacklist"}
    /\ Nobody \notin {"start", "stop"} /\ \A n \in 1 .. MaxStarts : Nobody # <<"start", n>>

Instances == 1 .. MaxStarts

\* InterfaceFilter::is_ignored; a list is the set of addresses it matches.
IsIgnored(filter, addresses) ==
    \/ filter.whitelist # Nobody /\ addresses \cap filter.whitelist = {}
    \/ filter.blacklist # Nobody /\ addresses \cap filter.blacklist # {}

\* local_interfaces: an IPv4 socket per address, an IPv6 socket per interface.
LocalInterfaces(filter) ==
    LET used == {i \in Names : ~IsIgnored(filter, AddressesOf[i])} IN
    UNION {{<<i, a>> : a \in AddressesOf[i] \ V6Addresses} : i \in used}
    \cup {<<i, "v6">> : i \in {j \in used \cap Indexed : AddressesOf[j] \cap V6Addresses # {}}}

Sockets == LocalInterfaces([whitelist |-> Nobody, blacklist |-> Nobody])

VARIABLES
    starts,    \* calls of start_discovery so far
    cur,       \* RUNNING_DISCOVERY: the instance in it, or 0
    lock,      \* who holds the lock of RUNNING_DISCOVERY
    startPc,   \* the call that starts an instance
    stopPc,    \* RsDiscovery::stop of an instance
    txLock,    \* who holds the lock of an instance's stop_tx
    stopTx,    \* stop_tx: not yet made, kept, sent
    sup,       \* the task of multicast::start; "off" when no socket was bound
    cancel,    \* the cancellation token of an instance
    loop,      \* the receive loop of a socket
    errs,      \* its consecutive_errors
    kept,      \* MulticastState::sockets
    chan,      \* number of events in the multicast channel
    disp,      \* the task that takes them
    unread,    \* number of events in the channel that listen reads
    listener,  \* RsDiscovery::listen of an instance
    dart       \* the Dart loop: which call it is in; its isolate's instance

serviceVars == <<starts, cur, lock, startPc, stopPc, txLock, stopTx, sup, cancel, loop,
          errs, kept, chan, disp, unread, listener, dart>>
multicastVars == <<sup, cancel, loop, errs, kept, chan, disp>>
bridgeVars == <<starts, cur, lock, startPc, stopPc, txLock, stopTx>>
appVars == <<unread, listener, dart>>

ServiceInit ==
    /\ starts = 0
    /\ cur = 0
    /\ lock = Nobody
    /\ startPc = [n \in Instances |-> "none"]
    /\ stopPc = [n \in Instances |-> "none"]
    /\ txLock = [n \in Instances |-> Nobody]
    /\ stopTx = [n \in Instances |-> "none"]
    /\ sup = [n \in Instances |-> "none"]
    /\ cancel = [n \in Instances |-> FALSE]
    /\ loop = [n \in Instances |-> [s \in Sockets |-> "none"]]
    /\ errs = [n \in Instances |-> [s \in Sockets |-> 0]]
    /\ kept = [n \in Instances |-> {}]
    /\ chan = [n \in Instances |-> 0]
    /\ disp = [n \in Instances |-> "none"]
    /\ unread = [n \in Instances |-> 0]
    /\ listener = [n \in Instances |-> "none"]
    /\ dart = [pc |-> "start", of |-> 0]

-----------------------------------------------------------------------------
(* start_discovery.  It keeps the lock of RUNNING_DISCOVERY to its end, so *)
(* nobody sees that it takes the old instance out before it stops it.      *)

DartStarts ==
    /\ dart.pc = "start"
    /\ starts < MaxStarts
    /\ starts' = starts + 1
    /\ startPc' = [startPc EXCEPT ![starts + 1] = "lock"]
    /\ dart' = [pc |-> "starting", of |-> starts + 1]
    /\ UNCHANGED <<cur, lock, stopPc, txLock, stopTx, multicastVars, unread, listener>>

StartLocks(n) ==
    /\ startPc[n] = "lock"
    /\ lock = Nobody
    /\ lock' = <<"start", n>>
    /\ startPc' = [startPc EXCEPT ![n] = IF cur = 0 THEN "bind" ELSE "stopOld"]
    /\ UNCHANGED <<starts, cur, stopPc, txLock, stopTx, multicastVars, appVars>>

(* DiscoveryInstance::stop of n, called by "who"; the lock of stop_tx is   *)
(* held while it waits, so a second caller waits as well.                  *)
Wakes(n) == sup[n] \in {"ended", "off"}

TakeStopTx(n, who) ==
    /\ txLock[n] = Nobody
    /\ stopTx[n] = "kept"
    /\ txLock' = [txLock EXCEPT ![n] = who]
    /\ stopTx' = [stopTx EXCEPT ![n] = "sent"]

StopWaited(n, who) ==
    \/ txLock[n] = Nobody /\ stopTx[n] = "sent" /\ UNCHANGED txLock
    \/ /\ txLock[n] = who
       /\ Wakes(n)
       /\ txLock' = [txLock EXCEPT ![n] = Nobody]

StartTakesStopTx(n) ==
    /\ startPc[n] = "stopOld"
    /\ TakeStopTx(cur, "start")
    /\ UNCHANGED <<starts, cur, lock, startPc, stopPc, multicastVars, appVars>>

\* Broken variant: the leftover is told to stop and not waited for.
StartStopsOldUnawaited(n) ==
    /\ startPc[n] = "stopOld"
    /\ txLock[cur] = "start"
    /\ txLock' = [txLock EXCEPT ![cur] = Nobody]
    /\ cur' = 0
    /\ startPc' = [startPc EXCEPT ![n] = "bind"]
    /\ UNCHANGED <<starts, lock, stopPc, stopTx, multicastVars, appVars>>

StartStoppedOld(n) ==
    /\ startPc[n] = "stopOld"
    /\ StopWaited(cur, "start")
    /\ cur' = 0
    /\ startPc' = [startPc EXCEPT ![n] = "bind"]
    /\ UNCHANGED <<starts, lock, stopPc, stopTx, multicastVars, appVars>>

\* The discovery is the running one, and start_discovery returns.
Running(n) ==
    /\ stopTx' = [stopTx EXCEPT ![n] = "kept"]
    /\ cur' = n
    /\ lock' = Nobody
    /\ startPc' = [startPc EXCEPT ![n] = "started"]

\* bind_multicast_sockets and multicast::start: any socket may fail to bind.
Bind(n) ==
    /\ startPc[n] = "bind"
    /\ \E f \in Filters : \E bound \in SUBSET LocalInterfaces(f) :
          /\ kept' = [kept EXCEPT ![n] = bound]
          /\ loop' = [loop EXCEPT ![n] = [s \in Sockets |->
                         IF s \in bound THEN "recv" ELSE "none"]]
          /\ sup' = [sup EXCEPT ![n] = IF bound = {} THEN "off" ELSE "run"]
          /\ disp' = [disp EXCEPT ![n] = IF bound = {} THEN "ended" ELSE "run"]
    /\ Running(n)
    /\ UNCHANGED <<starts, stopPc, txLock, cancel, errs, chan, appVars>>

-----------------------------------------------------------------------------
(* The multicast side of an instance.                                      *)

receiveUnchanged == <<bridgeVars, appVars, sup, cancel, kept, disp>>

\* A datagram of another device, parsed and not our own, awaits the channel.
Receive(n, s) ==
    /\ loop[n][s] = "recv"
    /\ errs' = [errs EXCEPT ![n][s] = 0]
    /\ loop' = [loop EXCEPT ![n][s] = "send"]
    /\ UNCHANGED <<receiveUnchanged, chan>>

\* Unreadable, or our own message looped back.
ReceiveIgnored(n, s) ==
    /\ loop[n][s] = "recv"
    /\ errs[n][s] > 0
    /\ errs' = [errs EXCEPT ![n][s] = 0]
    /\ UNCHANGED <<receiveUnchanged, loop, chan>>

ReceiveError(n, s) ==
    /\ loop[n][s] = "recv"
    /\ IF errs[n][s] + 1 >= MaxErrors
       THEN /\ loop' = [loop EXCEPT ![n][s] = "ended"]
            /\ errs' = [errs EXCEPT ![n][s] = 0]
       ELSE errs' = [errs EXCEPT ![n][s] = @ + 1] /\ UNCHANGED loop
    /\ UNCHANGED <<receiveUnchanged, chan>>

SendEvent(n, s) ==
    /\ loop[n][s] = "send"
    /\ chan[n] < Capacity
    /\ chan' = [chan EXCEPT ![n] = @ + 1]
    /\ loop' = [loop EXCEPT ![n][s] = "recv"]
    /\ UNCHANGED <<receiveUnchanged, errs>>

LoopCancelled(n, s) ==
    /\ loop[n][s] = "recv"
    /\ cancel[n]
    /\ loop' = [loop EXCEPT ![n][s] = "ended"]
    /\ errs' = [errs EXCEPT ![n][s] = 0]
    /\ UNCHANGED <<receiveUnchanged, chan>>

LoopsEnded(n) == \A s \in Sockets : loop[n][s] \in {"none", "ended"}

\* All loops gave up, or stop was requested.
SupervisorWakes(n) ==
    /\ sup[n] = "run"
    /\ LoopsEnded(n) \/ stopTx[n] = "sent"
    /\ cancel' = [cancel EXCEPT ![n] = TRUE]
    /\ sup' = [sup EXCEPT ![n] = "closing"]
    /\ UNCHANGED <<bridgeVars, appVars, loop, errs, kept, chan, disp>>

\* JoinSet::shutdown aborts the loops, wherever they wait, and joins them.
Shutdown(n) ==
    /\ sup[n] = "closing"
    /\ loop' = [loop EXCEPT ![n] = [s \in Sockets |->
                   IF @[s] = "none" THEN "none" ELSE "ended"]]
    /\ errs' = [errs EXCEPT ![n] = [s \in Sockets |-> 0]]
    /\ kept' = [kept EXCEPT ![n] = {}]
    /\ sup' = [sup EXCEPT ![n] = "ended"]
    /\ UNCHANGED <<bridgeVars, appVars, cancel, chan, disp>>

\* The task of discovery::start: an answer to the announcement, which may
\* confirm a device, or the end of the channel.
Dispatch(n) ==
    /\ disp[n] = "run"
    /\ \/ /\ chan[n] > 0
          /\ chan' = [chan EXCEPT ![n] = @ - 1]
          /\ UNCHANGED disp
       \/ /\ chan[n] = 0
          /\ sup[n] = "ended" /\ LoopsEnded(n)
          /\ disp' = [disp EXCEPT ![n] = "ended"]
          /\ UNCHANGED chan
    /\ UNCHANGED <<bridgeVars, appVars, sup, cancel, loop, errs, kept>>

-----------------------------------------------------------------------------
(* RsDiscovery::stop.                                                      *)

stopUnchanged == <<starts, startPc, multicastVars, appVars>>

\* restartListener.
DartStops ==
    /\ dart.pc = "listen"
    /\ stopPc[dart.of] = "none"
    /\ stopPc' = [stopPc EXCEPT ![dart.of] = "take"]
    /\ UNCHANGED <<cur, lock, txLock, stopTx, stopUnchanged>>

StopTakesStopTx(n) ==
    /\ stopPc[n] = "take"
    /\ TakeStopTx(n, "stop")
    /\ UNCHANGED <<cur, lock, stopPc, stopUnchanged>>

\* Broken variant: the lock of stop_tx is kept.
StopStoppedKeepsLock(n) ==
    /\ stopPc[n] = "take"
    /\ \/ txLock[n] = Nobody /\ stopTx[n] = "sent"
       \/ txLock[n] = "stop" /\ Wakes(n)
    /\ stopPc' = [stopPc EXCEPT ![n] = "lock"]
    /\ UNCHANGED <<cur, lock, txLock, stopTx, stopUnchanged>>

StopStopped(n) ==
    /\ stopPc[n] = "take"
    /\ StopWaited(n, "stop")
    /\ stopPc' = [stopPc EXCEPT ![n] = "lock"]
    /\ UNCHANGED <<cur, lock, stopTx, stopUnchanged>>

\* Forgets the instance unless another one was started meanwhile.
StopForgets(n) ==
    /\ stopPc[n] = "lock"
    /\ lock = Nobody
    /\ cur' = IF cur = n THEN 0 ELSE cur
    /\ stopPc' = [stopPc EXCEPT ![n] = "done"]
    /\ UNCHANGED <<lock, txLock, stopTx, stopUnchanged>>

-----------------------------------------------------------------------------
(* Events, the listener and the Dart loop.                                 *)

\* DiscoveryState::found, from an answer under way or a registered device;
\* try_send drops the event when the channel is full or has no receiver.
Confirm(n) ==
    /\ listener[n] = "recv"
    /\ unread[n] < ListenCapacity
    /\ unread' = [unread EXCEPT ![n] = @ + 1]
    /\ UNCHANGED <<bridgeVars, multicastVars, listener, dart>>

\* The call returned to an isolate that still exists.
DartListens ==
    /\ dart.pc = "starting"
    /\ startPc[dart.of] = "started"
    /\ dart' = [dart EXCEPT !.pc = "listen"]
    /\ listener' = [listener EXCEPT ![dart.of] = "recv"]
    /\ UNCHANGED <<bridgeVars, multicastVars, unread>>

(* recv would yield the end of the channel once no sender is left, but the *)
(* instance that listen itself refers to owns one, in DiscoveryState: the  *)
(* call ends only when an event finds the Dart side of the stream gone.    *)
(* So the step of the Dart loop after the end of the stream, which starts  *)
(* the discovery anew, is never taken.                                     *)
ListenTakes(n) ==
    /\ listener[n] = "recv"
    /\ unread[n] > 0
    /\ unread' = [unread EXCEPT ![n] = IF dart.of = n THEN @ - 1 ELSE 0]
    /\ listener' = [listener EXCEPT ![n] = IF dart.of = n THEN @ ELSE "ended"]
    /\ UNCHANGED <<bridgeVars, multicastVars, dart>>

\* A hot restart ends the isolate and leaves the Rust side as it is.
HotRestart ==
    /\ dart.pc \in {"starting", "listen"}
    /\ starts < MaxStarts
    /\ dart' = [pc |-> "start", of |-> 0]
    /\ UNCHANGED <<bridgeVars, multicastVars, unread, listener>>

-----------------------------------------------------------------------------
StartStep(n) == StartLocks(n) \/ StartTakesStopTx(n) \/ StartStoppedOld(n) \/ Bind(n)
StopStep(n) == StopTakesStopTx(n) \/ StopStopped(n) \/ StopForgets(n)
SupervisorStep(n) == SupervisorWakes(n) \/ Shutdown(n)
DartStep == DartStarts \/ DartListens
LoopStep(n, s) ==
    Receive(n, s) \/ ReceiveIgnored(n, s) \/ ReceiveError(n, s)
    \/ SendEvent(n, s) \/ LoopCancelled(n, s)

ServiceNext ==
    \/ DartStep \/ DartStops \/ HotRestart
    \/ \E n \in Instances :
          \/ StartStep(n) \/ StopStep(n) \/ SupervisorStep(n) \/ Dispatch(n)
          \/ Confirm(n) \/ ListenTakes(n)
          \/ \E s \in Sockets : LoopStep(n, s)

\* Tasks that can run are run; datagrams, devices and users may never come.
ServiceFairness ==
    /\ WF_serviceVars(DartStep)
    /\ \A n \in Instances :
          /\ WF_serviceVars(StartStep(n)) /\ WF_serviceVars(StopStep(n)) /\ WF_serviceVars(SupervisorStep(n))
          /\ WF_serviceVars(Dispatch(n)) /\ WF_serviceVars(ListenTakes(n))

ServiceSpec == ServiceInit /\ [][ServiceNext]_serviceVars /\ ServiceFairness

-----------------------------------------------------------------------------
(* The types of the state of RUNNING_DISCOVERY, of the calls of the bridge *)
(* and of the tasks of each instance.                                      *)
ServiceType ==
    /\ starts \in 0 .. MaxStarts /\ cur \in 0 .. starts
    /\ lock \in {Nobody} \cup ({"start"} \X Instances)
    /\ startPc \in [Instances -> {"none", "lock", "stopOld", "bind", "started"}]
    /\ stopPc \in [Instances -> {"none", "take", "lock", "done"}]
    /\ txLock \in [Instances -> {Nobody, "start", "stop"}]
    /\ stopTx \in [Instances -> {"none", "kept", "sent"}]
    /\ sup \in [Instances -> {"none", "off", "run", "closing", "ended"}]
    /\ cancel \in [Instances -> BOOLEAN]
    /\ loop \in [Instances -> [Sockets -> {"none", "recv", "send", "ended"}]]
    /\ errs \in [Instances -> [Sockets -> 0 .. MaxErrors - 1]]
    /\ kept \in [Instances -> SUBSET Sockets]
    /\ chan \in [Instances -> 0 .. Capacity]
    /\ disp \in [Instances -> {"none", "run", "ended"}]
    /\ unread \in [Instances -> 0 .. ListenCapacity]
    /\ listener \in [Instances -> {"none", "recv", "ended"}]
    /\ dart \in [pc : {"start", "starting", "listen"}, of : 0 .. MaxStarts]

Hears(n) == \E s \in Sockets : loop[n][s] \in {"recv", "send"}

(* Through every order of restarts, stops and hot restarts at most one     *)
(* instance hears announcements (start_discovery stops the leftover of an  *)
(* isolate that was killed, and waits for it, before it binds its own).    *)
OneHears == Cardinality({n \in Instances : Hears(n)}) <= 1

(* A discovery that runs and was not asked to stop can be found by the     *)
(* next start_discovery: a late RsDiscovery::stop of an old instance does  *)
(* not make RUNNING_DISCOVERY forget the new one.                          *)
LeftoverFound ==
    \A n \in Instances : sup[n] = "run" /\ stopTx[n] = "kept" => cur = n

(* Once stop has waited, whichever call was the first to request it, no    *)
(* loop of the instance reads its socket and the state keeps none, so that *)
(* the port can be bound again.                                            *)
PortReleased ==
    \A n \in Instances :
        stopPc[n] \in {"lock", "done"} => ~Hears(n) /\ kept[n] = {}

(* An interface that is given up after MAX_CONSECUTIVE_RECEIVE_ERRORS does  *)
(* not end the others: unless stop was requested, multicast of an instance *)
(* ends only when none of its sockets works any more.                      *)
OthersGoOn ==
    \A n \in Instances :
        sup[n] \in {"closing", "ended"} /\ stopTx[n] = "kept" => ~Hears(n)

(* One discovery hears at a time and can be found, stop releases what it   *)
(* held, and a broken interface costs only itself: start_discovery and     *)
(* RsDiscovery::stop, the supervisor and the receive loops of multicast.   *)
OneDiscovery == ServiceType /\ OneHears /\ LeftoverFound /\ PortReleased /\ OthersGoOn

(* Every call of start_discovery and of RsDiscovery::stop returns, also    *)
(* when both stop the same instance.                                       *)
CallsReturn ==
    \A n \in Instances :
        /\ startPc[n] = "lock" ~> startPc[n] = "started"
        /\ stopPc[n] = "take" ~> stopPc[n] = "done"
=============================================================================
