----------------------------- MODULE Discovery ------------------------------
(***************************************************************************)
(* A running discovery (packages/core/src/discovery): announcements of     *)
(* other devices are answered by register requests, known addresses and    *)
(* whole subnets are probed, what answers is merged into the store of      *)
(* devices, and each confirmation becomes an event for the application.    *)
(* The network changes while requests are under way, and their answers     *)
(* are applied in any order.                                               *)
(*                                                                         *)
(* A device is its fingerprint, a channel is a host and a protocol; ports  *)
(* change with the protocol.  The application never marks a channel as not *)
(* reachable in this version, so every channel is Available.               *)
(***************************************************************************)
EXTENDS Integers, Sequences, FiniteSets

CONSTANTS
    Devices,       \* fingerprints of the other devices
    Own,           \* the fingerprint of this device
    Hosts,         \* addresses
    V6,            \* the IPv6 addresses among them
    Interfaces,    \* addresses of this device, one per interface
    SubnetOf,      \* the other hosts of an interface's subnet
    Known,         \* known_channels: the hosts of the favorites
    Networks,      \* what may listen at each host at first, or have before
    MaxLogs,       \* MAX_LOGS
    EventCapacity, \* of the channel of events
    Concurrency,   \* SCAN_CONCURRENCY
    Rounds,        \* length of ANNOUNCE_DELAYS
    PeersAt,       \* what may come to listen at each host
    MaxInputs,     \* bound: changes of the network, announcements, user actions
    None

Protocols == {"http", "https"}
Channels == Hosts \X Protocols
Peers == [dev : Devices \cup {Own}, proto : Protocols] \cup {None}
\* StatefulDevice: its channels, and the log of its last confirmations.
StatefulDevices == [channels : SUBSET Channels, logs : Seq(Channels)]

ASSUME ConstantsAssumption ==
    /\ Own \notin Devices /\ None \notin Devices \cup {Own}
    /\ V6 \subseteq Hosts /\ Known \subseteq Hosts
    /\ SubnetOf \in [Interfaces -> SUBSET Hosts]
    /\ Networks \subseteq [Hosts -> Peers] /\ \A h \in Hosts : PeersAt[h] \subseteq Peers
    /\ MaxLogs \in Nat \ {0} /\ EventCapacity \in Nat \ {0}
    /\ Concurrency \in Nat \ {0} /\ Rounds \in Nat /\ MaxInputs \in Nat
    /\ {"sent", "failed"} \cap (Devices \cup {Own, None}) = {}
    /\ None \notin {"app", "staged"} \cup StatefulDevices

Requests == {<<"answer", h>> : h \in Hosts} \cup {<<"known", h>> : h \in Hosts}
            \cup UNION {{<<"scan", i, h>> : h \in SubnetOf[i]} : i \in Interfaces}

VARIABLES
    net,        \* what listens at each host
    inputs,     \* number of inputs from outside so far
    air,        \* announcements that were sent
    stopped,    \* whether multicast was stopped
    answering,  \* DiscoveryState::answering
    req,        \* register requests under way
    store,      \* DeviceStore
    events,     \* the channel of discovery events
    shown,      \* what the application has of each device
    scan,       \* scan_subnet of an interface: its caller and the hosts left
    scanning,   \* DiscoveryState::scanning
    staged,     \* discover_staged
    order,      \* history: channels of a device in the order of confirmation
    holders,    \* history: who answered over HTTPS at which host
    missed,     \* history: devices whose last event was dropped
    probed      \* history: hosts whose probe ended since the staged call began

vars == <<net, inputs, air, stopped, answering, req, store, events, shown, scan,
          scanning, staged, order, holders, missed, probed>>
storeVars == <<store, events, missed, order>>

NoRequest == [host |-> None, proto |-> "https", pin |-> None, claim |-> None, got |-> None]
NoScan == [by |-> None, left |-> {}]

Announced(n) == {<<h, n[h].dev, n[h].proto>> : h \in {k \in Hosts : n[k] # None}}

Init ==
    /\ net \in Networks
    /\ inputs = 0
    /\ air = UNION {Announced(n) : n \in Networks}
    /\ stopped = FALSE
    /\ answering = TRUE
    /\ req = [r \in Requests |-> NoRequest]
    /\ store = [d \in Devices |-> None]
    /\ events = <<>>
    /\ shown = [d \in Devices |-> None]
    /\ scan = [i \in Interfaces |-> NoScan]
    /\ scanning = {}
    /\ staged = [pc |-> "idle", announce |-> 0, seen |-> FALSE, skipped |-> {}]
    /\ order = [d \in Devices |-> <<>>]
    /\ holders = {}
    /\ missed = {}
    /\ probed = [i \in Interfaces |-> {}]

-----------------------------------------------------------------------------
(* The store.                                                              *)

SameEndpoint(c, d) == c[1] = d[1]

\* last_confirmed; 0 stands for a channel that is no longer in the logs.
LastConfirmed(s, c) ==
    LET at == {k \in 1 .. Len(s.logs) : s.logs[k] = c}
    IN  CHOOSE k \in at \cup {0} : \A j \in at : j <= k

IsIpv6(c) == c[1] \in V6

\* The order of get_ranked_channels.
Better(s, c, d) ==
    \/ IsIpv6(c) /\ ~IsIpv6(d)
    \/ IsIpv6(c) = IsIpv6(d) /\ LastConfirmed(s, c) > LastConfirmed(s, d)

\* get_best_channel: any of several that compare equal.
BestChannels(s) == {c \in s.channels : \A d \in s.channels : ~Better(s, d, c)}

\* The last of a device's confirmations, at most MaxLogs of them.
CapLogs(logs) ==
    IF Len(logs) > MaxLogs THEN SubSeq(logs, Len(logs) - MaxLogs + 1, Len(logs)) ELSE logs

Upsert(s, c) ==
    IF s = None THEN [channels |-> {c}, logs |-> <<c>>]
    ELSE [channels |-> {d \in s.channels : ~SameEndpoint(d, c)} \cup {c},
          logs |-> CapLogs(Append(s.logs, c))]

Queued(d) == \E k \in 1 .. Len(events) : events[k] = d

\* History: c is now the last of the channels in the order of confirmation.
MoveToEnd(o, c) ==
    LET at == {k \in 1 .. Len(o) : o[k] = c}
        k == CHOOSE k \in at : TRUE
    IN  IF at = {} THEN Append(o, c)
        ELSE [i \in 1 .. Len(o) |->
                 IF i < k THEN o[i] ELSE IF i < Len(o) THEN o[i + 1] ELSE c]

\* Broken variant: found waits for room in the channel of events.
FoundWaits(d, c) ==
    /\ Len(events) < EventCapacity
    /\ store' = [store EXCEPT ![d] = Upsert(@, c)]
    /\ order' = [order EXCEPT ![d] = MoveToEnd(@, c)]
    /\ events' = Append(events, d)
    /\ missed' = missed \ {d}

(* DiscoveryState::found: one more confirmation, the merge, and an event   *)
(* that is dropped when the channel is full.                               *)
Found(d, c) ==
    /\ store' = [store EXCEPT ![d] = Upsert(@, c)]
    /\ order' = [order EXCEPT ![d] = MoveToEnd(@, c)]
    /\ IF Len(events) < EventCapacity
       THEN events' = Append(events, d) /\ missed' = missed \ {d}
       ELSE UNCHANGED events /\ missed' = IF Queued(d) THEN missed ELSE missed \cup {d}

-----------------------------------------------------------------------------
(* The network and the peers (external).                                   *)

\* An input from outside the discovery, of which there are MaxInputs.
Input == inputs < MaxInputs /\ inputs' = inputs + 1

envUnchanged == <<stopped, answering, storeVars, shown, scan, scanning, staged, probed>>

\* A device comes, goes, moves or switches its protocol, and announces itself.
Move(h, p) ==
    /\ Input
    /\ p # net[h]
    /\ net' = [net EXCEPT ![h] = p]
    /\ air' = IF p = None THEN air ELSE air \cup {<<h, p.dev, p.proto>>}
    /\ UNCHANGED <<req, holders, envUnchanged>>

\* A client that pins a fingerprint refuses any other certificate during the
\* handshake; one without a pin takes every certificate.
Accepts(q, p) == q.pin \in {None, p.dev}

\* Who answered: over HTTPS the fingerprint of the certificate the answer
\* came with, never what its body claims.
Identity(p) == p.dev

\* The channel an answer confirms is the one it was asked on.
Confirmed(q) == <<q.host, q.proto>>

\* register: the peer receives the request and answers.
PeerAnswers(r) ==
    LET q == req[r]
        p == net[q.host]
    IN  /\ q.got = "sent"
        /\ p # None
        /\ p.proto = q.proto
        /\ Accepts(q, p)
        /\ req' = [req EXCEPT ![r].got = Identity(p)]
        /\ holders' = IF q.proto = "https" THEN holders \cup {<<Identity(p), q.host>>} ELSE holders
        /\ UNCHANGED <<net, inputs, air, envUnchanged>>

\* Refused, not reachable, another certificate, or timed out.
RequestFails(r) ==
    /\ req[r].got = "sent"
    /\ req' = [req EXCEPT ![r].got = "failed"]
    /\ UNCHANGED <<net, inputs, air, holders, envUnchanged>>

-----------------------------------------------------------------------------
(* Announcements.                                                          *)

\* Broken variant: the answer goes to whoever listens at the address.
AnswerAnnouncementUnpinned(h, d, proto) ==
    LET r == <<"answer", h>> IN
    /\ Input
    /\ <<h, d, proto>> \in air
    /\ d # Own
    /\ ~stopped
    /\ answering
    /\ req[r] = NoRequest
    /\ req' = [req EXCEPT ![r] = [host |-> h, proto |-> proto, claim |-> d, got |-> "sent",
                                  pin |-> None]]
    /\ UNCHANGED <<net, air, holders, envUnchanged>>

\* The multicast task takes an announcement and answers it in a new task,
\* which pins the announced fingerprint.  Own announcements are not received.
AnswerAnnouncement(h, d, proto) ==
    LET r == <<"answer", h>> IN
    /\ Input
    /\ <<h, d, proto>> \in air
    /\ d # Own
    /\ ~stopped
    /\ answering
    /\ req[r] = NoRequest
    /\ req' = [req EXCEPT ![r] = [host |-> h, proto |-> proto, claim |-> d, got |-> "sent",
                                  pin |-> IF proto = "https" THEN d ELSE None]]
    /\ UNCHANGED <<net, air, holders, envUnchanged>>

SetAnswerAnnouncements ==
    /\ Input
    /\ answering' = ~answering
    /\ UNCHANGED <<net, air, stopped, req, storeVars, shown, scan, scanning,
                   staged, holders, probed>>

AnswerDropped(h) ==
    LET r == <<"answer", h>> IN
    /\ req[r].got = "failed"
    /\ req' = [req EXCEPT ![r] = NoRequest]
    /\ UNCHANGED <<net, inputs, air, holders, envUnchanged>>

\* The device is the announced one, whoever answered over plain HTTP.
AnswerDone(h) ==
    LET q == req[<<"answer", h>>] IN
    /\ q.got \in Devices \cup {Own}
    /\ Found(q.claim, Confirmed(q))
    /\ req' = [req EXCEPT ![<<"answer", h>>] = NoRequest]
    /\ staged' = [staged EXCEPT !.seen = TRUE]
    /\ UNCHANGED <<net, inputs, air, stopped, answering, shown, scan, scanning, holders, probed>>

\* add_device: a device that registered with this device's server.
AddDevice(h) ==
    /\ Input
    /\ net[h] # None /\ net[h].dev # Own
    /\ Found(net[h].dev, <<h, net[h].proto>>)
    /\ staged' = [staged EXCEPT !.seen = TRUE]
    /\ holders' = holders \cup {<<net[h].dev, h>>}
    /\ UNCHANGED <<net, air, stopped, answering, req, shown, scan, scanning, probed>>

\* The stop of the multicast side; scans and answers under way go on.
Stop ==
    /\ Input
    /\ ~stopped
    /\ stopped' = TRUE
    /\ UNCHANGED <<net, air, answering, req, storeVars, shown, scan, scanning,
                   staged, holders, probed>>

-----------------------------------------------------------------------------
(* Probes of known channels and of subnets.                                *)

Probe(h) == [host |-> h, proto |-> "https", pin |-> None, claim |-> None, got |-> "sent"]

\* probe: the answer of this device itself is no confirmation.
ProbeFound(q) ==
    IF q.got \in Devices
    THEN Found(q.got, Confirmed(q))
    ELSE UNCHANGED storeVars

\* scan_subnet: at most one scan per interface.
StartScan(i) ==
    /\ Input
    /\ i \notin scanning
    /\ scanning' = scanning \cup {i}
    /\ scan' = [scan EXCEPT ![i] = [by |-> "app", left |-> SubnetOf[i]]]
    /\ UNCHANGED <<net, air, stopped, answering, req, storeVars, shown, staged, holders, probed>>

ProbesOf(i) == {h \in SubnetOf[i] : req[<<"scan", i, h>>] # NoRequest}

ScanProbe(i, h) ==
    /\ h \in scan[i].left
    /\ Cardinality(ProbesOf(i)) < Concurrency
    /\ scan' = [scan EXCEPT ![i].left = @ \ {h}]
    /\ req' = [req EXCEPT ![<<"scan", i, h>>] = Probe(h)]
    /\ UNCHANGED <<net, inputs, air, stopped, answering, storeVars, shown, scanning,
                   staged, holders, probed>>

ScanProbeDone(i, h) ==
    LET r == <<"scan", i, h>> IN
    /\ req[r].got \in Devices \cup {Own, "failed"}
    /\ ProbeFound(req[r])
    /\ staged' = [staged EXCEPT !.seen = @ \/ req[r].got \in Devices]
    /\ req' = [req EXCEPT ![r] = NoRequest]
    /\ probed' = [probed EXCEPT ![i] = @ \cup {h}]
    /\ UNCHANGED <<net, inputs, air, stopped, answering, shown, scan, scanning, holders>>

\* ScanGuard is dropped with the finished scan.
ScanDone(i) ==
    /\ i \in scanning
    /\ scan[i].left = {} /\ ProbesOf(i) = {}
    /\ scanning' = scanning \ {i}
    /\ scan' = [scan EXCEPT ![i] = NoScan]
    /\ UNCHANGED <<net, inputs, air, stopped, answering, req, storeVars, shown, staged,
                   holders, probed>>

\* The caller drops the scan's future: guard and requests go with it.
DropScan(i) ==
    /\ Input
    /\ scan[i].by = "app"
    /\ scanning' = scanning \ {i}
    /\ scan' = [scan EXCEPT ![i] = NoScan]
    /\ req' = [r \in Requests |->
                  IF r \in {<<"scan", i, h>> : h \in SubnetOf[i]} THEN NoRequest ELSE req[r]]
    /\ UNCHANGED <<net, air, stopped, answering, storeVars, shown, staged,
                   holders, probed>>

(* discover_staged: the announcements beside the probes of the favorites,  *)
(* a pause, and the scans when nothing at all was confirmed meanwhile.     *)
StartStaged ==
    /\ staged.pc = "idle"
    /\ staged' = [pc |-> "known", announce |-> IF stopped THEN 0 ELSE Rounds,
                  seen |-> FALSE, skipped |-> {}]
    /\ req' = [r \in Requests |->
                  IF r \in {<<"known", h>> : h \in Known} THEN Probe(r[2]) ELSE req[r]]
    /\ probed' = [i \in Interfaces |-> {}]
    /\ UNCHANGED <<net, inputs, air, stopped, answering, storeVars, shown, scan, scanning, holders>>

KnownProbeDone(h) ==
    LET r == <<"known", h>> IN
    /\ req[r].got \in Devices \cup {Own, "failed"}
    /\ ProbeFound(req[r])
    /\ staged' = [staged EXCEPT !.seen = @ \/ req[r].got \in Devices]
    /\ req' = [req EXCEPT ![r] = NoRequest]
    /\ UNCHANGED <<net, inputs, air, stopped, answering, shown, scan, scanning, holders, probed>>

\* One message of the burst, or its end when multicast was stopped.
AnnounceRound ==
    /\ staged.announce > 0
    /\ staged' = [staged EXCEPT !.announce = IF stopped THEN 0 ELSE @ - 1]
    /\ UNCHANGED <<net, inputs, air, stopped, answering, req, storeVars, shown, scan, scanning,
                   holders, probed>>

KnownProbed == \A h \in Known : req[<<"known", h>>] = NoRequest

Escalate ==
    /\ staged.pc = "known"
    /\ KnownProbed
    /\ IF staged.seen
       THEN /\ staged' = [staged EXCEPT !.pc = "join"]
            /\ UNCHANGED <<scan, scanning>>
       ELSE LET free == Interfaces \ scanning IN
            /\ staged' = [staged EXCEPT !.pc = "join", !.skipped = scanning]
            /\ scanning' = scanning \cup free
            /\ scan' = [i \in Interfaces |->
                   IF i \in free THEN [by |-> "staged", left |-> SubnetOf[i]] ELSE scan[i]]
    /\ UNCHANGED <<net, inputs, air, stopped, answering, req, storeVars, shown, holders, probed>>

\* Broken variant: the scans are started and not awaited.
StagedDoneEarly ==
    /\ staged.pc = "join"
    /\ staged.announce = 0
    /\ staged' = [staged EXCEPT !.pc = "done"]
    /\ UNCHANGED <<net, inputs, air, stopped, answering, req, storeVars, shown, scan, scanning,
                   holders, probed>>

StagedDone ==
    /\ staged.pc = "join"
    /\ staged.announce = 0
    /\ \A i \in Interfaces : scan[i].by # "staged"
    /\ staged' = [staged EXCEPT !.pc = "done"]
    /\ UNCHANGED <<net, inputs, air, stopped, answering, req, storeVars, shown, scan, scanning,
                   holders, probed>>

-----------------------------------------------------------------------------
\* What the application gets of a device: its channels and the best of them.
Shows(s) == [channels |-> s.channels, best |-> BestChannels(s)]

\* listen: the event names the device, the merged state is read from the store.
Listen ==
    /\ events # <<>>
    /\ shown' = [shown EXCEPT ![Head(events)] = Shows(store[Head(events)])]
    /\ events' = Tail(events)
    /\ UNCHANGED <<net, inputs, air, stopped, answering, req, store, missed, order,
                   scan, scanning, staged, holders, probed>>

RequestStep(r) == PeerAnswers(r) \/ RequestFails(r)
ScanStep(i) ==
    \/ \E h \in SubnetOf[i] : ScanProbe(i, h) \/ ScanProbeDone(i, h)
    \/ ScanDone(i)
StagedStep == (\E h \in Known : KnownProbeDone(h)) \/ AnnounceRound \/ Escalate \/ StagedDone

Next ==
    \/ \E h \in Hosts : \E p \in PeersAt[h] : Move(h, p)
    \/ \E m \in air : AnswerAnnouncement(m[1], m[2], m[3])
    \/ \E h \in Hosts : AnswerDropped(h) \/ AnswerDone(h) \/ AddDevice(h)
    \/ SetAnswerAnnouncements \/ Stop \/ Listen
    \/ \E r \in Requests : RequestStep(r)
    \/ \E i \in Interfaces : StartScan(i) \/ ScanStep(i) \/ DropScan(i)
    \/ StartStaged \/ StagedStep

\* Requests have a time limit and tasks run; the application need not read
\* its events, and the network may stay as it is.
Fairness ==
    /\ \A r \in Requests : WF_vars(RequestStep(r))
    /\ \A i \in Interfaces : WF_vars(ScanStep(i))
    /\ WF_vars(StagedStep)

Spec == Init /\ [][Next]_vars /\ Fairness

-----------------------------------------------------------------------------
TypeOK ==
    /\ net \in [Hosts -> Peers] /\ inputs \in 0 .. MaxInputs
    /\ air \subseteq Hosts \X (Devices \cup {Own}) \X Protocols
    /\ stopped \in BOOLEAN /\ answering \in BOOLEAN
    /\ req \in [Requests -> [host : Hosts \cup {None}, proto : Protocols,
                             pin : Devices \cup {None}, claim : Devices \cup {None},
                             got : Devices \cup {Own, None, "sent", "failed"}]]
    /\ \A d \in Devices : store[d] = None \/
          /\ store[d].channels \subseteq Channels
          /\ Len(store[d].logs) \in 1 .. MaxLogs
    /\ Len(events) <= EventCapacity
    /\ \A i \in Interfaces : scan[i].by \in {None, "app", "staged"} /\ scan[i].left \subseteq SubnetOf[i]
    /\ staged.pc \in {"idle", "known", "join", "done"}

(* A device has one channel per host, however often it moved, changed its  *)
(* protocol or was confirmed by answers that arrived late (upsert replaces *)
(* the channel of the same endpoint).                                      *)
OneChannelPerHost ==
    \A d \in Devices : store[d] # None =>
        \A c, e \in store[d].channels : c[1] = e[1] => c = e

(* The best channel of a device is the one that was confirmed last, among  *)
(* the IPv6 channels if it has any; only channels that fell out of the     *)
(* capped logs are in no particular order.                                 *)
BestIsLatest ==
    \A d \in Devices : store[d] # None =>
        LET ch == store[d].channels
            class == IF \E c \in ch : IsIpv6(c) THEN {c \in ch : IsIpv6(c)} ELSE ch
        IN  \/ \E k \in 1 .. Len(order[d]) :
                  /\ BestChannels(store[d]) = {order[d][k]} /\ order[d][k] \in class
                  /\ \A j \in k + 1 .. Len(order[d]) : order[d][j] \notin class
            \/ BestChannels(store[d]) = class
               /\ \A c \in class : \A k \in 1 .. Len(store[d].logs) : store[d].logs[k] # c

(* A channel over HTTPS is stored for a device only if the holder of that  *)
(* device's certificate answered there: an announcement that is stale, or  *)
(* that another device at the host answers, does not put one in.           *)
HttpsHolder ==
    \A d \in Devices : store[d] # None =>
        \A c \in store[d].channels : c[2] = "https" => <<d, c[1]>> \in holders

(* What the application shows of a device is its merged state in the       *)
(* store, although events carry only the latest confirmation, unless an    *)
(* event for it is queued or its last one found the channel full.          *)
ShownIsCurrent ==
    \A d \in Devices :
        \/ store[d] = None /\ shown[d] = None
        \/ store[d] # None /\ shown[d] = Shows(store[d])
        \/ Queued(d)
        \/ d \in missed

(* When discover_staged returns and nothing was confirmed since it began,  *)
(* every host of every subnet was probed, except those of interfaces that  *)
(* another scan was already busy with.                                     *)
NothingLeftOut ==
    staged.pc = "done" /\ ~staged.seen =>
        \A i \in Interfaces \ staged.skipped : probed[i] = SubnetOf[i]

(* An interface is marked as scanned exactly while a scan of it runs.      *)
ScanGuarded == scanning = {i \in Interfaces : scan[i] # NoScan}

(* What the store says of a device is true and complete, whatever order    *)
(* confirmations arrive in, and it is what the application shows of it.    *)
StoreFaithful ==
    /\ TypeOK
    /\ OneChannelPerHost
    /\ BestIsLatest
    /\ HttpsHolder
    /\ ShownIsCurrent

(* Scans leave no host out, and the mark of a scanned interface lives as    *)
(* long as its scan (scan_subnet and its ScanGuard, discover_staged).       *)
ScansComplete == NothingLeftOut /\ ScanGuarded

(* Every scan ends and gives its interface back, and discover_staged       *)
(* returns, even if the application never reads an event.                  *)
ScansEnd ==
    /\ \A i \in Interfaces : i \in scanning ~> i \notin scanning
    /\ staged.pc = "known" ~> staged.pc = "done"
=============================================================================
