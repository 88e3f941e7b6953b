----------------------------- MODULE Signaling -----------------------------
(***************************************************************************)
(* The signaling server (server/src/controller/ws_controller.rs) and the   *)
(* client's end of a connection (packages/core/src/webrtc/signaling.rs and *)
(* app/lib/provider/network/webrtc/signaling_provider.dart).               *)
(*                                                                         *)
(* A connection joins the room of its address group, tells the members and *)
(* then itself, and only then starts to read its own channel.  Every peer  *)
(* has one bounded channel that the tasks of all others send to; a send    *)
(* waits for room and fails when the receiver is gone.  An action is what  *)
(* a task does between two awaits.  The client's socket has no buffer of   *)
(* its own here: a real one only delays the moment a slow client is felt.  *)
(***************************************************************************)
EXTENDS Integers, Sequences, FiniteSets

CONSTANTS
  Peers,           \* connections; the server draws an ID for each
  Groups,          \* address groups
  Group,           \* the address group of each connection
  Infos,           \* what a client may tell about itself
  Capacity,        \* capacity of a peer's channel (4)
  ClientBuffer,    \* capacity of the client's receive channel (1)
  MaxConnections,  \* MAX_CONNECTIONS_PER_IP
  MaxRequests,     \* MAX_REQUESTS_PER_IP_PER_HOUR
  MaxHours,        \* bound: how often the hourly reset may happen
  None             \* not registered, not shown

ASSUME ConstantsAssumption ==
  /\ Group \in [Peers -> Groups]
  /\ Capacity \in Nat \ {0}
  /\ ClientBuffer \in Nat \ {0}
  /\ MaxConnections \in Nat
  /\ MaxRequests \in Nat
  /\ MaxHours \in Nat
  /\ None \notin Infos

VARIABLES
  rooms,     \* TxMap: the groups whose room has an entry,
  info,      \* and the info of each member of a room
  requests,  \* IpRequestCountMap
  hours,     \* how often it was cleared (for MaxHours only)
  pc,        \* where the handler of each connection waits
  todo,      \* whom it still has to tell that the peer joined or left
  seen,      \* the members it found when it joined
  chan,      \* the channel of each peer
  rxOpen,    \* its receiver is still held
  rmsg,      \* what the receive task is forwarding
  rto,       \* and to whom it still has to send it
  inbox,     \* messages the client has read and its application has not
  hello,     \* the client has read Hello: connect returned
  view       \* the peers the client's application shows

handlerVars == <<pc, todo, seen>>
recvVars    == <<rmsg, rto>>
chanVars    == <<chan, rxOpen>>
clientVars  == <<inbox, hello, view>>
roomVars    == <<rooms, info>>
limitVars   == <<requests, hours>>
vars == <<rooms, info, requests, hours, pc, todo, seen, chan, rxOpen, rmsg,
          rto, inbox, hello, view>>

-----------------------------------------------------------------------------

\* The members of p's room.
Members(p) == {q \in Peers : Group[q] = Group[p] /\ info[q] # None}
Others(p)  == Members(p) \ {p}

\* The info of each member, as Hello lists it.
Nobody    == [q \in Peers |-> None]
Listed(p) == [q \in Peers |-> IF q \in Members(p) THEN info[q] ELSE None]

Hello(p)     == [type |-> "Hello", peers |-> seen[p]]
Join(p)      == [type |-> "Join", peer |-> p, info |-> info[p]]
Update(p, i) == [type |-> "Update", peer |-> p, info |-> i]
Left(p)      == [type |-> "Left", peer |-> p]
Sdp(p)       == [type |-> "Sdp", peer |-> p]
Error        == [type |-> "Error"]

\* Every variable has its type, channels and rooms keep to their limits.
TypeOK ==
  /\ rooms \subseteq Groups
  /\ info \in [Peers -> Infos \cup {None}]
  /\ \A p \in Peers : Cardinality(Members(p)) <= MaxConnections
  /\ requests \in [Groups -> 0..MaxRequests]
  /\ hours \in 0..MaxHours
  /\ pc \in [Peers -> {"new", "joining", "open", "exit", "ending",
                       "leaving", "gone"}]
  /\ todo \in [Peers -> SUBSET Peers]
  /\ \A p \in Peers : Len(chan[p]) <= Capacity
  /\ rxOpen \in [Peers -> BOOLEAN]
  /\ rto \in [Peers -> SUBSET Peers]
  /\ \A p \in Peers : Len(inbox[p]) <= ClientBuffer + 1
  /\ hello \in [Peers -> BOOLEAN]
  /\ view \in [Peers -> [Peers -> Infos \cup {None}]]

Init ==
  /\ rooms = {}
  /\ info = [p \in Peers |-> None]
  /\ requests = [g \in Groups |-> 0]
  /\ hours = 0
  /\ pc = [p \in Peers |-> "new"]
  /\ todo = [p \in Peers |-> {}]
  /\ seen = [p \in Peers |-> Nobody]
  /\ chan = [p \in Peers |-> <<>>]
  /\ rxOpen = [p \in Peers |-> TRUE]
  /\ rmsg = [p \in Peers |-> Error]
  /\ rto = [p \in Peers |-> {}]
  /\ inbox = [p \in Peers |-> <<>>]
  /\ hello = [p \in Peers |-> FALSE]
  /\ view = [p \in Peers |-> Nobody]

\* A send to q's channel.
SendTo(q, m) ==
  /\ ~rxOpen[q] \/ Len(chan[q]) < Capacity
  /\ chan' = IF rxOpen[q] THEN [chan EXCEPT ![q] = Append(@, m)] ELSE chan
  /\ UNCHANGED rxOpen

\* protect_ddos_request_count
TooMany(g) == requests[g] >= MaxRequests
CountRequest(g) ==
  /\ requests' = [requests EXCEPT ![g] = @ + 1]
  /\ UNCHANGED hours

-----------------------------------------------------------------------------
(* The handler of a connection. *)

\* Broken variant of Connect: the peers are collected before the lock, so a
\* member that is not known yet is not told.
ConnectUntold(p, i) ==
  /\ pc[p] = "new"
  /\ ~TooMany(Group[p])
  /\ Cardinality(Members(p)) < MaxConnections
  /\ rooms' = rooms \cup {Group[p]}
  /\ info' = [info EXCEPT ![p] = i]
  /\ CountRequest(Group[p])
  /\ todo' = [todo EXCEPT ![p] = {q \in Others(p) : hello[q]}]
  /\ seen' = [seen EXCEPT ![p] = Listed(p)]
  /\ pc' = [pc EXCEPT ![p] = "joining"]
  /\ UNCHANGED <<chanVars, recvVars, clientVars>>

\* The room's entry is made before the limits are looked at.
Connect(p, i) ==
  /\ pc[p] = "new"
  /\ rooms' = rooms \cup {Group[p]}
  /\ IF Cardinality(Members(p)) >= MaxConnections \/ TooMany(Group[p])
     THEN /\ pc' = [pc EXCEPT ![p] = "gone"]
          /\ rxOpen' = [rxOpen EXCEPT ![p] = FALSE]
          /\ UNCHANGED <<info, limitVars, todo, seen>>
     ELSE /\ info' = [info EXCEPT ![p] = i]
          /\ CountRequest(Group[p])
          /\ todo' = [todo EXCEPT ![p] = Others(p)]
          /\ seen' = [seen EXCEPT ![p] = Listed(p)]
          /\ pc' = [pc EXCEPT ![p] = "joining"]
          /\ UNCHANGED rxOpen
  /\ UNCHANGED <<chan, recvVars, clientVars>>

\* The others are told one after the other, in the order of a hash map.
SendJoin(p, q) ==
  /\ pc[p] = "joining"
  /\ q \in todo[p]
  /\ SendTo(q, Join(p))
  /\ todo' = [todo EXCEPT ![p] = @ \ {q}]
  /\ UNCHANGED <<roomVars, limitVars, pc, seen, recvVars, clientVars>>

\* Hello goes through the peer's own channel, which nobody reads yet; then
\* the two tasks start.
SendHello(p) ==
  /\ pc[p] = "joining"
  /\ todo[p] = {}
  /\ SendTo(p, Hello(p))
  /\ pc' = [pc EXCEPT ![p] = "open"]
  /\ UNCHANGED <<roomVars, limitVars, todo, seen, recvVars, clientVars>>

\* The connection ends: one task exits and the other one is aborted.  The
\* client is gone, what it showed is its own affair from now on.
Disconnect(p) ==
  /\ pc[p] \in {"open", "exit"}
  /\ pc' = [pc EXCEPT ![p] = "ending"]
  /\ rxOpen' = [rxOpen EXCEPT ![p] = FALSE]
  /\ chan' = [chan EXCEPT ![p] = <<>>]
  /\ rto' = [rto EXCEPT ![p] = {}]
  /\ rmsg' = [rmsg EXCEPT ![p] = Error]
  /\ seen' = [seen EXCEPT ![p] = Nobody]
  /\ inbox' = [inbox EXCEPT ![p] = <<>>]
  /\ hello' = [hello EXCEPT ![p] = FALSE]
  /\ view' = [view EXCEPT ![p] = Nobody]
  /\ UNCHANGED <<roomVars, limitVars, todo>>

\* The last member takes the entry of the room with it.
Teardown(p) ==
  /\ pc[p] = "ending"
  /\ rooms' = IF Others(p) = {} THEN rooms \ {Group[p]} ELSE rooms
  /\ info' = [info EXCEPT ![p] = None]
  /\ todo' = [todo EXCEPT ![p] = Others(p)]
  /\ pc' = [pc EXCEPT ![p] = IF Others(p) = {} THEN "gone" ELSE "leaving"]
  /\ UNCHANGED <<limitVars, seen, chanVars, recvVars, clientVars>>

SendLeft(p, q) ==
  /\ pc[p] = "leaving"
  /\ q \in todo[p]
  /\ SendTo(q, Left(p))
  /\ todo' = [todo EXCEPT ![p] = @ \ {q}]
  /\ pc' = [pc EXCEPT ![p] = IF todo[p] = {q} THEN "gone" ELSE @]
  /\ UNCHANGED <<roomVars, limitVars, seen, recvVars, clientVars>>

-----------------------------------------------------------------------------
(* The receive task: messages of the client. *)

\* The client has something to say and the task is ready for it.
Ready(p) == pc[p] = "open" /\ hello[p] /\ rto[p] = {}

\* Over the limit: the client gets an error and the task ends.
RecvRefused(p) ==
  /\ Ready(p)
  /\ TooMany(Group[p])
  /\ rmsg' = [rmsg EXCEPT ![p] = Error]
  /\ rto' = [rto EXCEPT ![p] = {p}]
  /\ UNCHANGED <<roomVars, limitVars, handlerVars, chanVars, clientVars>>

\* send_update_to_other_peers_with_lock
RecvUpdate(p, i) ==
  /\ Ready(p)
  /\ ~TooMany(Group[p])
  /\ CountRequest(Group[p])
  /\ info' = [info EXCEPT ![p] = i]
  /\ rmsg' = [rmsg EXCEPT ![p] = IF Others(p) # {} THEN Update(p, i) ELSE @]
  /\ rto' = [rto EXCEPT ![p] = Others(p)]
  /\ UNCHANGED <<rooms, handlerVars, chanVars, clientVars>>

\* send_to_peer_with_lock, for an offer or an answer: a target that is not in the room is ignored.
RecvSdp(p, q) ==
  /\ Ready(p)
  /\ ~TooMany(Group[p])
  /\ CountRequest(Group[p])
  /\ rmsg' = [rmsg EXCEPT ![p] = IF q \in Members(p) THEN Sdp(p) ELSE @]
  /\ rto' = [rto EXCEPT ![p] = {q} \cap Members(p)]
  /\ UNCHANGED <<roomVars, handlerVars, chanVars, clientVars>>

\* The task forwards its message; after an error it exits.
RecvForward(p, q) ==
  /\ pc[p] = "open"
  /\ q \in rto[p]
  /\ SendTo(q, rmsg[p])
  /\ rto' = [rto EXCEPT ![p] = @ \ {q}]
  /\ rmsg' = [rmsg EXCEPT ![p] = IF rto[p] = {q} THEN Error ELSE @]
  /\ pc' = [pc EXCEPT ![p] = IF rmsg[p] = Error THEN "exit" ELSE @]
  /\ UNCHANGED <<roomVars, limitVars, todo, seen, clientVars>>

\* The scheduler's hourly job.
ResetRequests ==
  /\ hours < MaxHours
  /\ hours' = hours + 1
  /\ requests' = [g \in Groups |-> 0]
  /\ UNCHANGED <<roomVars, handlerVars, chanVars, recvVars, clientVars>>

-----------------------------------------------------------------------------
(* The client. *)

\* The send task writes to the socket and the client reads it.  The reader
\* holds one message besides those in the receive channel, and it reports a
\* Hello before it waits for room.
Deliver(p) ==
  /\ pc[p] \in {"open", "exit"}
  /\ chan[p] # <<>>
  /\ Len(inbox[p]) < ClientBuffer + 1
  /\ chan' = [chan EXCEPT ![p] = Tail(@)]
  /\ inbox' = [inbox EXCEPT ![p] = Append(@, Head(chan[p]))]
  /\ hello' = [hello EXCEPT ![p] = @ \/ Head(chan[p]).type = "Hello"]
  /\ UNCHANGED <<roomVars, limitVars, handlerVars, rxOpen, recvVars, view>>

\* The peers of Hello are added to those that are shown.
Merged(peers, v) ==
  [q \in Peers |-> IF peers[q] # None THEN peers[q] ELSE v[q]]

\* Broken variant of Shown: a device that is shown already is not updated.
ShownOnce(v, m) ==
  CASE m.type = "Hello" -> Merged(m.peers, v)
    [] m.type \in {"Join", "Update"} /\ v[m.peer] = None ->
         [v EXCEPT ![m.peer] = m.info]
    [] m.type = "Left" -> [v EXCEPT ![m.peer] = None]
    [] OTHER -> v

\* What the application shows after message m: Hello, Join and Update
\* register devices, Left unregisters one.
Shown(v, m) ==
  CASE m.type = "Hello" -> Merged(m.peers, v)
    [] m.type \in {"Join", "Update"} -> [v EXCEPT ![m.peer] = m.info]
    [] m.type = "Left" -> [v EXCEPT ![m.peer] = None]
    [] OTHER -> v

\* The application takes messages once connect has returned.
ClientTake(p) ==
  /\ hello[p]
  /\ inbox[p] # <<>>
  /\ inbox' = [inbox EXCEPT ![p] = Tail(@)]
  /\ view' = [view EXCEPT ![p] = Shown(@, Head(inbox[p]))]
  /\ UNCHANGED <<roomVars, limitVars, handlerVars, chanVars, recvVars, hello>>

-----------------------------------------------------------------------------

HandlerStep(p) ==
  \/ \E i \in Infos : Connect(p, i)
  \/ \E q \in Peers : SendJoin(p, q) \/ SendLeft(p, q)
  \/ SendHello(p)
  \/ Disconnect(p)
  \/ Teardown(p)

RecvStep(p) ==
  \/ RecvRefused(p)
  \/ \E i \in Infos : RecvUpdate(p, i)
  \/ \E q \in Peers : RecvSdp(p, q)
  \/ \E q \in Peers : RecvForward(p, q)

ClientStep(p) == Deliver(p) \/ ClientTake(p)

Next ==
  \/ \E p \in Peers : HandlerStep(p) \/ RecvStep(p) \/ ClientStep(p)
  \/ ResetRequests

Spec == Init /\ [][Next]_vars

-----------------------------------------------------------------------------
(* Properties. *)

\* A connection whose tasks run is in its room, and its room has an entry:
\* no other connection's departure takes it away.
Registered ==
  \A p \in Peers :
    pc[p] \in {"joining", "open", "exit", "ending"} =>
      info[p] # None /\ Group[p] \in rooms

\* Does message m tell about peer q?
About(m, q) ==
  \/ m.type \in {"Join", "Update", "Left"} /\ m.peer = q
  \/ m.type = "Hello" /\ m.peers[q] # None

\* Something about q is still on its way to p.
InTransit(p, q) ==
  \/ \E i \in 1..Len(chan[p]) : About(chan[p][i], q)
  \/ \E i \in 1..Len(inbox[p]) : About(inbox[p][i], q)
  \/ p \in todo[q]
  \/ p \in rto[q] /\ rmsg[q].type = "Update"

\* Every member of its room is shown to a connected client, or will be.
NobodyMissing ==
  \A p \in Peers : \A q \in Others(p) :
    pc[p] = "open" /\ hello[p] /\ view[p][q] = None => InTransit(p, q)

\* Within its limits the server loses no member of a room, and every member
\* is known to the others or about to be (handle_socket of ws_controller.rs).
MembersKnown == TypeOK /\ Registered /\ NobodyMissing

\* What a connected client shows of q, or will show once what is on its way
\* has arrived, is what q last said, and nothing once q has left.
Exact(p, q) ==
  pc[p] = "open" /\ hello[p] /\ ~InTransit(p, q) /\ pc[q] # "ending" =>
    view[p][q] = IF q \in Others(p) THEN info[q] ELSE None

\* This holds for every peer that joined later than the client did.
NewcomersExact ==
  \A p \in Peers : \A q \in Peers \ {p} : seen[p][q] = None => Exact(p, q)
=============================================================================
