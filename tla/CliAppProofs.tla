----------------------------- MODULE CliAppProofs -----------------------------
(***************************************************************************)
(* The command line program, for every world it may run in: consent and    *)
(* the screen, the sessions it tracks, what it keeps on disk and the       *)
(* hotkeys.  The inductive invariant has a part for the types, one for the *)
(* disk and the discovered devices, one for the screen, one for the send   *)
(* and one for the sessions that are received; each part is preserved with *)
(* the help of the types alone.                                            *)
(***************************************************************************)
EXTENDS CliApp, SequenceTheorems, WellFoundedInduction, TLAPS

Items(q) == {q[i] : i \in DOMAIN q}

-----------------------------------------------------------------------------
(* The inductive invariant.                                                *)

Modes == {"tls", "share", "receive"}
Statuses == Unfinished \cup {"ok", "failed", "mismatch"}
Decisions == {"none", "accept", "empty", "decline"}
Consents == {"paired", "claimed", "shown", "astray"}
Hows == Consents \cup {"unseen"}
Bounds(w) ==
    [keys : Int, sends : 0..w.sends, seen : Int, lives : Int, came : 0..Len(w.requests)]
Uploads(w) == [id : Ids(w), f : Nat, try : Nat]
FilesOf(w, i) == 1..w.requests[i].files
SlotOfId(w, i) ==
    [id : {i}, phase : {"waiting", "active"}, decision : Decisions,
     files : [FilesOf(w, i) -> Statuses], tries : [FilesOf(w, i) -> 0..Attempts]]
SessionSlots(w) == UNION {SlotOfId(w, i) : i \in Ids(w)}
Servers(w) == [up : BOOLEAN, stop : BOOLEAN, mode : Modes, slot : {None} \cup SessionSlots(w)]
Prepared(w) == [kind : {"prepare"}, id : Ids(w), cert : BOOLEAN]
Given(w) == [kind : {"aborted"}, id : Ids(w)]
Asked(w) == [kind : {"upload"}, up : Uploads(w)]
Over(w) == [kind : {"end"}, id : Ids(w), reason : {"finished", "cancelled"}]
Cancelled == [kind : {"cancel"}, n : Int, host : BOOLEAN]
Endings(w) == [by : {"request", "task"}, event : Given(w) \cup Over(w)]
Events(w) == Prepared(w) \cup Given(w) \cup Asked(w) \cup Over(w) \cup Cancelled
Reports(w) == [up : Uploads(w), ok : BOOLEAN]
ReceiveSessions(w) ==
    [id : Ids(w), busy : SUBSET Nat, finished : Nat, failed : Nat,
     ended : {"no", "finished", "cancelled"}]

\* The program.
AppType ==
    /\ world \in Worlds /\ run \in {"off", "on", "quit"}
    /\ left \in Bounds(world)
    /\ loop \in [stage : {"idle", "wait"}, mode : Modes]
    /\ chord \in BOOLEAN /\ web \in {"off", "share", "receive"}
    /\ pending = None \/ pending \in [id : Ids(world), as : Devices]
    /\ receive = None \/ receive \in ReceiveSessions(world)
    /\ accepted \subseteq [id : Ids(world), how : Hows]

\* Its server.
NetType ==
    /\ server \in Servers(world) /\ serverRx \in Seq(Events(world))
    /\ ending \subseteq Endings(world)
    /\ asking \subseteq Uploads(world) /\ writes \subseteq Uploads(world)
    /\ results \subseteq Reports(world)
    /\ cancels \subseteq Ids(world)

\* The disk and the devices that were discovered.
FindType ==
    /\ store \in [Devices -> {0} \cup Addresses] /\ adding \subseteq Devices
    /\ missed \subseteq Devices
    /\ discoveryRx \in Seq([new : BOOLEAN, dev : Devices])
    /\ slots \in [DOMAIN slots -> 0..MaxSlot] /\ DOMAIN slots \subseteq Devices
DiskInv ==
    /\ FindType /\ storage!StorageType
    /\ PairedInSync /\ storage!FileWhole /\ storage!DiskCurrent /\ storage!IdentityKept
    /\ run = "off" => store = [d \in Devices |-> 0] /\ discoveryRx = <<>>
    /\ \A d, e \in DOMAIN slots : slots[d] = slots[e] /\ slots[d] # 0 => d = e

\* A modal is a device list or a picker.
Shows(m) == \/ m = [kind |-> "list", list |-> m.list]
            \/ m = [kind |-> "picker", picker |-> m.picker]

\* The screen.  A prompt that waits is shown, or will be when the modal closes.
Prompts(u) ==
    IF u.buffered # 0 THEN {u.buffered} ELSE IF u.over # 0 THEN {u.over} ELSE {u.shown, u.gone}
ScreenInv ==
    /\ ui \in [suspended : BOOLEAN, alt : BOOLEAN, buffered : Nat, shown : Nat,
                stray : BOOLEAN, over : Nat, gone : Nat]
    /\ modal = NoModal \/ Shows(modal)
    /\ run = "off" => modal = NoModal
    /\ ScreenOwned
    /\ ui.stray => ~ui.suspended
    /\ ~ui.stray => ui.over = 0
    /\ pending # None => pending.id \in Prompts(ui)

\* The send.  Its task says which of its events may be on the way, and what
\* its receiver may still do; an event of a cancel is about a past send or
\* the receiver of this one has ended its session.
SendType ==
    /\ send \in [n : 0..world.sends, sid : BOOLEAN, token : BOOLEAN, byPeer : BOOLEAN]
    /\ task \in {"none", "prepare", "announce", "upload", "notify", "ended", "panicked"}
    /\ peer \in {"none", "asked", "active", "refused", "over"}
    /\ unaware \in BOOLEAN
SendEvents ==
    CASE task \in {"prepare", "announce"} -> {<<>>}
      [] task \in {"upload", "notify", "ended", "panicked"} -> {<<>>, <<"started">>}
      [] OTHER -> {<<>>, <<"ended">>, <<"started", "ended">>}
CancelNews ==
    \A e \in Items(serverRx) :
        e.kind = "cancel" => /\ e.n > left.sends
                             /\ send # NoSend /\ e.n = send.n => peer = "over"
SendInv ==
    /\ SendType
    /\ sendRx \in SendEvents
    /\ (send # NoSend) = (task # "none" \/ sendRx # <<>>)
    /\ send # NoSend => send.n = left.sends + 1
    /\ peer = "asked" => task = "prepare"
    /\ task \in {"none", "ended", "panicked"} /\ peer = "active" => unaware
    /\ send.byPeer => peer = "over"
    /\ CancelNews

\* The sessions that are received.
WasAccepted(id) == \E y \in accepted : y.id = id
SlotInv ==
    /\ ~server.up => server.slot = None
    /\ run = "off" => ~server.up
    /\ server.slot # None =>
        /\ server.slot.id <= left.came
        /\ server.slot.phase = "active" \/ server.slot.decision = "accept" => WasAccepted(server.slot.id)
        /\ server.slot.phase = "waiting" /\ server.slot.decision = "none" => ~WasAccepted(server.slot.id)
        /\ server.slot.phase = "waiting" /\ receive.id = server.slot.id => server.slot.decision = "accept"
AcceptInv ==
    /\ \A y \in accepted : y.how \in Consents /\ y.id <= left.came
    /\ receive # None => WasAccepted(receive.id)
    /\ \A id \in cancels : WasAccepted(id) /\ receive.id # id
BusyInv ==
    receive # None =>
        /\ \A f \in receive.busy :
                \E u \in writes \cup {r.up : r \in results} : u.id = receive.id /\ u.f = f
        /\ receive.ended # "no" => receive.busy # {}
SessionInv == SlotInv /\ AcceptInv /\ BusyInv /\ ReceiveTracked

CliInv == AppType /\ NetType /\ DiskInv /\ ScreenInv /\ SendInv /\ SessionInv

-----------------------------------------------------------------------------
(* Lemmas about the state.                                                 *)

\* What the worlds promise.
LEMMA WorldFacts ==
    ASSUME world \in Worlds
    PROVE  /\ world.requests \in Seq([from : Devices, claims : Devices, message : BOOLEAN, files : Nat])
           /\ world.paired \in [Devices -> {0, 1} \cup Addresses]
           /\ world.sends \in Nat /\ world.seen \in Nat /\ world.presses \in Nat
           /\ world.lives \in Nat /\ Len(world.requests) \in Nat
           /\ Ids(world) \subseteq Nat \ {0}
           /\ Addresses \subseteq Nat \ {0, 1} /\ MaxSlot \in Nat /\ Attempts \in Nat \ {0}
<1>1. World(world)
  BY ConstantsAssumption
<1>2. /\ world.requests \in Seq([from : Devices, claims : Devices, message : BOOLEAN, files : Nat])
      /\ world.paired \in [Devices -> {0, 1} \cup Addresses]
      /\ world.sends \in Nat /\ world.seen \in Nat /\ world.presses \in Nat
      /\ world.lives \in Nat
  BY <1>1, Zenon DEF World
<1>3. Len(world.requests) \in Nat
  BY <1>2, LenProperties
<1>4. Ids(world) \subseteq Nat \ {0}
  BY <1>3 DEF Ids
<1>5. Addresses \subseteq Nat \ {0, 1} /\ MaxSlot \in Nat /\ Attempts \in Nat \ {0}
  BY ConstantsAssumption, Zenon
<1> QED
  BY <1>2, <1>3, <1>4, <1>5, Zenon

\* The requests of a world.
LEMMA RequestFacts ==
    ASSUME world \in Worlds, NEW i \in Ids(world)
    PROVE  /\ i \in Nat \ {0} /\ i <= Len(world.requests)
           /\ Request(i).from \in Devices /\ Request(i).claims \in Devices
           /\ Request(i).message \in BOOLEAN
           /\ Request(i).files \in Nat /\ Files(i) = FilesOf(world, i)
           /\ FilesOf(world, i) \subseteq Nat
<1>1. world.requests[i] \in [from : Devices, claims : Devices, message : BOOLEAN, files : Nat]
  <2>1. world.requests \in Seq([from : Devices, claims : Devices, message : BOOLEAN, files : Nat])
    BY WorldFacts, Zenon
  <2>2. i \in 1..Len(world.requests)
    BY DEF Ids
  <2> QED
    BY <2>1, <2>2, ElementOfSeq, Zenon
<1>2. i \in Nat \ {0} /\ i <= Len(world.requests)
  BY WorldFacts DEF Ids
<1> QED
  BY <1>1, <1>2 DEF Request, Files, FilesOf

\* A session slot is not None, and has the fields of its request.
LEMMA SlotFacts ==
    ASSUME world \in Worlds, NEW s \in SessionSlots(world)
    PROVE  /\ s.id \in Ids(world) /\ s.id \in Nat \ {0} /\ s # None
           /\ s \in SlotOfId(world, s.id)
           /\ s.phase \in {"waiting", "active"} /\ s.decision \in Decisions
           /\ s.files \in [FilesOf(world, s.id) -> Statuses]
           /\ s.tries \in [FilesOf(world, s.id) -> 0..Attempts]
<1>1. PICK i \in Ids(world) : s \in SlotOfId(world, i)
  BY DEF SessionSlots
<1>2. s.id = i
  BY <1>1 DEF SlotOfId
<1>3. s.id \in Nat \ {0}
  BY <1>2, RequestFacts
<1> QED
  BY <1>1, <1>2, <1>3 DEF SlotOfId, None

\* What an assignment to a field of a slot leaves.
LEMMA SlotUpdates ==
    ASSUME world \in Worlds, NEW s \in SessionSlots(world)
    PROVE  /\ \A d \in Decisions : [s EXCEPT !.decision = d] \in SessionSlots(world)
           /\ \A p \in {"waiting", "active"} : [s EXCEPT !.phase = p] \in SessionSlots(world)
           /\ \A f : \A st \in Statuses : [s EXCEPT !.files[f] = st] \in SessionSlots(world)
           /\ \A f \in FilesOf(world, s.id) : \A st \in Statuses :
                s.tries[f] < Attempts =>
                    [s EXCEPT !.files[f] = st, !.tries[f] = @ + 1] \in SessionSlots(world)
<1>1. s \in SlotOfId(world, s.id) /\ s.id \in Ids(world)
  BY SlotFacts
<1>2. ASSUME NEW d \in Decisions
      PROVE  [s EXCEPT !.decision = d] \in SlotOfId(world, s.id)
  BY <1>1 DEF SlotOfId
<1>3. ASSUME NEW p \in {"waiting", "active"}
      PROVE  [s EXCEPT !.phase = p] \in SlotOfId(world, s.id)
  BY <1>1 DEF SlotOfId
<1>4. ASSUME NEW f, NEW st \in Statuses
      PROVE  [s EXCEPT !.files[f] = st] \in SlotOfId(world, s.id)
  BY <1>1 DEF SlotOfId
<1>5. ASSUME NEW f \in FilesOf(world, s.id), NEW st \in Statuses, s.tries[f] < Attempts
      PROVE  [s EXCEPT !.files[f] = st, !.tries[f] = @ + 1] \in SlotOfId(world, s.id)
  <2>1. s.tries[f] + 1 \in 0..Attempts
    BY <1>1, <1>5, WorldFacts DEF SlotOfId
  <2> QED
    BY <1>1, <1>5, <2>1 DEF SlotOfId
<1> QED
  BY <1>1, <1>2, <1>3, <1>4, <1>5 DEF SessionSlots

\* What a queue holds.
LEMMA AnyQueue ==
  ASSUME NEW S, NEW q \in Seq(S)
  PROVE  /\ \A e \in S : Append(q, e) \in Seq(S) /\ Items(Append(q, e)) = Items(q) \cup {e}
         /\ q # <<>> => /\ Head(q) \in S /\ Tail(q) \in Seq(S)
                        /\ Items(q) = Items(Tail(q)) \cup {Head(q)}
<1>1. ASSUME NEW e \in S
      PROVE  Append(q, e) \in Seq(S) /\ Items(Append(q, e)) = Items(q) \cup {e}
  <2>1. /\ Append(q, e) \in Seq(S) /\ Len(q) \in Nat
        /\ DOMAIN q = 1..Len(q) /\ DOMAIN Append(q, e) = 1..(Len(q) + 1)
        /\ \A i \in 1..Len(q) : Append(q, e)[i] = q[i]
        /\ Append(q, e)[Len(q) + 1] = e
    OBVIOUS
  <2>2. \A i \in DOMAIN Append(q, e) : i \in 1..Len(q) \/ i = Len(q) + 1
    BY <2>1
  <2> QED
    BY <2>1, <2>2 DEF Items
<1>2. ASSUME q # <<>>
      PROVE  /\ Head(q) \in S /\ Tail(q) \in Seq(S)
             /\ Items(q) = Items(Tail(q)) \cup {Head(q)}
  <2>1. /\ Head(q) \in S /\ Tail(q) \in Seq(S) /\ Len(q) \in Nat \ {0}
        /\ DOMAIN q = 1..Len(q) /\ DOMAIN Tail(q) = 1..(Len(q) - 1)
        /\ \A i \in 1..(Len(q) - 1) : Tail(q)[i] = q[i + 1]
        /\ Head(q) = q[1]
    BY <1>2
  <2>2. \A i \in 1..Len(q) : i = 1 \/ (i - 1 \in 1..(Len(q) - 1) /\ (i - 1) + 1 = i)
    BY <2>1
  <2>3. ASSUME NEW x \in Items(q) PROVE x \in Items(Tail(q)) \cup {Head(q)}
    <3>1. PICK i \in 1..Len(q) : x = q[i]
      BY <2>1 DEF Items
    <3>2. CASE i = 1
      BY <2>1, <3>1, <3>2
    <3>3. CASE i - 1 \in 1..(Len(q) - 1) /\ (i - 1) + 1 = i
      <4>1. x = Tail(q)[i - 1]
        BY <2>1, <3>1, <3>3
      <4> QED
        BY <2>1, <3>3, <4>1 DEF Items
    <3> QED
      BY <2>2, <3>2, <3>3
  <2>4. ASSUME NEW x \in Items(Tail(q)) PROVE x \in Items(q)
    <3>1. PICK i \in 1..(Len(q) - 1) : x = q[i + 1]
      BY <2>1 DEF Items
    <3>2. i + 1 \in DOMAIN q
      BY <2>1, <3>1
    <3> QED
      BY <3>1, <3>2 DEF Items
  <2>5. Head(q) \in Items(q)
    BY <2>1 DEF Items
  <2> QED
    BY <2>1, <2>3, <2>4, <2>5
<1> QED
  BY <1>1, <1>2

\* The events of the server.
LEMMA EventFacts ==
    ASSUME world \in Worlds
    PROVE  /\ \A i \in Ids(world) :
                /\ \A c \in BOOLEAN : [kind |-> "prepare", id |-> i, cert |-> c] \in Events(world)
                /\ Aborted(i) \in Given(world)
                /\ Ended(i, "finished") \in Over(world)
                /\ Ended(i, "cancelled") \in Over(world)
           /\ \A u \in Uploads(world) : [kind |-> "upload", up |-> u] \in Events(world)
           /\ \A n \in Int, host \in BOOLEAN :
                [kind |-> "cancel", n |-> n, host |-> host] \in Events(world)
           /\ \A e \in Events(world) :
                /\ e.kind \in {"prepare", "aborted", "upload", "end", "cancel"}
                /\ e.kind \in {"prepare", "aborted", "end"} => e.id \in Ids(world)
                /\ e.kind = "prepare" => e.cert \in BOOLEAN
                /\ e.kind = "upload" => e.up \in Uploads(world)
                /\ e.kind = "end" => e.reason \in {"finished", "cancelled"}
                /\ e.kind = "cancel" => e.n \in Int /\ e.host \in BOOLEAN
           /\ \A x \in Endings(world) :
                /\ x.event \in Events(world) /\ x.event.kind \in {"aborted", "end"}
                /\ x.event.id \in Ids(world)
<1>1. \A i \in Ids(world) :
        /\ \A c \in BOOLEAN : [kind |-> "prepare", id |-> i, cert |-> c] \in Prepared(world)
        /\ Aborted(i) \in Given(world)
        /\ Ended(i, "finished") \in Over(world)
        /\ Ended(i, "cancelled") \in Over(world)
  BY DEF Prepared, Given, Over, Ended, Aborted
<1>2. \A u \in Uploads(world) : [kind |-> "upload", up |-> u] \in Asked(world)
  BY DEF Asked
<1>3. \A n \in Int, host \in BOOLEAN : [kind |-> "cancel", n |-> n, host |-> host] \in Cancelled
  BY DEF Cancelled
<1>4. \A e \in Prepared(world) :
        e.kind = "prepare" /\ e.id \in Ids(world) /\ e.cert \in BOOLEAN
  BY DEF Prepared
<1>5. \A e \in Given(world) : e.kind = "aborted" /\ e.id \in Ids(world)
  BY DEF Given
<1>6. \A e \in Asked(world) : e.kind = "upload" /\ e.up \in Uploads(world)
  BY DEF Asked
<1>7. \A e \in Over(world) :
        e.kind = "end" /\ e.id \in Ids(world) /\ e.reason \in {"finished", "cancelled"}
  BY DEF Over
<1>8. \A e \in Cancelled : e.kind = "cancel" /\ e.n \in Int /\ e.host \in BOOLEAN
  BY DEF Cancelled
<1>9. \A x \in Endings(world) : x.event \in Given(world) \cup Over(world)
  BY DEF Endings
<1> QED
  BY <1>1, <1>2, <1>3, <1>4, <1>5, <1>6, <1>7, <1>8, <1>9 DEF Events

\* What the server is made of.
LEMMA ServerFacts ==
    ASSUME world \in Worlds, server \in Servers(world)
    PROVE  /\ server.slot = None \/ server.slot \in SessionSlots(world)
           /\ server.slot = None <=> server.slot.id = 0
           /\ server.up \in BOOLEAN /\ server.stop \in BOOLEAN /\ server.mode \in Modes
           /\ \A s \in {None} \cup SessionSlots(world) :
                /\ [server EXCEPT !.slot = s] \in Servers(world)
                /\ [server EXCEPT !.slot = s].slot = s
                /\ [server EXCEPT !.slot = s].up = server.up
<1>1. server.slot \in {None} \cup SessionSlots(world)
  BY DEF Servers
<1>2. \A s \in SessionSlots(world) : s.id # 0 /\ s # None
  BY SlotFacts
<1>3. None.id = 0
  BY DEF None
<1> QED
  BY <1>1, <1>2, <1>3 DEF Servers

\* A decision reaches the request that waits for it, and no other.
LEMMA DecideDoes ==
    ASSUME world \in Worlds, server \in Servers(world),
           NEW id \in Ids(world), NEW decision \in Decisions, Decide(id, decision)
    PROVE  /\ server' \in Servers(world) /\ server'.up = server.up
           /\ Waits(id) =>
                /\ server.slot \in SessionSlots(world) /\ server.slot.id = id
                /\ server.slot.phase = "waiting" /\ server.slot.decision = "none"
                /\ server'.slot \in SessionSlots(world)
                /\ server'.slot.id = id /\ server'.slot.phase = "waiting"
                /\ server'.slot.decision = decision
           /\ ~Waits(id) => server' = server
<1>1. CASE Waits(id)
  <2>1. id # 0
    BY RequestFacts
  <2>2. /\ server.slot \in SessionSlots(world) /\ server.slot.id = id
        /\ server.slot.phase = "waiting" /\ server.slot.decision = "none"
    BY <1>1, <2>1, ServerFacts DEF Waits
  <2>3. server' = [server EXCEPT !.slot = [server.slot EXCEPT !.decision = decision]]
    BY <1>1 DEF Decide, Servers
  <2>4. [server.slot EXCEPT !.decision = decision] \in SessionSlots(world)
    BY <2>2, SlotUpdates
  <2>5. /\ [server.slot EXCEPT !.decision = decision].id = id
        /\ [server.slot EXCEPT !.decision = decision].phase = "waiting"
        /\ [server.slot EXCEPT !.decision = decision].decision = decision
    <3>1. server.slot \in SlotOfId(world, id)
      BY <2>2, SlotFacts
    <3> QED
      BY <3>1, <2>2 DEF SlotOfId
  <2>6. /\ server' \in Servers(world) /\ server'.up = server.up
        /\ server'.slot = [server.slot EXCEPT !.decision = decision]
    BY <2>3, <2>4, ServerFacts
  <2> QED
    BY <1>1, <2>2, <2>4, <2>5, <2>6
<1>2. CASE ~Waits(id)
  BY <1>2 DEF Decide
<1> QED
  BY <1>1, <1>2

\* A session is tracked if, and only if, its decision arrived.
LEMMA AcceptAllDoes ==
    ASSUME world \in Worlds, server \in Servers(world),
           NEW id \in Ids(world), NEW how \in Hows, AcceptAll(id, how)
    PROVE  /\ server' \in Servers(world) /\ server'.up = server.up
           /\ Waits(id) =>
                /\ receive' = NewSession(id) /\ receive' \in ReceiveSessions(world)
                /\ accepted' = accepted \cup {[id |-> id, how |-> how]}
                /\ server.slot \in SessionSlots(world) /\ server.slot.id = id
                /\ server.slot.phase = "waiting" /\ server.slot.decision = "none"
                /\ server'.slot \in SessionSlots(world)
                /\ server'.slot.id = id /\ server'.slot.phase = "waiting"
                /\ server'.slot.decision = "accept"
           /\ ~Waits(id) => server' = server /\ receive' = receive /\ accepted' = accepted
<1>1. Decide(id, "accept") /\ "accept" \in Decisions
  BY DEF AcceptAll, Decisions
<1>2. NewSession(id) \in ReceiveSessions(world)
  BY DEF NewSession, ReceiveSessions
<1>3. Waits(id) => receive' = NewSession(id) /\ accepted' = accepted \cup {[id |-> id, how |-> how]}
  BY DEF AcceptAll, Remember
<1>4. ~Waits(id) => receive' = receive /\ accepted' = accepted
  BY DEF AcceptAll
<1> QED
  BY <1>1, <1>2, <1>3, <1>4, DecideDoes

\* The slot keeps its session, in the same phase.
SameSession ==
    /\ server'.up = server.up
    /\ server.slot = None => server'.slot = None
    /\ server.slot # None =>
        /\ server'.slot \in SessionSlots(world)
        /\ server'.slot.id = server.slot.id /\ server'.slot.phase = server.slot.phase
        /\ server'.slot.decision = server.slot.decision

\* The session stays as it is, or its last file ends it: an event is owed.
FileFinal ==
    /\ server' \in Servers(world) /\ ending' \subseteq Endings(world) /\ ending \subseteq ending'
    /\ \/ SameSession
       \/ /\ server'.up = server.up
          /\ server.slot \in SessionSlots(world) /\ server'.slot = None
          /\ \E x \in ending' : x.event = Ended(server.slot.id, "finished")

\* What a file's status does to its session.
LEMMA StatusDoes ==
    ASSUME world \in Worlds, server \in Servers(world), server.slot # None,
           NEW f, NEW status \in Statuses
    PROVE  LET s == [server.slot EXCEPT !.files[f] = status]
           IN  /\ server.slot \in SessionSlots(world)
               /\ s \in SessionSlots(world) /\ s # None
               /\ s.id = server.slot.id /\ s.phase = server.slot.phase
               /\ s.decision = server.slot.decision
<1>1. server.slot \in SessionSlots(world)
  BY ServerFacts
<1> DEFINE s == [server.slot EXCEPT !.files[f] = status]
<1>2. s \in SessionSlots(world)
  BY <1>1, SlotUpdates
<1>3. s.id = server.slot.id /\ s.phase = server.slot.phase /\ s.decision = server.slot.decision
  <2>1. server.slot \in SlotOfId(world, server.slot.id)
    BY <1>1, SlotFacts
  <2> QED
    BY <2>1 DEF SlotOfId
<1> HIDE DEF s
<1>4. s # None
  BY <1>2, SlotFacts
<1> QED
  BY <1>1, <1>2, <1>3, <1>4 DEF s

\* The last file of a session ends it, with an event.
LEMMA FinaliseDoes ==
    ASSUME world \in Worlds, server \in Servers(world), ending \subseteq Endings(world),
           server.slot # None, NEW f, NEW status \in Statuses, NEW by \in {"request", "task"},
           Finalise(f, status, by)
    PROVE  FileFinal
<1> DEFINE s == [server.slot EXCEPT !.files[f] = status]
           x == Owes(by, Ended(server.slot.id, "finished"))
<1>1. /\ server.slot \in SessionSlots(world) /\ s \in SessionSlots(world) /\ s # None
      /\ s.id = server.slot.id /\ s.phase = server.slot.phase /\ s.decision = server.slot.decision
  BY StatusDoes
<1>2. Finalised(server.slot, f, status) \in {s, None}
  BY DEF Finalised
<1>3. server' = [server EXCEPT !.slot = Finalised(server.slot, f, status)]
  BY DEF Finalise
<1> HIDE DEF s
<1>4. server' \in Servers(world) /\ server'.up = server.up /\ server'.slot \in {s, None}
  BY <1>1, <1>2, <1>3, ServerFacts
<1>5. x \in Endings(world) /\ x.event = Ended(server.slot.id, "finished")
  BY <1>1, SlotFacts, EventFacts DEF Owes, Endings
<1> HIDE DEF x
<1>6. ending' = IF server'.slot = None THEN ending \cup {x} ELSE ending
  BY DEF Finalise, x
<1> QED
  BY <1>1, <1>4, <1>5, <1>6 DEF FileFinal, SameSession

\* A file is final, or its request was dropped at the lock.
LEMMA FinishDoes ==
    ASSUME world \in Worlds, server \in Servers(world), ending \subseteq Endings(world),
           server.slot # None, NEW f, NEW status \in Statuses, NEW by \in {"request", "task"},
           Finish(f, status, by)
    PROVE  FileFinal
<1>1. CASE Finalise(f, status, by)
  BY <1>1, FinaliseDoes
<1>2. CASE server' = [server EXCEPT !.slot.files[f] = "stuck"] /\ UNCHANGED ending
  <2> DEFINE s == [server.slot EXCEPT !.files[f] = "stuck"]
  <2>1. "stuck" \in Statuses
    BY DEF Statuses, Unfinished
  <2>2. /\ server.slot \in SessionSlots(world) /\ s \in SessionSlots(world) /\ s # None
        /\ s.id = server.slot.id /\ s.phase = server.slot.phase /\ s.decision = server.slot.decision
    BY <2>1, StatusDoes
  <2>3. server' = [server EXCEPT !.slot = s]
    BY <1>2 DEF Servers
  <2> HIDE DEF s
  <2>4. server' \in Servers(world) /\ server'.up = server.up /\ server'.slot = s
    BY <2>2, <2>3, ServerFacts
  <2> QED
    BY <1>2, <2>2, <2>4 DEF FileFinal, SameSession
<1> QED
  BY <1>1, <1>2 DEF Finish

-----------------------------------------------------------------------------
(* What the actions do to the state, in terms of its types.                *)

Types == AppType /\ NetType /\ SendType

\* The bounds: keys are spent, a send or a request is counted.
LEMMA LeftDoes ==
    ASSUME AppType
    PROVE  /\ left.sends \in Nat /\ left.came \in Nat
           /\ LET l == [left EXCEPT !.keys = @ - 1]
              IN  l \in Bounds(world) /\ l.sends = left.sends /\ l.came = left.came
           /\ LET l == [left EXCEPT !.seen = @ - 1]
              IN  l \in Bounds(world) /\ l.sends = left.sends /\ l.came = left.came
           /\ LET l == [left EXCEPT !.lives = @ - 1]
              IN  l \in Bounds(world) /\ l.sends = left.sends /\ l.came = left.came
           /\ left.sends > 0 =>
                LET l == [left EXCEPT !.sends = @ - 1, !.keys = @ - 1]
                IN  l \in Bounds(world) /\ l.sends = left.sends - 1 /\ l.came = left.came
           /\ left.came < Len(world.requests) =>
                LET l == [left EXCEPT !.came = left.came + 1]
                IN  l \in Bounds(world) /\ l.sends = left.sends /\ l.came = left.came + 1
<1>1. world.sends \in Nat /\ Len(world.requests) \in Nat
  BY WorldFacts DEF AppType
<1>2. left \in Bounds(world)
  BY DEF AppType
<1>3. left.sends \in 0..world.sends /\ left.came \in 0..Len(world.requests) /\ left.keys \in Int
      /\ left.seen \in Int /\ left.lives \in Int
  BY <1>2 DEF Bounds
<1>4. left.sends \in Nat /\ left.came \in Nat
  BY <1>1, <1>3
<1>5. ASSUME left.sends > 0
      PROVE  LET l == [left EXCEPT !.sends = @ - 1, !.keys = @ - 1]
             IN  l \in Bounds(world) /\ l.sends = left.sends - 1 /\ l.came = left.came
  <2>1. left.sends - 1 \in 0..world.sends /\ left.keys - 1 \in Int
    BY <1>1, <1>3, <1>5
  <2> QED
    BY <1>2, <2>1 DEF Bounds
<1>6. ASSUME left.came < Len(world.requests)
      PROVE  LET l == [left EXCEPT !.came = left.came + 1]
             IN  l \in Bounds(world) /\ l.sends = left.sends /\ l.came = left.came + 1
  <2>1. left.came + 1 \in 0..Len(world.requests)
    BY <1>1, <1>3, <1>6
  <2> QED
    BY <1>2, <2>1 DEF Bounds
<1>7. /\ LET l == [left EXCEPT !.keys = @ - 1]
         IN  l \in Bounds(world) /\ l.sends = left.sends /\ l.came = left.came
      /\ LET l == [left EXCEPT !.seen = @ - 1]
         IN  l \in Bounds(world) /\ l.sends = left.sends /\ l.came = left.came
      /\ LET l == [left EXCEPT !.lives = @ - 1]
         IN  l \in Bounds(world) /\ l.sends = left.sends /\ l.came = left.came
  <2>1. left.keys - 1 \in Int /\ left.seen - 1 \in Int /\ left.lives - 1 \in Int
    BY <1>3
  <2> QED
    BY <1>2, <2>1 DEF Bounds
<1> QED
  BY <1>4, <1>5, <1>6, <1>7

\* A modal opens, changes, closes, or cannot be opened.
ScreenStep ==
    \/ UNCHANGED <<modal, ui>>
    \/ modal = NoModal /\ UNCHANGED modal /\ ui' = Stray(ui)
    \/ CloseModal
    \/ Shows(modal') /\ ui' = Suspend(ui)
    \/ Shows(modal) /\ Shows(modal') /\ ui' = ui

\* A send starts, when there is none.
SendStarts ==
    \/ UNCHANGED sendVars /\ left'.sends = left.sends
    \/ send = NoSend /\ left.sends > 0 /\ BeginSend

\* The pairings change.
PairStep ==
    \/ UNCHANGED diskVars
    \/ \E d : storage!Insert(d, store[d], Faulty("disk"))
    \/ \E d : storage!Remove(d, Faulty("disk"))

\* What all keys but the answers and Ctrl+C have in common.
KeyFrame ==
    /\ UNCHANGED <<world, pending, receive, accepted, ending, serverRx, asking, writes, results,
                   cancels, lost, findVars>>
    /\ left' \in Bounds(world) /\ left'.came = left.came
    /\ server' = server \/ server' = [server EXCEPT !.stop = server.up]
    /\ run = "on" /\ run' \in {"on", "quit"}
    /\ loop' \in [stage : {"idle", "wait"}, mode : Modes]
    /\ chord' \in BOOLEAN /\ web' \in {"off", "share", "receive"}
    /\ SendStarts /\ ScreenStep /\ PairStep

\* Modals have their shape.
LEMMA ModalShapes ==
    /\ \A rows : Shows(ListModal(rows))
    /\ \A target : Shows(PickerModal(target))
    /\ ~Shows(NoModal) /\ NoModal.kind = "none"
    /\ \A m : Shows(m) => m # NoModal /\ m.kind \in {"list", "picker"}
    /\ \A m : Shows(m) /\ m.kind = "list" => \A l : Shows([m EXCEPT !.list = l])
    /\ \A m : Shows(m) /\ m.kind = "picker" => \A p : Shows([m EXCEPT !.picker = p])
<1>1. \A rows : Shows(ListModal(rows))
  BY DEF Shows, ListModal
<1>2. \A target : Shows(PickerModal(target))
  BY DEF Shows, PickerModal
<1>3. NoModal.kind = "none"
  BY DEF NoModal
<1>4. \A m : Shows(m) => m.kind \in {"list", "picker"}
  BY DEF Shows
<1>5. \A m : Shows(m) /\ m.kind = "list" => \A l : Shows([m EXCEPT !.list = l])
  BY DEF Shows
<1>6. \A m : Shows(m) /\ m.kind = "picker" => \A p : Shows([m EXCEPT !.picker = p])
  BY DEF Shows
<1> QED
  BY <1>1, <1>2, <1>3, <1>4, <1>5, <1>6

\* open_picker opens it, or leaves no modal.
LEMMA OpenPickerDoes ==
    ASSUME NEW target, OpenPicker(target)
    PROVE  ScreenStep
<1>1. CASE CloseModal
  BY <1>1 DEF ScreenStep
<1>2. CASE modal' = PickerModal(target) /\ ui' = Suspend(ui)
  BY <1>2, ModalShapes DEF ScreenStep
<1>3. CASE modal = NoModal /\ OpenFails
  BY <1>3 DEF ScreenStep, OpenFails
<1> QED
  BY <1>1, <1>2, <1>3, Zenon DEF OpenPicker

\* open_device_list opens it, or fails.
LEMMA OpenListDoes ==
    ASSUME NEW mem, modal = NoModal, OpenDeviceList(mem)
    PROVE  ScreenStep
<1>1. CASE modal' = ListModal(DeviceRowsOf(mem)) /\ ui' = Suspend(ui)
  BY <1>1, ModalShapes DEF ScreenStep
<1>2. CASE OpenFails
  BY <1>2 DEF ScreenStep, OpenFails
<1> QED
  BY <1>1, <1>2, Zenon DEF OpenDeviceList

\* start_send starts a send, or only a key was pressed.
LEMMA StartSendDoes ==
    ASSUME AppType, NEW d, StartSend(d)
    PROVE  /\ left' \in Bounds(world) /\ left'.came = left.came
           /\ SendStarts
<1>1. CASE send = NoSend /\ left.sends > 0 /\ BeginSend
  <2>1. left' = [left EXCEPT !.sends = @ - 1, !.keys = @ - 1]
    BY <1>1 DEF BeginSend
  <2> QED
    BY <1>1, <2>1, LeftDoes DEF SendStarts
<1>2. CASE left' = [left EXCEPT !.keys = @ - 1] /\ UNCHANGED sendVars
  BY <1>2, LeftDoes DEF SendStarts
<1> QED
  BY <1>1, <1>2, Zenon DEF StartSend

\* A key that was pressed is spent.
LEMMA SpendDoes ==
    ASSUME AppType, NEW key, Spend(key)
    PROVE  /\ left' \in Bounds(world) /\ left'.came = left.came /\ left'.sends = left.sends
BY LeftDoes DEF Spend

\* A restart of the server only sends the stop signal.
LEMMA RestartDoes ==
    ASSUME NEW mode \in Modes, Restart(mode)
    PROVE  /\ loop' \in [stage : {"idle", "wait"}, mode : Modes]
           /\ server' = [server EXCEPT !.stop = server.up]
BY DEF Restart

\* The keys of a chord.
LEMMA ChordDoes ==
    ASSUME AppType, PressChord
    PROVE  KeyFrame
<1>1. PICK key \in {"w", "s", "r"} :
        /\ Spend(key)
        /\ chord' = (key = "w")
        /\ CASE chord /\ key = "s" -> ToggleShare
             [] chord /\ key = "r" -> ToggleReceive
             [] OTHER -> KeepModal /\ UNCHANGED <<web, loop, server>>
  BY DEF PressChord
<1>2. left' \in Bounds(world) /\ left'.came = left.came /\ left'.sends = left.sends
  BY <1>1, SpendDoes
<1>3. chord' \in BOOLEAN
  BY <1>1
<1> DEFINE Kept == KeepModal /\ UNCHANGED <<web, loop, server>>
           Off2 == KeepModal /\ web' = "off" /\ Restart("tls")
           On(m) == KeepModal /\ UNCHANGED web /\ Restart(m)
           Pick == OpenPicker("share") /\ UNCHANGED <<web, loop, server>>
<1>4. Kept \/ Off2 \/ On("receive") \/ On("share") \/ Pick
  <2>1. ToggleShare => Kept \/ Off2 \/ On("share") \/ Pick
    BY Zenon DEF ToggleShare, DisableWeb
  <2>2. ToggleReceive => Kept \/ Off2 \/ On("receive")
    BY Zenon DEF ToggleReceive, DisableWeb
  <2> QED
    BY <1>1, <2>1, <2>2, Zenon
<1>5. /\ server' = server \/ server' = [server EXCEPT !.stop = server.up]
      /\ loop' \in [stage : {"idle", "wait"}, mode : Modes]
      /\ web' \in {"off", "share", "receive"}
  <2>1. UNCHANGED <<web, loop, server>> =>
            loop' \in [stage : {"idle", "wait"}, mode : Modes] /\ web' \in {"off", "share", "receive"}
    BY DEF AppType
  <2>2. UNCHANGED web => web' \in {"off", "share", "receive"}
    BY DEF AppType
  <2>3. {"tls", "receive", "share"} \subseteq Modes
    BY DEF Modes
  <2> QED
    BY <1>4, <2>1, <2>2, <2>3, RestartDoes
<1>6. ScreenStep
  <2>1. KeepModal => ScreenStep
    BY DEF KeepModal, ScreenStep
  <2> QED
    BY <1>4, <2>1, OpenPickerDoes
<1>7. /\ UNCHANGED <<world, pending, receive, accepted, ending, serverRx, asking, writes, results,
                     cancels, lost, findVars>>
      /\ run = "on" /\ run' = run /\ UNCHANGED sendVars /\ UNCHANGED diskVars
  BY DEF PressChord, Ready, KeyOnly, sendVars
<1> QED
  BY <1>2, <1>3, <1>5, <1>6, <1>7 DEF KeyFrame, SendStarts, PairStep

\* The key of the device list.
LEMMA DevicesDoes ==
    ASSUME AppType, PressDevices
    PROVE  KeyFrame
<1>1. left' \in Bounds(world) /\ left'.came = left.came /\ left'.sends = left.sends
  BY SpendDoes DEF PressDevices
<1>2. ScreenStep
  BY OpenListDoes DEF PressDevices
<1>3. /\ UNCHANGED <<world, pending, receive, accepted, ending, serverRx, asking, writes, results,
                     cancels, lost, findVars>>
      /\ run = "on" /\ run' = run /\ UNCHANGED sendVars /\ UNCHANGED diskVars
      /\ UNCHANGED <<server, loop, web>> /\ chord' = FALSE
  BY DEF PressDevices, Ready, KeyOnly, sendVars
<1> QED
  BY <1>1, <1>2, <1>3 DEF KeyFrame, SendStarts, PairStep, AppType

\* A hotkey.
LEMMA HotkeyDoes ==
    ASSUME AppType, PressHotkey
    PROVE  KeyFrame
<1>1. PICK d \in DOMAIN slots :
        \/ StartSend(d) /\ KeepModal
        \/ left' = [left EXCEPT !.keys = @ - 1] /\ OpenPicker(d) /\ UNCHANGED sendVars
  BY Zenon DEF PressHotkey
<1>2. left' \in Bounds(world) /\ left'.came = left.came /\ SendStarts
  <2>1. CASE StartSend(d)
    BY <2>1, StartSendDoes
  <2>2. CASE left' = [left EXCEPT !.keys = @ - 1] /\ UNCHANGED sendVars
    BY <2>2, LeftDoes DEF SendStarts
  <2> QED
    BY <1>1, <2>1, <2>2
<1>3. ScreenStep
  <2>1. KeepModal => ScreenStep
    BY DEF KeepModal, ScreenStep
  <2> QED
    BY <1>1, <2>1, OpenPickerDoes
<1>4. /\ UNCHANGED <<world, pending, receive, accepted, ending, serverRx, asking, writes, results,
                     cancels, lost, findVars>>
      /\ run = "on" /\ run' = run /\ UNCHANGED diskVars
      /\ UNCHANGED <<server, loop, web>> /\ chord' = FALSE
  BY DEF PressHotkey, Ready, netVars
<1> QED
  BY <1>2, <1>3, <1>4 DEF KeyFrame, PairStep, AppType

\* A key in the picker.
LEMMA PickerKeyDoes ==
    ASSUME AppType, modal = NoModal \/ Shows(modal), PressInPicker
    PROVE  KeyFrame
<1> DEFINE Quiet == UNCHANGED <<loop, server, send, task, peer, unaware, sendRx>>
<1>1. PICK key, p :
        \/ modal' = [modal EXCEPT !.picker = p.picker] /\ Spend(key) /\ UNCHANGED ui /\ Quiet
        \/ CloseModal /\ Spend(key) /\ Quiet
        \/ /\ CloseModal /\ Spend(key) /\ EnableShare
           /\ UNCHANGED <<send, task, peer, unaware, sendRx>>
        \/ CloseModal /\ StartSend(p.picker.target) /\ UNCHANGED <<loop, server>>
  <2>1. PICK key \in world.keys \cap {"esc", "up", "down", "end", "left", "right", "back", "space", "enter", "x"},
             readable \in Readable :
        LET p == pick!PickerKey(modal.picker, key, readable)
        IN  /\ left.keys > 0
            /\ CASE p.out = "open" ->
                      /\ modal' = [modal EXCEPT !.picker = p.picker]
                      /\ Spend(key) /\ UNCHANGED <<ui, loop, server, send, task, peer, unaware, sendRx>>
                 [] p.out = "cancelled" ->
                      CloseModal /\ Spend(key) /\ UNCHANGED <<loop, server, send, task, peer, unaware, sendRx>>
                 [] p.out = "picked" /\ p.picker.target = "share" ->
                      /\ CloseModal /\ Spend(key)
                      /\ EnableShare
                      /\ UNCHANGED <<send, task, peer, unaware, sendRx>>
                 [] p.out = "picked" /\ p.picker.target # "share" ->
                      CloseModal /\ StartSend(p.picker.target) /\ UNCHANGED <<loop, server>>
    BY Zenon DEF PressInPicker
  <2> DEFINE q == pick!PickerKey(modal.picker, key, readable)
  <2>2. q.out \in {"open", "cancelled", "picked"}
    BY DEF pick!PickerKey, pick!Stays
  <2> HIDE DEF q
  <2>3. \/ modal' = [modal EXCEPT !.picker = q.picker] /\ Spend(key) /\ UNCHANGED ui /\ Quiet
        \/ CloseModal /\ Spend(key) /\ Quiet
        \/ /\ CloseModal /\ Spend(key) /\ EnableShare
           /\ UNCHANGED <<send, task, peer, unaware, sendRx>>
        \/ CloseModal /\ StartSend(q.picker.target) /\ UNCHANGED <<loop, server>>
    BY <2>1, <2>2 DEF q
  <2> QED
    BY <2>3
<1>2. Shows(modal) /\ modal.kind = "picker" /\ run = "on"
  BY ModalShapes DEF PressInPicker, Ready
<1>3. left' \in Bounds(world) /\ left'.came = left.came /\ SendStarts
  <2>1. CASE Spend(key) /\ UNCHANGED <<send, task, peer, unaware, sendRx>>
    BY <2>1, SpendDoes DEF SendStarts, sendVars
  <2>2. CASE StartSend(p.picker.target)
    BY <2>2, StartSendDoes
  <2> QED
    BY <1>1, <2>1, <2>2
<1>4. ScreenStep
  <2>1. CASE modal' = [modal EXCEPT !.picker = p.picker] /\ UNCHANGED ui
    BY <1>2, <2>1, ModalShapes DEF ScreenStep
  <2>2. CASE CloseModal
    BY <2>2 DEF ScreenStep
  <2> QED
    BY <1>1, <2>1, <2>2
<1>5. /\ server' = server \/ server' = [server EXCEPT !.stop = server.up]
      /\ loop' \in [stage : {"idle", "wait"}, mode : Modes]
  <2>1. CASE UNCHANGED <<loop, server>>
    BY <2>1 DEF AppType
  <2>2. CASE Restart("share")
    BY <2>2, RestartDoes DEF Modes
  <2> QED
    BY <1>1, <2>1, <2>2 DEF EnableShare
<1>6. /\ UNCHANGED <<world, pending, receive, accepted, ending, serverRx, asking, writes, results,
                     cancels, lost, findVars>>
      /\ run' = run /\ UNCHANGED diskVars /\ UNCHANGED <<chord, web>>
  BY DEF PressInPicker
<1> QED
  BY <1>2, <1>3, <1>4, <1>5, <1>6 DEF KeyFrame, PairStep, AppType

\* A key in the device list.
LEMMA ListKeyDoes ==
    ASSUME AppType, modal = NoModal \/ Shows(modal), PressInList
    PROVE  KeyFrame
<1>1. PICK key, k :
        \/ /\ Spend(key) /\ \E l : modal' = [modal EXCEPT !.list = l]
           /\ UNCHANGED <<run, ui, sendVars, diskVars>>
        \/ Spend(key) /\ ListClosed /\ UNCHANGED <<sendVars, diskVars>>
        \/ ListSends(k.dev) /\ UNCHANGED <<run, diskVars>>
        \/ Spend(key) /\ Pair(k.dev)
        \/ Spend(key) /\ Unpair(k.dev)
  BY Zenon DEF PressInList
<1>2. Shows(modal) /\ modal.kind = "list" /\ run = "on"
  BY ModalShapes DEF PressInList, Ready
<1>3. /\ UNCHANGED <<world, pending, receive, accepted, ending, serverRx, asking, writes, results,
                     cancels, lost, findVars>>
      /\ UNCHANGED <<loop, chord, web, server>>
  BY DEF PressInList, netVars
<1>4. ASSUME NEW l, modal' = [modal EXCEPT !.list = l], UNCHANGED ui PROVE ScreenStep
  BY <1>2, <1>4, ModalShapes DEF ScreenStep
<1>5. Spend(key) => left' \in Bounds(world) /\ left'.came = left.came /\ left'.sends = left.sends
  BY SpendDoes
<1> SUFFICES /\ left' \in Bounds(world) /\ left'.came = left.came
             /\ run' \in {"on", "quit"} /\ SendStarts /\ ScreenStep /\ PairStep
  BY <1>2, <1>3 DEF KeyFrame, AppType
<1>6. CASE /\ Spend(key) /\ \E l : modal' = [modal EXCEPT !.list = l]
           /\ UNCHANGED <<run, ui, sendVars, diskVars>>
  BY <1>2, <1>4, <1>5, <1>6 DEF SendStarts, PairStep
<1>7. CASE Spend(key) /\ ListClosed /\ UNCHANGED <<sendVars, diskVars>>
  BY <1>2, <1>5, <1>7 DEF ListClosed, Quit, ScreenStep, SendStarts, PairStep
<1>8. CASE ListSends(k.dev) /\ UNCHANGED <<run, diskVars>>
  <2>1. CASE CloseModal /\ StartSend(k.dev)
    BY <1>2, <1>8, <2>1, StartSendDoes DEF ScreenStep, PairStep
  <2>2. CASE OpenPicker(k.dev) /\ left' = [left EXCEPT !.keys = @ - 1] /\ UNCHANGED sendVars
    <3>1. left' \in Bounds(world) /\ left'.came = left.came /\ left'.sends = left.sends
      BY <2>2, LeftDoes
    <3> QED
      BY <1>2, <1>8, <2>2, <3>1, OpenPickerDoes DEF PairStep, SendStarts
  <2> QED
    BY <1>8, <2>1, <2>2 DEF ListSends
<1>9. CASE Spend(key) /\ Pair(k.dev)
  <2>1. storage!Insert(k.dev, store[k.dev], Faulty("disk")) /\ UNCHANGED <<run, ui, sendVars>>
    BY <1>9 DEF Pair
  <2>2. \E l : modal' = [modal EXCEPT !.list = l]
    BY <1>9, Zenon DEF Pair, WithRows
  <2> QED
    BY <1>2, <1>4, <1>5, <1>9, <2>1, <2>2 DEF SendStarts, PairStep
<1>10. CASE Spend(key) /\ Unpair(k.dev)
  <2>1. storage!Remove(k.dev, Faulty("disk")) /\ UNCHANGED <<run, ui, sendVars>>
    BY <1>10 DEF Unpair
  <2>2. \E l : modal' = [modal EXCEPT !.list = l]
    BY <1>10, Zenon DEF Unpair, WithRows
  <2> QED
    BY <1>2, <1>4, <1>5, <1>10, <2>1, <2>2 DEF SendStarts, PairStep
<1> QED
  BY <1>1, <1>6, <1>7, <1>8, <1>9, <1>10

\* The keys that all keep to the frame.
LEMMA KeysDo ==
    ASSUME AppType, modal = NoModal \/ Shows(modal),
           PressChord \/ PressDevices \/ PressHotkey \/ PressInPicker \/ PressInList
    PROVE  KeyFrame
BY ChordDoes, DevicesDoes, HotkeyDoes, PickerKeyDoes, ListKeyDoes

\* Ctrl+C closes the modal, or declines and cancels whatever there is.
CtrlCModal ==
    /\ Shows(modal) /\ CloseModal
    /\ UNCHANGED <<pending, receive, accepted, server, send, cancels>>
CtrlCAll ==
    /\ modal = NoModal /\ UNCHANGED <<modal, ui, accepted>>
    /\ IF pending # None THEN Decide(pending.id, "decline") ELSE UNCHANGED server
    /\ pending' = None /\ receive' = None
    /\ send' = IF send = NoSend THEN send ELSE [send EXCEPT !.token = TRUE]
    /\ cancels' = cancels \cup ({receive.id} \ {0})

LEMMA CtrlCDoes ==
    ASSUME AppType, modal = NoModal \/ Shows(modal), CtrlC
    PROVE  /\ UNCHANGED <<world, loop, web, ending, serverRx, asking, writes, results, lost,
                          peer, task, sendRx, unaware, findVars, diskVars>>
           /\ left' \in Bounds(world) /\ left'.came = left.came /\ left'.sends = left.sends
           /\ chord' \in BOOLEAN /\ run = "on" /\ run' \in {"on", "quit"}
           /\ CtrlCModal \/ CtrlCAll
<1>1. left' \in Bounds(world) /\ left'.came = left.came /\ left'.sends = left.sends
  BY SpendDoes DEF CtrlC
<1>2. /\ UNCHANGED <<world, loop, web, ending, serverRx, asking, writes, results, lost,
                     peer, task, sendRx, unaware, findVars, diskVars>>
      /\ chord' = FALSE /\ run = "on"
  BY DEF CtrlC, KeyOnly, Ready
<1>3. run' \in {run, "quit"}
  BY DEF CtrlC, Quit
<1>4. CtrlCModal \/ CtrlCAll
  BY ModalShapes DEF CtrlC, CtrlCModal, CtrlCAll
<1> QED
  BY <1>1, <1>2, <1>3, <1>4

\* An answer declines, or accepts all; with P the sender is paired first.
AnswerDecides(key) ==
    IF key = "n" THEN Decide(pending.id, "decline") /\ UNCHANGED <<receive, accepted>>
                 ELSE AcceptAll(pending.id, Shown(pending.id))
LEMMA AnswerDoes ==
    ASSUME AppType, PressAnswer
    PROVE  /\ UNCHANGED <<world, loop, run, web, modal, ui, send, cancels, ending, serverRx, asking,
                          writes, results, lost, peer, task, sendRx, unaware, findVars>>
           /\ left' \in Bounds(world) /\ left'.came = left.came /\ left'.sends = left.sends
           /\ chord' \in BOOLEAN /\ run = "on" /\ modal = NoModal
           /\ pending' = None
           /\ PairStep
           /\ \/ pending = None /\ UNCHANGED <<server, receive, accepted>>
              \/ pending # None /\ AnswerDecides("n")
              \/ pending # None /\ AnswerDecides("y")
<1>1. PICK key \in {"y", "n", "p"} : Spend(key) /\ Answer(key)
  BY DEF PressAnswer
<1>2. left' \in Bounds(world) /\ left'.came = left.came /\ left'.sends = left.sends
  BY <1>1, SpendDoes
<1>3. /\ UNCHANGED <<world, loop, run, web, modal, ui, send, cancels, ending, serverRx, asking,
                     writes, results, lost, peer, task, sendRx, unaware, findVars>>
      /\ chord' = FALSE /\ run = "on" /\ modal = NoModal
  BY DEF PressAnswer, KeyOnly, Ready
<1>4. pending' = None
  BY <1>1 DEF Answer
<1>5. PairStep
  BY <1>1, Zenon DEF Answer, PairStep
<1>6. \/ pending = None /\ UNCHANGED <<server, receive, accepted>>
      \/ pending # None /\ AnswerDecides(key)
  BY <1>1, Zenon DEF Answer, AnswerDecides
<1>7. AnswerDecides("p") <=> AnswerDecides("y")
  BY DEF AnswerDecides
<1> QED
  BY <1>1, <1>2, <1>3, <1>4, <1>5, <1>6, <1>7

\* An event of the server is taken from its queue and handled.
EventFrame ==
    /\ UNCHANGED <<world, left, run, loop, chord, web, modal, ending, cancels, lost,
                   task, peer, sendRx, unaware, store, discoveryRx, slots, missed, diskVars>>
    /\ run = "on" /\ serverRx # <<>> /\ serverRx' = Tail(serverRx)
    /\ serverRx' \in Seq(Events(world)) /\ Head(serverRx) \in Events(world)
    /\ Items(serverRx) = Items(serverRx') \cup {Head(serverRx)}
CancelHandled(e) ==
    /\ e.kind = "cancel"
    /\ HandleCancelReceived(e.n, e.host)
    /\ UNCHANGED <<pending, receive, accepted, ui, adding, server, asking, writes, results>>
LEMMA EventDoes ==
    ASSUME AppType, NetType, HandleServerEvent
    PROVE  /\ EventFrame
           /\ LET e == Head(serverRx)
              IN  \/ CancelHandled(e)
                  \/ e.kind = "prepare" /\ HandlePrepare(e) /\ UNCHANGED send
                  \/ e.kind = "upload" /\ HandleUpload(e.up) /\ UNCHANGED send
                  \/ e.kind = "end" /\ HandleSessionEnd(e.id, e.reason) /\ UNCHANGED send
                  \/ e.kind = "aborted" /\ HandleAborted(e.id) /\ UNCHANGED send
<1> DEFINE e == Head(serverRx)
<1>1. serverRx # <<>> /\ serverRx' = Tail(serverRx) /\ run = "on"
  BY DEF HandleServerEvent, Ready
<1>2. /\ serverRx' \in Seq(Events(world)) /\ Head(serverRx) \in Events(world)
      /\ Items(serverRx) = Items(serverRx') \cup {Head(serverRx)}
  BY <1>1, AnyQueue DEF NetType
<1>3. UNCHANGED <<world, left, run, loop, chord, web, modal, ending, cancels, lost,
                  task, peer, sendRx, unaware, store, discoveryRx, slots, missed, diskVars>>
  BY DEF HandleServerEvent
<1>4. e.kind \in {"prepare", "aborted", "upload", "end", "cancel"}
  BY <1>2, EventFacts DEF AppType
<1>5. IF e.kind = "cancel"
      THEN CancelHandled(e)
      ELSE /\ CASE e.kind = "prepare" -> HandlePrepare(e)
                [] e.kind = "upload" -> HandleUpload(e.up)
                [] e.kind = "end" -> HandleSessionEnd(e.id, e.reason)
                [] e.kind = "aborted" -> HandleAborted(e.id)
           /\ UNCHANGED send
  BY Zenon DEF HandleServerEvent, CancelHandled
<1> HIDE DEF e
<1>6. \/ CancelHandled(e)
      \/ e.kind = "prepare" /\ HandlePrepare(e) /\ UNCHANGED send
      \/ e.kind = "upload" /\ HandleUpload(e.up) /\ UNCHANGED send
      \/ e.kind = "end" /\ HandleSessionEnd(e.id, e.reason) /\ UNCHANGED send
      \/ e.kind = "aborted" /\ HandleAborted(e.id) /\ UNCHANGED send
  BY <1>4, <1>5
<1> QED
  BY <1>1, <1>2, <1>3, <1>6 DEF EventFrame, e

\* A request is answered at once, or the user is asked.
Asks(d, i) == pending' = [id |-> i, as |-> d] /\ ui' = Prompt(ui, i)
LEMMA PrepareDoes ==
    ASSUME AppType, NEW e, e \in Events(world), e.kind = "prepare", HandlePrepare(e)
    PROVE  /\ e.id \in Ids(world)
           /\ adding' = adding \cup {Request(e.id).claims} /\ Request(e.id).claims \in Devices
           /\ UNCHANGED <<asking, writes, results>>
           /\ \/ Decide(e.id, "empty") /\ UNCHANGED <<pending, receive, accepted, ui>>
              \/ /\ \E how \in {"paired", "claimed"} : AcceptAll(e.id, how)
                 /\ UNCHANGED <<pending, ui>>
              \/ /\ \E d \in Devices : Asks(d, e.id)
                 /\ UNCHANGED <<server, receive, accepted>>
<1> DEFINE d == Sender(e)
           how == IF e.cert THEN "paired" ELSE "claimed"
<1>1. e.id \in Ids(world)
  BY EventFacts DEF AppType
<1>2. d \in Devices /\ Request(e.id).claims \in Devices
  BY <1>1, RequestFacts DEF AppType, Sender
<1>3. adding' = adding \cup {Request(e.id).claims} /\ UNCHANGED <<asking, writes, results>>
  BY DEF HandlePrepare
<1>4. /\ CASE Request(e.id).message ->
               Decide(e.id, "empty") /\ UNCHANGED <<pending, receive, accepted, ui>>
          [] ~Request(e.id).message /\ storage!Paired(d) ->
               AcceptAll(e.id, how) /\ UNCHANGED <<pending, ui>>
          [] OTHER ->
               /\ pending' = [id |-> e.id, as |-> d] /\ ui' = Prompt(ui, e.id)
               /\ UNCHANGED <<server, receive, accepted>>
  BY Zenon DEF HandlePrepare
<1>5. how \in {"paired", "claimed"}
  OBVIOUS
<1> HIDE DEF d, how
<1>6. \/ Decide(e.id, "empty") /\ UNCHANGED <<pending, receive, accepted, ui>>
      \/ AcceptAll(e.id, how) /\ UNCHANGED <<pending, ui>>
      \/ Asks(d, e.id) /\ UNCHANGED <<server, receive, accepted>>
  BY <1>4, Zenon DEF Asks
<1> QED
  BY <1>1, <1>2, <1>3, <1>5, <1>6

\* A file is written, its result is known at once, or it is refused.
LEMMA UploadDoes ==
    ASSUME AppType, NetType, NEW up \in Uploads(world), HandleUpload(up)
    PROVE  /\ UNCHANGED <<pending, accepted, ui, adding, asking>>
           /\ server' \in Servers(world) /\ server'.up = server.up
           /\ server.slot = None => server' = server
           /\ server.slot # None =>
                /\ server'.slot \in SessionSlots(world)
                /\ server'.slot.id = server.slot.id /\ server'.slot.phase = server.slot.phase
                /\ server'.slot.decision = server.slot.decision
           /\ writes \subseteq writes' /\ results \subseteq results'
           /\ writes' \subseteq Uploads(world) /\ results' \subseteq Reports(world)
           /\ \/ /\ receive # None /\ receive.id = up.id
                 /\ receive' = [receive EXCEPT !.busy = @ \cup {up.f}]
                 /\ up \in writes' \/ [up |-> up, ok |-> FALSE] \in results'
              \/ receive' = receive
<1>1. UNCHANGED <<pending, accepted, ui, adding, asking>>
  BY DEF HandleUpload
<1>2. up.id \in Ids(world) /\ up.id # 0
  BY RequestFacts DEF Uploads, AppType
<1>3. [up |-> up, ok |-> FALSE] \in Reports(world)
  BY DEF Reports
<1>4. CASE /\ receive.id = up.id /\ receive' = [receive EXCEPT !.busy = @ \cup {up.f}]
           /\ \/ writes' = writes \cup {up} /\ UNCHANGED results
              \/ results' = results \cup {[up |-> up, ok |-> FALSE]} /\ UNCHANGED writes
           /\ UNCHANGED server
  <2>1. receive # None
    BY <1>2, <1>4 DEF None
  <2> QED
    BY <1>1, <1>3, <1>4, <2>1, ServerFacts DEF NetType, AppType
<1>5. CASE UNCHANGED <<server, receive, writes, results>>
  BY <1>1, <1>5, ServerFacts DEF NetType, AppType
<1>6. CASE /\ server.slot.id = up.id
           /\ server' = [server EXCEPT !.slot.files[up.f] = "refused"]
           /\ UNCHANGED <<receive, writes, results>>
  <2>1. server.slot \in SessionSlots(world) /\ server.slot # None
    BY <1>2, <1>6, ServerFacts DEF NetType, AppType
  <2> DEFINE s == [server.slot EXCEPT !.files[up.f] = "refused"]
  <2>2. server' = [server EXCEPT !.slot = s]
    BY <1>6
  <2>3. s \in SessionSlots(world)
    BY <2>1, SlotUpdates DEF Statuses, Unfinished, AppType
  <2>4. s.id = server.slot.id /\ s.phase = server.slot.phase /\ s.decision = server.slot.decision
    <3>1. server.slot \in SlotOfId(world, server.slot.id)
      BY <2>1, SlotFacts DEF AppType
    <3> QED
      BY <3>1 DEF SlotOfId
  <2> HIDE DEF s
  <2>5. server' \in Servers(world) /\ server'.up = server.up /\ server'.slot = s
    BY <2>2, <2>3, ServerFacts DEF NetType, AppType
  <2> QED
    BY <1>1, <1>6, <2>1, <2>3, <2>4, <2>5 DEF NetType
<1> QED
  BY <1>4, <1>5, <1>6, Zenon DEF HandleUpload

\* A result is counted, if it is of the session; the last one may end it.
LEMMA SummariseDoes ==
    ASSUME NEW r, NEW w, r \in ReceiveSessions(w)
    PROVE  /\ Summarise(r) = None \/ Summarise(r) = r
           /\ (Summarise(r) = None) <=> (r.ended # "no" /\ r.busy = {})
<1>1. r # None
  <2>1. "ended" \in DOMAIN r /\ "ended" \notin DOMAIN None
    BY DEF ReceiveSessions, None
  <2> QED
    BY <2>1
<1> QED
  BY <1>1 DEF Summarise

LEMMA ResultDoes ==
    ASSUME AppType, NetType, ReceiveFileResult
    PROVE  /\ UNCHANGED <<world, left, run, loop, ui, chord, web, modal, pending, accepted,
                          server, ending, serverRx, asking, writes, cancels, lost, sendVars, findVars, diskVars>>
           /\ run = "on"
           /\ \E r \in results :
                /\ results' = results \ {r}
                /\ \/ receive' = receive /\ receive.id # r.up.id
                   \/ /\ receive # None /\ receive.id = r.up.id
                      /\ \E s \in ReceiveSessions(world) :
                            /\ s.id = receive.id /\ s.busy = receive.busy \ {r.up.f}
                            /\ s.ended = receive.ended
                            /\ receive' = Summarise(s)
<1>1. PICK r \in results :
        /\ results' = results \ {r}
        /\ receive' = IF receive.id # r.up.id THEN receive
                      ELSE Summarise([receive EXCEPT !.busy = @ \ {r.up.f},
                                          !.finished = @ + (IF r.ok THEN 1 ELSE 0),
                                          !.failed = @ + (IF r.ok THEN 0 ELSE 1)])
  BY DEF ReceiveFileResult
<1>2. CASE receive.id = r.up.id
  <2>1. r.up.id \in Ids(world) /\ r.up.id # 0
    BY RequestFacts DEF NetType, AppType, Reports, Uploads
  <2>2. receive # None /\ receive \in ReceiveSessions(world)
    BY <1>2, <2>1 DEF None, AppType
  <2> DEFINE s == [receive EXCEPT !.busy = @ \ {r.up.f},
                       !.finished = @ + (IF r.ok THEN 1 ELSE 0),
                       !.failed = @ + (IF r.ok THEN 0 ELSE 1)]
  <2>3. /\ receive.finished + (IF r.ok THEN 1 ELSE 0) \in Nat
        /\ receive.failed + (IF r.ok THEN 0 ELSE 1) \in Nat
    BY <2>2 DEF ReceiveSessions
  <2>4. /\ s \in ReceiveSessions(world)
        /\ s.id = receive.id /\ s.busy = receive.busy \ {r.up.f} /\ s.ended = receive.ended
    BY <2>2, <2>3 DEF ReceiveSessions
  <2>5. receive' = Summarise(s)
    BY <1>1, <1>2
  <2> HIDE DEF s
  <2> QED
    BY <1>1, <1>2, <2>2, <2>4, <2>5 DEF ReceiveFileResult, Ready
<1>3. CASE receive.id # r.up.id
  BY <1>1, <1>3 DEF ReceiveFileResult, Ready
<1> QED
  BY <1>2, <1>3

\* The steps of the server leave the program alone.
LEMMA ServerFrame ==
    ASSUME ServerStep
    PROVE  /\ UNCHANGED <<world, run, loop, ui, appVars, sendVars, findVars, diskVars>>
           /\ run = "on"
           /\ left' = left \/ Arrive
BY DEF ServerStep, Arrive, ReadDecision, SenderAborts, SenderCancels, SendEnding, StartUpload,
       AskTarget, DropUpload, FinishWrite, FailUpload, CancelSession, ServerStops, ServerOnly, Running

LEMMA ArriveDoes ==
    ASSUME AppType, NetType, Arrive
    PROVE  /\ left' \in Bounds(world) /\ left'.sends = left.sends /\ left'.came = left.came + 1
           /\ server' \in Servers(world) /\ server'.up = server.up /\ server.up
           /\ server.slot = None /\ server'.slot \in SessionSlots(world)
           /\ server'.slot.id = left.came + 1 /\ server'.slot.phase = "waiting"
           /\ server'.slot.decision = "none"
           /\ \E e \in Events(world) : e.kind = "prepare" /\ serverRx' = Append(serverRx, e)
           /\ serverRx' \in Seq(Events(world))
           /\ UNCHANGED <<ending, asking, writes, results, cancels, lost>>
<1> DEFINE id == left.came + 1
           new == [id |-> id, phase |-> "waiting", decision |-> "none",
                   files |-> [f \in Files(id) |-> "todo"], tries |-> [f \in Files(id) |-> 0]]
           e == [kind |-> "prepare", id |-> id, cert |-> server.mode = "tls"]
<1>1. /\ left.came < Len(world.requests) /\ left' = [left EXCEPT !.came = id]
      /\ server' = [server EXCEPT !.slot = new] /\ server.slot = None /\ server.up
      /\ serverRx' = Append(serverRx, e)
      /\ UNCHANGED <<ending, asking, writes, results, cancels, lost>>
  BY DEF Arrive, Running
<1>2. left' \in Bounds(world) /\ left'.sends = left.sends /\ left'.came = left.came + 1
  BY <1>1, LeftDoes
<1>3. id \in Ids(world)
  BY <1>1, LeftDoes, WorldFacts DEF AppType, Ids
<1>4. new \in SlotOfId(world, id)
  <2>1. Files(id) = FilesOf(world, id) /\ 0 \in 0..Attempts
    BY <1>3, RequestFacts, WorldFacts DEF AppType
  <2> QED
    BY <2>1 DEF SlotOfId, Statuses, Unfinished, Decisions
<1>5. new \in SessionSlots(world)
  BY <1>3, <1>4 DEF SessionSlots
<1>6. new.id = id /\ new.phase = "waiting" /\ new.decision = "none"
  OBVIOUS
<1> HIDE DEF new
<1>7. server' \in Servers(world) /\ server'.up = server.up /\ server'.slot = new
  BY <1>1, <1>5, ServerFacts DEF AppType, NetType
<1>8. e \in Events(world) /\ e.kind = "prepare"
  BY <1>3, EventFacts DEF AppType
<1> HIDE DEF e
<1> QED
  BY <1>1, <1>2, <1>5, <1>6, <1>7, <1>8, AnyQueue DEF NetType

LEMMA ReadDecisionDoes ==
    ASSUME AppType, NetType, ReadDecision
    PROVE  /\ server' \in Servers(world) /\ server'.up = server.up
           /\ server.slot \in SessionSlots(world)
           /\ server.slot.phase = "waiting" /\ server.slot.decision # "none"
           /\ \/ server.slot.decision # "accept" /\ server'.slot = None
              \/ /\ server.slot.decision = "accept"
                 /\ server'.slot \in SessionSlots(world) /\ server'.slot.id = server.slot.id
                 /\ server'.slot.phase = "active" /\ server'.slot.decision = "accept"
           /\ UNCHANGED <<left, ending, serverRx, asking, writes, results, cancels, lost>>
<1>1. /\ server.slot # None /\ server.slot.phase = "waiting" /\ server.slot.decision # "none"
      /\ UNCHANGED <<left, ending, serverRx, asking, writes, results, cancels, lost>>
      /\ \/ server.slot.decision # "accept" /\ server' = [server EXCEPT !.slot = None]
         \/ server.slot.decision = "accept" /\ server' = [server EXCEPT !.slot.phase = "active"]
  BY DEF ReadDecision
<1>2. server.slot \in SessionSlots(world)
  BY <1>1, ServerFacts DEF AppType, NetType
<1>3. CASE server.slot.decision # "accept" /\ server' = [server EXCEPT !.slot = None]
  BY <1>1, <1>2, <1>3, ServerFacts DEF AppType, NetType
<1>4. CASE server.slot.decision = "accept" /\ server' = [server EXCEPT !.slot.phase = "active"]
  <2> DEFINE s == [server.slot EXCEPT !.phase = "active"]
  <2>1. server' = [server EXCEPT !.slot = s]
    BY <1>4
  <2>2. s \in SessionSlots(world)
    BY <1>2, SlotUpdates DEF AppType
  <2>3. s.id = server.slot.id /\ s.phase = "active" /\ s.decision = "accept"
    <3>1. server.slot \in SlotOfId(world, server.slot.id)
      BY <1>2, SlotFacts DEF AppType
    <3> QED
      BY <1>4, <3>1 DEF SlotOfId
  <2> HIDE DEF s
  <2>4. server' \in Servers(world) /\ server'.up = server.up /\ server'.slot = s
    BY <2>1, <2>2, ServerFacts DEF AppType, NetType
  <2> QED
    BY <1>1, <1>2, <1>4, <2>2, <2>3, <2>4
<1> QED
  BY <1>1, <1>3, <1>4

\* The sender leaves: its request is aborted, or its session cancelled, and
\* an event is owed.
LEMMA SenderLeaves ==
    ASSUME AppType, NetType, SenderAborts \/ SenderCancels
    PROVE  /\ server' \in Servers(world) /\ server'.up = server.up
           /\ server.slot \in SessionSlots(world) /\ server'.slot = None
           /\ ending' \subseteq Endings(world) /\ ending \subseteq ending'
           /\ UNCHANGED <<left, serverRx, asking, writes, results, cancels>>
           /\ \/ /\ server.slot.phase = "waiting"
                 /\ lost' = lost \cup (IF server.slot.decision = "accept" THEN {server.slot.id} ELSE {})
              \/ /\ \E x \in ending' : x.event = Ended(server.slot.id, "cancelled")
                 /\ lost' = lost
<1> DEFINE x == Owes("task", Aborted(server.slot.id))
           y == Owes("request", Ended(server.slot.id, "cancelled"))
<1>1. /\ server.slot # None /\ server' = [server EXCEPT !.slot = None]
      /\ UNCHANGED <<left, serverRx, asking, writes, results, cancels>>
      /\ \/ /\ server.slot.phase = "waiting" /\ ending' = ending \cup {x}
            /\ lost' = lost \cup (IF server.slot.decision = "accept" THEN {server.slot.id} ELSE {})
         \/ ending' = ending \cup {y} /\ lost' = lost
  BY DEF SenderAborts, SenderCancels
<1>2. server.slot \in SessionSlots(world)
  BY <1>1, ServerFacts DEF AppType, NetType
<1>3. server' \in Servers(world) /\ server'.up = server.up /\ server'.slot = None
  BY <1>1, ServerFacts DEF AppType, NetType
<1>4. /\ x \in Endings(world) /\ y \in Endings(world)
      /\ y.event = Ended(server.slot.id, "cancelled")
  BY <1>2, SlotFacts, EventFacts DEF Owes, Endings, AppType
<1> HIDE DEF x, y
<1>5. ending' \subseteq Endings(world) /\ ending \subseteq ending'
  BY <1>1, <1>4 DEF NetType
<1> QED
  BY <1>1, <1>2, <1>3, <1>4, <1>5

\* An event that is owed is sent, or its request is dropped.
LEMMA SendEndingDoes ==
    ASSUME AppType, NetType, SendEnding
    PROVE  /\ UNCHANGED <<left, server, asking, writes, results, cancels>>
           /\ serverRx' \in Seq(Events(world)) /\ lost \subseteq lost'
           /\ \E x \in ending :
                /\ x.event \in Events(world) /\ x.event.kind # "cancel"
                /\ ending' = ending \ {x}
                /\ \/ serverRx' = Append(serverRx, x.event)
                   \/ serverRx' = serverRx /\ x.event.id \in lost'
<1>1. PICK x \in ending :
        /\ ending' = ending \ {x}
        /\ \/ serverRx' = Append(serverRx, x.event) /\ UNCHANGED lost
           \/ lost' = lost \cup {x.event.id} /\ UNCHANGED serverRx
  BY DEF SendEnding
<1>2. x.event \in Events(world) /\ x.event.kind # "cancel"
  BY EventFacts DEF AppType, NetType
<1>3. UNCHANGED <<left, server, asking, writes, results, cancels>>
  BY DEF SendEnding
<1>4. serverRx' \in Seq(Events(world)) /\ lost \subseteq lost'
  BY <1>1, <1>2, AnyQueue DEF NetType
<1> QED
  BY <1>1, <1>2, <1>3, <1>4

LEMMA StartUploadDoes ==
    ASSUME AppType, NetType, StartUpload
    PROVE  /\ server' \in Servers(world) /\ SameSession
           /\ asking' \subseteq Uploads(world)
           /\ UNCHANGED <<left, ending, serverRx, writes, results, cancels, lost>>
<1>1. server.slot # None /\ server.slot \in SessionSlots(world)
  BY ServerFacts DEF AppType, NetType, StartUpload
<1>2. PICK f \in DOMAIN server.slot.files :
        /\ server.slot.tries[f] < Attempts
        /\ server' = [server EXCEPT !.slot.files[f] = "busy", !.slot.tries[f] = @ + 1]
        /\ asking' = asking \cup {[id |-> server.slot.id, f |-> f, try |-> server.slot.tries[f] + 1]}
  BY DEF StartUpload
<1>3. /\ server.slot \in SlotOfId(world, server.slot.id) /\ server.slot.id \in Ids(world)
      /\ server.slot.files \in [FilesOf(world, server.slot.id) -> Statuses]
      /\ server.slot.tries \in [FilesOf(world, server.slot.id) -> 0..Attempts]
  BY <1>1, SlotFacts DEF AppType
<1>4. f \in FilesOf(world, server.slot.id) /\ f \in Nat /\ server.slot.tries[f] + 1 \in Nat
  BY <1>2, <1>3, RequestFacts, WorldFacts DEF AppType
<1>5. asking' \subseteq Uploads(world)
  BY <1>2, <1>3, <1>4 DEF Uploads, NetType
<1> DEFINE s == [server.slot EXCEPT !.files[f] = "busy", !.tries[f] = @ + 1]
<1>6. server' = [server EXCEPT !.slot = s]
  BY <1>2 DEF Servers, NetType
<1>7. s \in SessionSlots(world)
  BY <1>1, <1>2, <1>4, SlotUpdates DEF AppType, Statuses, Unfinished
<1>8. s.id = server.slot.id /\ s.phase = server.slot.phase /\ s.decision = server.slot.decision
  BY <1>3 DEF SlotOfId
<1> HIDE DEF s
<1>9. server' \in Servers(world) /\ server'.up = server.up /\ server'.slot = s
  BY <1>6, <1>7, ServerFacts DEF AppType, NetType
<1> QED
  BY <1>1, <1>5, <1>7, <1>8, <1>9 DEF SameSession, StartUpload

LEMMA AskTargetDoes ==
    ASSUME AppType, NetType, AskTarget
    PROVE  /\ asking' \subseteq Uploads(world) /\ serverRx' \in Seq(Events(world))
           /\ \E e \in Events(world) : e.kind = "upload" /\ serverRx' = Append(serverRx, e)
           /\ UNCHANGED <<left, server, ending, writes, results, cancels, lost>>
<1>1. PICK up \in asking :
        /\ asking' = asking \ {up}
        /\ serverRx' = Append(serverRx, [kind |-> "upload", up |-> up])
  BY DEF AskTarget
<1>2. [kind |-> "upload", up |-> up] \in Events(world)
  BY EventFacts DEF AppType, NetType
<1>3. UNCHANGED <<left, server, ending, writes, results, cancels, lost>>
  BY DEF AskTarget
<1> QED
  BY <1>1, <1>2, <1>3, AnyQueue DEF NetType

LEMMA FinishWriteDoes ==
    ASSUME AppType, NetType, FinishWrite
    PROVE  /\ FileFinal
           /\ \E up \in writes : \E ok \in BOOLEAN :
                /\ writes' = writes \ {up}
                /\ results' = results \cup {[up |-> up, ok |-> ok]}
           /\ results' \subseteq Reports(world) /\ writes' \subseteq Uploads(world)
           /\ UNCHANGED <<left, serverRx, asking, cancels, lost>>
<1>1. PICK up \in writes, outcome \in {"ok", "failed", "mismatch"}, by \in {"request", "task"} :
        /\ writes' = writes \ {up}
        /\ results' = results \cup {[up |-> up, ok |-> outcome = "ok"]}
        /\ IF server.slot.id = up.id
           THEN Finish(up.f, IF outcome = "mismatch" /\ up.try < Attempts THEN "todo" ELSE outcome, by)
           ELSE UNCHANGED <<server, ending>>
  BY DEF FinishWrite
<1>2. UNCHANGED <<left, serverRx, asking, cancels, lost>>
  BY DEF FinishWrite
<1>3. up \in Uploads(world) /\ up.id \in Ids(world) /\ up.id # 0
  BY RequestFacts DEF AppType, NetType, Uploads
<1>4. [up |-> up, ok |-> outcome = "ok"] \in Reports(world)
  BY <1>3 DEF Reports
<1>5. results' \subseteq Reports(world) /\ writes' \subseteq Uploads(world)
  BY <1>1, <1>4 DEF NetType
<1>6. FileFinal
  <2>1. CASE server.slot.id = up.id
    <3> DEFINE status == IF outcome = "mismatch" /\ up.try < Attempts THEN "todo" ELSE outcome
    <3>1. status \in Statuses /\ Finish(up.f, status, by)
      BY <1>1, <2>1 DEF Statuses, Unfinished
    <3>2. server.slot # None
      BY <1>3, <2>1, ServerFacts DEF AppType, NetType
    <3> HIDE DEF status
    <3> QED
      BY <3>1, <3>2, FinishDoes DEF AppType, NetType
  <2>2. CASE UNCHANGED <<server, ending>>
    BY <2>2, ServerFacts DEF AppType, NetType, FileFinal, SameSession
  <2> QED
    BY <1>1, <2>1, <2>2
<1> QED
  BY <1>1, <1>2, <1>5, <1>6

LEMMA FailUploadDoes ==
    ASSUME AppType, NetType, FailUpload
    PROVE  FileFinal /\ UNCHANGED <<left, serverRx, asking, writes, results, cancels, lost>>
<1>1. /\ server.slot # None /\ \E f : \E by \in {"request", "task"} : Finish(f, "failed", by)
      /\ UNCHANGED <<left, serverRx, asking, writes, results, cancels, lost>>
  BY DEF FailUpload
<1>2. "failed" \in Statuses
  BY DEF Statuses
<1> QED
  BY <1>1, <1>2, FinishDoes DEF AppType, NetType

LEMMA DropUploadDoes ==
    ASSUME AppType, NetType, DropUpload
    PROVE  /\ FileFinal /\ asking' \subseteq Uploads(world)
           /\ UNCHANGED <<left, serverRx, writes, results, cancels, lost>>
<1>1. /\ server.slot # None
      /\ \E up : asking' = asking \ {up} /\ Finalise(up.f, "failed", "task")
      /\ UNCHANGED <<left, serverRx, writes, results, cancels, lost>>
  BY DEF DropUpload
<1>2. "failed" \in Statuses
  BY DEF Statuses
<1>3. asking' \subseteq Uploads(world)
  BY <1>1 DEF NetType
<1> QED
  BY <1>1, <1>2, <1>3, FinaliseDoes DEF AppType, NetType

LEMMA CancelSessionDoes ==
    ASSUME AppType, NetType, CancelSession
    PROVE  /\ server' \in Servers(world) /\ server'.up = server.up
           /\ \E id \in cancels :
                /\ cancels' = cancels \ {id}
                /\ \/ server.slot.id = id /\ server'.slot = None
                   \/ server' = server
           /\ lost \subseteq lost'
           /\ UNCHANGED <<left, ending, serverRx, asking, writes, results>>
<1>1. PICK id \in cancels :
        /\ cancels' = cancels \ {id}
        /\ \/ server.slot.id = id /\ server' = [server EXCEPT !.slot = None]
           \/ server' = server
        /\ lost \subseteq lost'
  BY DEF CancelSession
<1>2. /\ server' \in Servers(world) /\ server'.up = server.up
      /\ \/ server.slot.id = id /\ server'.slot = None
         \/ server' = server
  <2>1. CASE server.slot.id = id /\ server' = [server EXCEPT !.slot = None]
    BY <2>1, ServerFacts DEF AppType, NetType
  <2>2. CASE server' = server
    BY <2>2 DEF NetType
  <2> QED
    BY <1>1, <2>1, <2>2
<1>3. UNCHANGED <<left, ending, serverRx, asking, writes, results>>
  BY DEF CancelSession
<1> QED
  BY <1>1, <1>2, <1>3

LEMMA ServerStopsDoes ==
    ASSUME AppType, NetType, ServerStops
    PROVE  /\ server' \in Servers(world) /\ ~server'.up /\ server'.slot = None
           /\ ending' \subseteq Endings(world) /\ lost \subseteq lost'
           /\ \A x \in ending : x \in ending' \/ x.event.id \in lost'
           /\ server.slot # None =>
                \/ server.slot.id \in lost'
                \/ \E x \in ending' : x.event = Ended(server.slot.id, "finished")
           /\ asking' = {} /\ writes' = {}
           /\ results' = results \cup {[up |-> up, ok |-> FALSE] : up \in writes}
           /\ results' \subseteq Reports(world)
           /\ UNCHANGED <<left, serverRx, cancels>>
<1> DEFINE s == server.slot
           active == s # None /\ s.phase = "active"
           done == active /\ \A f \in DOMAIN s.files : s.files[f] \notin {"todo", "stuck"}
           dropped == {e \in ending : e.by = "request"}
           x == Owes("task", Aborted(s.id))
           y == Owes("task", Ended(s.id, "finished"))
<1>1. /\ ending' = (ending \ dropped) \cup
              (IF s # None /\ ~active THEN {x} ELSE IF done THEN {y} ELSE {})
      /\ lost' = lost \cup {e.event.id : e \in dropped} \cup (IF s # None /\ ~done THEN {s.id} ELSE {})
      /\ server' = [server EXCEPT !.up = FALSE, !.stop = FALSE, !.slot = None]
      /\ asking' = {} /\ writes' = {}
      /\ results' = results \cup {[up |-> up, ok |-> FALSE] : up \in writes}
      /\ UNCHANGED <<left, serverRx, cancels>>
  BY DEF ServerStops
<1>2. server' \in Servers(world) /\ ~server'.up /\ server'.slot = None
  BY <1>1 DEF NetType, Servers
<1>3. results' \subseteq Reports(world)
  <2>1. \A up \in writes : [up |-> up, ok |-> FALSE] \in Reports(world)
    BY DEF NetType, Reports
  <2>2. results \subseteq Reports(world)
    BY DEF NetType
  <2> QED
    BY <1>1, <2>1, <2>2, Zenon
<1>4. done => s # None /\ active
  OBVIOUS
<1>5. s # None => x \in Endings(world) /\ y \in Endings(world)
  BY ServerFacts, SlotFacts, EventFacts DEF AppType, NetType, Owes, Endings
<1>6. y.event = Ended(s.id, "finished")
  BY DEF Owes
<1>7. ending \subseteq Endings(world) /\ dropped \subseteq ending
  BY DEF NetType
<1> HIDE DEF active, done, x, y, dropped
<1>8. ending' \subseteq Endings(world)
  BY <1>1, <1>4, <1>5, <1>7
<1>9. \A e \in ending : e \in ending' \/ e.event.id \in lost'
  BY <1>1
<1>10. s # None => \/ s.id \in lost'
                   \/ \E e \in ending' : e.event = Ended(s.id, "finished")
  BY <1>1, <1>4, <1>6
<1> QED
  BY <1>1, <1>2, <1>3, <1>8, <1>9, <1>10

-----------------------------------------------------------------------------
(* Steps that do not touch the sessions which are received.                *)

\* The ends of sessions that the program has not handled.
Ends == {x.event : x \in ending} \cup Items(serverRx)
EndsKept == \A e \in Ends : e.kind = "end" => e \in Ends' \/ e.id \in lost'

\* A session that has not ended is in the slot, or its end is on its way.
LEMMA Tracked ==
    ReceiveTracked <=>
        (receive # None /\ receive.id \notin lost =>
            IF receive.ended = "no"
            THEN \/ server.slot.id = receive.id
                 \/ \E e \in Ends : e.kind = "end" /\ e.id = receive.id
            ELSE \E u \in writes \cup {r.up : r \in results} : u.id = receive.id /\ u.f \in receive.busy)
BY DEF ReceiveTracked, Ends, Items

\* The end of a session stays, or the session is lost.
LEMMA EndKept ==
    ASSUME EndsKept, NEW id, id \notin lost', \E e \in Ends : e.kind = "end" /\ e.id = id
    PROVE  \E e \in Ends' : e.kind = "end" /\ e.id = id
BY DEF EndsKept

\* Steps with no part in them.
Quiet ==
    /\ UNCHANGED <<world, receive, accepted, ending, asking, writes, results, cancels, lost>>
    /\ left' \in Bounds(world) /\ left'.came = left.came
    /\ server' \in Servers(world) /\ server'.slot = server.slot /\ (server.up => server'.up)
    /\ run' \in {"off", "on", "quit"} /\ (run' = "off" => run = "off" /\ server' = server)
    /\ serverRx' \in Seq(Events(world)) /\ EndsKept
    /\ loop' \in [stage : {"idle", "wait"}, mode : Modes]
    /\ chord' \in BOOLEAN /\ web' \in {"off", "share", "receive"}
    /\ pending' = None \/ pending' \in [id : Ids(world), as : Devices]

\* What a stop signal leaves.
LEMMA StopSignal ==
    ASSUME AppType, NetType, server' = server \/ server' = [server EXCEPT !.stop = server.up]
    PROVE  server' \in Servers(world) /\ server'.slot = server.slot /\ server'.up = server.up
BY DEF NetType, Servers

LEMMA QuietKeys ==
    ASSUME AppType, NetType, KeyFrame
    PROVE  Quiet
<1>1. server' \in Servers(world) /\ server'.slot = server.slot /\ server'.up = server.up
  BY StopSignal DEF KeyFrame
<1> QED
  BY <1>1 DEF KeyFrame, Quiet, AppType, NetType, EndsKept, Ends

LEMMA QuietSends ==
    ASSUME AppType, NetType, SendType, SendStep
    PROVE  Quiet
<1>1. UNCHANGED <<world, left, run, loop, ui, appVars, server, ending, asking, writes, results,
                  cancels, lost, findVars, diskVars>>
  BY DEF SendStep, PrepareEnds, Announce, UploadFiles, Notify, EndSend, PeerAnswers, PeerCancels, SendOnly
<1>2. \/ serverRx' = serverRx
      \/ \E host \in BOOLEAN : serverRx' = Append(serverRx, [kind |-> "cancel", n |-> send.n, host |-> host])
  BY Zenon DEF SendStep, PrepareEnds, Announce, UploadFiles, Notify, EndSend, PeerAnswers, PeerCancels
<1>3. \A host \in BOOLEAN : [kind |-> "cancel", n |-> send.n, host |-> host] \in Events(world)
  <2>1. send.n \in Int
    BY DEF SendType
  <2> QED
    BY <2>1, EventFacts DEF AppType
<1>4. serverRx' \in Seq(Events(world)) /\ Items(serverRx) \subseteq Items(serverRx')
  <2>1. serverRx \in Seq(Events(world))
    BY DEF NetType
  <2>2. ASSUME NEW e \in Events(world), serverRx' = Append(serverRx, e)
        PROVE  serverRx' \in Seq(Events(world)) /\ Items(serverRx) \subseteq Items(serverRx')
    BY <2>1, <2>2, AnyQueue
  <2>3. CASE serverRx' = serverRx
    BY <2>1, <2>3
  <2> QED
    BY <1>2, <1>3, <2>2, <2>3, Zenon
<1> QED
  BY <1>1, <1>4 DEF Quiet, AppType, NetType, appVars, EndsKept, Ends

\* The other parts of the loop, discovery, and a program that does not start.
LEMMA QuietOthers ==
    ASSUME AppType, NetType, SlotInv,
           \/ Tick \/ HandleSendEvent \/ HandleDiscovery \/ StartServer \/ Discover \/ AddDevice
           \/ StartFails
    PROVE  Quiet
<1>1. CASE Tick \/ HandleSendEvent \/ HandleDiscovery \/ AddDevice
  <2>1. /\ UNCHANGED <<world, left, loop, chord, web, pending, receive, accepted, netVars>>
        /\ run' = run \/ run' = "quit"
    BY <1>1 DEF Tick, HandleSendEvent, HandleDiscovery, AddDevice, FindOnly, appVars, Quit
  <2> QED
    BY <2>1 DEF netVars, Quiet, AppType, NetType, EndsKept, Ends
<1>2. CASE Discover \/ StartFails
  <2>1. /\ UNCHANGED <<world, run, loop, chord, web, pending, receive, accepted, netVars>>
        /\ \/ left' = [left EXCEPT !.seen = @ - 1]
           \/ left' = [left EXCEPT !.lives = @ - 1]
    BY <1>2 DEF Discover, StartFails, FindOnly, appVars
  <2>2. left' \in Bounds(world) /\ left'.came = left.came
    BY <2>1, LeftDoes
  <2> QED
    BY <2>1, <2>2 DEF netVars, Quiet, AppType, NetType, EndsKept, Ends
<1>3. CASE StartServer
  <2>1. /\ run = "on" /\ UNCHANGED <<world, left, run, ui, chord, modal, pending, receive, accepted, ending,
                                     serverRx, asking, writes, results, cancels, lost>>
        /\ \/ /\ ~server.up /\ server' = [Off EXCEPT !.up = TRUE, !.mode = loop.mode]
              /\ web' = WebOf(loop.mode) /\ loop' = Idle
           \/ loop' = AfterFailure(loop.mode) /\ UNCHANGED <<server, web>>
    BY <1>3 DEF StartServer
  <2>2. loop.mode \in Modes
    BY DEF AppType
  <2>3. /\ WebOf(loop.mode) \in {"off", "share", "receive"}
        /\ Idle \in [stage : {"idle", "wait"}, mode : Modes]
        /\ AfterFailure(loop.mode) \in [stage : {"idle", "wait"}, mode : Modes]
    BY <2>2 DEF WebOf, AfterFailure, Idle, Modes
  <2>4. ASSUME ~server.up, server' = [Off EXCEPT !.up = TRUE, !.mode = loop.mode]
        PROVE  server' \in Servers(world) /\ server'.up /\ server'.slot = server.slot
    BY <2>2, <2>4 DEF Off, Servers, SlotInv
  <2>5. /\ server' \in Servers(world) /\ (server.up => server'.up) /\ server'.slot = server.slot
        /\ loop' \in [stage : {"idle", "wait"}, mode : Modes] /\ web' \in {"off", "share", "receive"}
    BY <2>1, <2>3, <2>4 DEF AppType, NetType
  <2> QED
    BY <2>1, <2>5 DEF Quiet, AppType, NetType, EndsKept, Ends
<1> QED
  BY <1>1, <1>2, <1>3

\* Events that concern no session of the program.
LEMMA QuietEvents ==
    ASSUME AppType, NetType, EventFrame, Head(serverRx).kind # "end",
           UNCHANGED <<receive, accepted, server, asking, writes, results>>,
           pending' = None \/ pending' \in [id : Ids(world), as : Devices]
    PROVE  Quiet
BY DEF EventFrame, Quiet, AppType, NetType, EndsKept, Ends

\* They keep what is known of the sessions.
LEMMA QuietKeeps ==
    ASSUME AppType, NetType, SessionInv, Quiet
    PROVE  AppType' /\ NetType' /\ SessionInv'
<1>1. AppType' /\ NetType'
  BY DEF Quiet, AppType, NetType
<1>2. SlotInv'
  BY DEF Quiet, SessionInv, SlotInv, WasAccepted
<1>3. AcceptInv'
  BY DEF Quiet, SessionInv, AcceptInv, WasAccepted
<1>4. BusyInv'
  BY DEF Quiet, SessionInv, BusyInv
<1>5. ReceiveTracked'
  BY EndKept, Tracked DEF Quiet, SessionInv, ReceiveTracked, Ends, Items
<1> QED
  BY <1>1, <1>2, <1>3, <1>4, <1>5 DEF SessionInv

-----------------------------------------------------------------------------
(* Decisions.                                                              *)

\* What a decision has no part in.
Beside ==
    /\ UNCHANGED <<world, ending, asking, writes, results, lost>>
    /\ left' \in Bounds(world) /\ left'.came = left.came
    /\ run' \in {"on", "quit"}
    /\ serverRx' \in Seq(Events(world)) /\ EndsKept
    /\ loop' \in [stage : {"idle", "wait"}, mode : Modes]
    /\ chord' \in BOOLEAN /\ web' \in {"off", "share", "receive"}
    /\ pending' = None \/ pending' \in [id : Ids(world), as : Devices]

\* A receive session is kept, or cancelled.
ReceiveKept == receive' = receive /\ cancels' = cancels
ReceiveDropped == receive' = None /\ cancels' = cancels \cup ({receive.id} \ {0})

\* The ids of sessions are not 0.
LEMMA ReceiveFacts ==
    ASSUME AppType
    PROVE  /\ receive = None <=> receive.id = 0
           /\ receive # None => /\ receive \in ReceiveSessions(world) /\ receive.id \in Ids(world)
                                /\ receive.busy \in SUBSET Nat
           /\ None.id = 0
           /\ pending = None <=> pending.id = 0
<1>1. \A i \in Ids(world) : i # 0
  BY RequestFacts DEF AppType
<1>2. None.id = 0
  BY DEF None
<1>3. receive \in ReceiveSessions(world) => receive.id \in Ids(world) /\ receive.busy \in SUBSET Nat
  BY DEF ReceiveSessions
<1>4. pending.id = 0 => pending = None
  BY <1>1 DEF AppType
<1> QED
  BY <1>1, <1>2, <1>3, <1>4 DEF AppType

\* A refusal, or no decision at all.
LEMMA DecisionKeeps ==
    ASSUME AppType, NetType, SessionInv, Beside, accepted' = accepted,
           ReceiveKept \/ ReceiveDropped,
           \/ server' = server
           \/ \E id \in Ids(world) : Decide(id, "empty") \/ Decide(id, "decline")
    PROVE  AppType' /\ NetType' /\ SessionInv'
<1>1. /\ server' \in Servers(world) /\ server'.up = server.up
      /\ \/ server' = server
         \/ /\ server.slot # None /\ server'.slot # None
            /\ server.slot.phase = "waiting" /\ server.slot.decision = "none"
            /\ server'.slot.id = server.slot.id /\ server'.slot.phase = "waiting"
            /\ server'.slot.decision \in {"empty", "decline"}
  <2>1. CASE server' = server
    BY <2>1 DEF NetType
  <2>2. ASSUME NEW id \in Ids(world), NEW d \in {"empty", "decline"}, Decide(id, d)
        PROVE  /\ server' \in Servers(world) /\ server'.up = server.up
               /\ \/ server' = server
                  \/ /\ server.slot # None /\ server'.slot # None
                     /\ server.slot.phase = "waiting" /\ server.slot.decision = "none"
                     /\ server'.slot.id = server.slot.id /\ server'.slot.phase = "waiting"
                     /\ server'.slot.decision \in {"empty", "decline"}
    <3>1. d \in Decisions
      BY DEF Decisions
    <3> QED
      BY <2>2, <3>1, DecideDoes, SlotFacts DEF AppType, NetType
  <2> QED
    BY <2>1, <2>2
<1>2. (receive' = receive /\ cancels' = cancels)
      \/ (receive' = None /\ cancels' = cancels \cup ({receive.id} \ {0}))
  BY DEF ReceiveKept, ReceiveDropped
<1>3. cancels' \subseteq Ids(world)
  BY <1>2, ReceiveFacts DEF NetType
<1>4. AppType' /\ NetType'
  BY <1>1, <1>2, <1>3 DEF Beside, AppType, NetType
<1>5. SlotInv'
  <2>1. receive'.id = receive.id \/ receive'.id = 0
    BY <1>2, ReceiveFacts
  <2>2. server.slot # None => server.slot.id # 0
    BY ServerFacts DEF AppType, NetType
  <2>3. run' # "off" /\ left'.came = left.came
    BY DEF Beside
  <2> QED
    BY <1>1, <2>1, <2>2, <2>3 DEF SessionInv, SlotInv, WasAccepted
<1>6. AcceptInv'
  <2>1. \A id \in cancels' : id # 0 /\ (id \in cancels \/ id = receive.id)
    BY <1>2, <1>3, WorldFacts DEF AppType
  <2>2. \A id \in cancels' : WasAccepted(id) /\ receive'.id # id
    BY <1>2, <2>1, ReceiveFacts DEF SessionInv, AcceptInv
  <2> QED
    BY <1>2, <2>2 DEF Beside, SessionInv, AcceptInv, WasAccepted
<1>7. BusyInv'
  BY <1>2 DEF Beside, SessionInv, BusyInv
<1>8. ReceiveTracked'
  <2> SUFFICES ASSUME receive' = receive, receive # None, receive.id \notin lost
               PROVE  IF receive.ended = "no"
                      THEN \/ server'.slot.id = receive.id
                           \/ \E e \in Ends' : e.kind = "end" /\ e.id = receive.id
                      ELSE \E u \in writes \cup {r.up : r \in results} : u.id = receive.id /\ u.f \in receive.busy
    BY <1>2 DEF Beside, ReceiveTracked, Ends, Items
  <2>1. server'.slot.id = server.slot.id
    BY <1>1
  <2> QED
    BY <2>1, EndKept, Tracked DEF SessionInv, Beside
<1> QED
  BY <1>4, <1>5, <1>6, <1>7, <1>8 DEF SessionInv

\* An acceptance by the user, or for a sender that is taken for paired.
LEMMA AcceptKeeps ==
    ASSUME AppType, NetType, SessionInv, Beside, cancels' = cancels,
           NEW id \in Ids(world), NEW how \in Consents, AcceptAll(id, how)
    PROVE  AppType' /\ NetType' /\ SessionInv'
<1>1. how \in Hows
  BY DEF Hows
<1>2. CASE ~Waits(id)
  <2>1. server' = server /\ receive' = receive /\ accepted' = accepted
    BY <1>1, <1>2, AcceptAllDoes DEF AppType, NetType
  <2> QED
    BY <2>1, DecisionKeeps DEF ReceiveKept
<1>3. CASE Waits(id)
  <2>1. /\ server' \in Servers(world) /\ server'.up = server.up
        /\ receive' = NewSession(id) /\ receive' \in ReceiveSessions(world)
        /\ accepted' = accepted \cup {[id |-> id, how |-> how]}
        /\ server.slot \in SessionSlots(world) /\ server.slot.id = id
        /\ server.slot.phase = "waiting" /\ server.slot.decision = "none"
        /\ server'.slot \in SessionSlots(world)
        /\ server'.slot.id = id /\ server'.slot.phase = "waiting"
        /\ server'.slot.decision = "accept"
    BY <1>1, <1>3, AcceptAllDoes DEF AppType, NetType
  <2>2. /\ receive'.id = id /\ receive'.busy = {} /\ receive'.ended = "no"
        /\ server.slot # None
    BY <2>1, SlotFacts DEF NewSession, AppType
  <2>3. accepted' \subseteq [id : Ids(world), how : Hows]
    BY <1>1, <2>1 DEF AppType
  <2>4. AppType' /\ NetType'
    BY <2>1, <2>3 DEF Beside, AppType, NetType
  <2>5. WasAccepted(id)' /\ \A i : WasAccepted(i) => WasAccepted(i)'
    <3>1. [id |-> id, how |-> how] \in accepted' /\ accepted \subseteq accepted'
      BY <2>1
    <3>2. WasAccepted(id)'
      BY <3>1 DEF WasAccepted
    <3>3. \A i : WasAccepted(i) => WasAccepted(i)'
      BY <3>1, Zenon DEF WasAccepted
    <3> QED
      BY <3>2, <3>3
  <2>6. SlotInv'
    BY <2>1, <2>2, <2>5 DEF Beside, SessionInv, SlotInv
  <2>7. AcceptInv'
    <3>1. ~WasAccepted(id) /\ id <= left.came
      BY <2>1, <2>2 DEF SessionInv, SlotInv
    <3>2. id \notin cancels
      BY <3>1 DEF SessionInv, AcceptInv
    <3>3. \A y \in accepted' : y.how \in Consents /\ y.id <= left.came
      BY <2>1, <3>1 DEF SessionInv, AcceptInv
    <3> QED
      BY <2>2, <2>5, <3>2, <3>3 DEF Beside, SessionInv, AcceptInv
  <2>8. BusyInv' /\ ReceiveTracked'
    BY <2>1, <2>2 DEF BusyInv, ReceiveTracked
  <2> QED
    BY <2>4, <2>6, <2>7, <2>8 DEF SessionInv
<1> QED
  BY <1>2, <1>3

-----------------------------------------------------------------------------
(* Files, and the ends of sessions.                                        *)

\* What is in flight.
InFlight == writes \cup {r.up : r \in results}

LEMMA InFlightGrows ==
    ASSUME writes \subseteq writes', results \subseteq results'
    PROVE  InFlight \subseteq InFlight'
BY DEF InFlight

LEMMA UploadKeeps ==
    ASSUME AppType, NetType, SessionInv, EventFrame, Head(serverRx).kind = "upload",
           HandleUpload(Head(serverRx).up)
    PROVE  AppType' /\ NetType' /\ SessionInv'
<1> DEFINE up == Head(serverRx).up
<1>1. up \in Uploads(world) /\ up.id \in Ids(world) /\ up.f \in Nat
  BY EventFacts DEF EventFrame, AppType, Uploads
<1> HIDE DEF up
<1>2. /\ UNCHANGED <<pending, accepted, ui, adding, asking>>
      /\ server' \in Servers(world) /\ server'.up = server.up
      /\ server.slot = None => server' = server
      /\ server.slot # None =>
           /\ server'.slot \in SessionSlots(world)
           /\ server'.slot.id = server.slot.id /\ server'.slot.phase = server.slot.phase
           /\ server'.slot.decision = server.slot.decision
      /\ writes \subseteq writes' /\ results \subseteq results'
      /\ writes' \subseteq Uploads(world) /\ results' \subseteq Reports(world)
      /\ \/ /\ receive # None /\ receive.id = up.id
            /\ receive' = [receive EXCEPT !.busy = @ \cup {up.f}]
            /\ up \in writes' \/ [up |-> up, ok |-> FALSE] \in results'
         \/ receive' = receive
  BY <1>1, UploadDoes DEF up
<1>3. /\ UNCHANGED <<world, left, run, loop, chord, web, cancels, lost>>
      /\ serverRx' \in Seq(Events(world)) /\ EndsKept /\ ending' = ending
  BY DEF EventFrame, EndsKept, Ends
<1>4. /\ receive = None => receive' = None
      /\ receive # None => /\ receive' \in ReceiveSessions(world)
                           /\ receive'.id = receive.id /\ receive'.ended = receive.ended
                           /\ receive.busy \subseteq receive'.busy
                           /\ \A f \in receive'.busy : f \in receive.busy \/ (f = up.f /\ receive.id = up.id /\ up \in InFlight')
  <2>1. CASE receive' = receive
    BY <2>1, ReceiveFacts
  <2>2. CASE /\ receive # None /\ receive.id = up.id
             /\ receive' = [receive EXCEPT !.busy = @ \cup {up.f}]
             /\ up \in writes' \/ [up |-> up, ok |-> FALSE] \in results'
    <3>1. up \in InFlight'
      BY <2>2 DEF InFlight
    <3>2. receive \in ReceiveSessions(world)
      BY <2>2, ReceiveFacts
    <3> QED
      BY <1>1, <2>2, <3>1, <3>2 DEF ReceiveSessions
  <2> QED
    BY <1>2, <2>1, <2>2
<1>5. AppType' /\ NetType'
  BY <1>2, <1>3, <1>4 DEF AppType, NetType
<1>6. receive'.id = receive.id /\ (receive' # None <=> receive # None)
  <2>1. receive # None => receive.id # 0
    BY ReceiveFacts
  <2> QED
    BY <1>4, <2>1, ReceiveFacts
<1>7. SlotInv'
  <2>1. server.slot # None <=> server'.slot # None
    BY <1>2, SlotFacts DEF AppType
  <2> QED
    BY <1>2, <1>3, <1>6, <2>1 DEF SessionInv, SlotInv, WasAccepted
<1>8. AcceptInv'
  BY <1>2, <1>3, <1>6 DEF SessionInv, AcceptInv, WasAccepted
<1>9. InFlight \subseteq InFlight'
  BY <1>2, InFlightGrows
<1>10. BusyInv'
  <2> SUFFICES ASSUME receive' # None
               PROVE  /\ \A f \in receive'.busy : \E u \in InFlight' : u.id = receive.id /\ u.f = f
                      /\ receive'.ended # "no" => receive'.busy # {}
    BY <1>6 DEF BusyInv, InFlight
  <2>1. ASSUME NEW f \in receive'.busy PROVE \E u \in InFlight' : u.id = receive.id /\ u.f = f
    <3>1. CASE f \in receive.busy
      <4>1. \E u \in InFlight : u.id = receive.id /\ u.f = f
        BY <1>6, <3>1 DEF SessionInv, BusyInv, InFlight
      <4> QED
        BY <1>9, <4>1
    <3>2. CASE f = up.f /\ receive.id = up.id /\ up \in InFlight'
      BY <3>2
    <3> QED
      BY <1>4, <1>6, <2>1, <3>1, <3>2
  <2>2. receive'.ended # "no" => receive'.busy # {}
    BY <1>4, <1>6 DEF SessionInv, BusyInv
  <2> QED
    BY <2>1, <2>2
<1>11. ReceiveTracked'
  <2> SUFFICES ASSUME receive # None, receive.id \notin lost
               PROVE  IF receive.ended = "no"
                      THEN \/ server'.slot.id = receive.id
                           \/ \E e \in Ends' : e.kind = "end" /\ e.id = receive.id
                      ELSE \E u \in InFlight' : u.id = receive.id /\ u.f \in receive'.busy
    BY <1>3, <1>4, <1>6 DEF ReceiveTracked, InFlight, Ends, Items
  <2>1. server'.slot.id = server.slot.id
    BY <1>2
  <2>2. CASE receive.ended = "no"
    BY <1>3, <2>1, <2>2, EndKept, Tracked DEF SessionInv
  <2>3. CASE receive.ended # "no"
    <3>1. PICK u \in InFlight : u.id = receive.id /\ u.f \in receive.busy
      BY <2>3 DEF SessionInv, ReceiveTracked, InFlight
    <3> QED
      BY <1>4, <1>9, <2>3, <3>1
  <2> QED
    BY <2>2, <2>3
<1> QED
  BY <1>5, <1>7, <1>8, <1>10, <1>11 DEF SessionInv

LEMMA EndKeeps ==
    ASSUME AppType, NetType, SessionInv, EventFrame, Head(serverRx).kind = "end",
           HandleSessionEnd(Head(serverRx).id, Head(serverRx).reason)
    PROVE  AppType' /\ NetType' /\ SessionInv'
<1> DEFINE e == Head(serverRx)
           s == [receive EXCEPT !.ended = e.reason]
<1>1. e.kind = "end" /\ e.id \in Ids(world) /\ e.id # 0 /\ e.reason \in {"finished", "cancelled"}
  BY EventFacts, RequestFacts DEF EventFrame, AppType
<1>2. /\ UNCHANGED <<pending, accepted, ui, adding, server, asking, writes, results>>
      /\ receive' = IF receive.id = e.id THEN Summarise(s) ELSE receive
  BY DEF HandleSessionEnd
<1>3. /\ UNCHANGED <<world, left, run, loop, chord, web, ending, cancels, lost>>
      /\ serverRx' \in Seq(Events(world)) /\ Items(serverRx) = Items(serverRx') \cup {e}
  BY DEF EventFrame
<1>4. CASE receive.id # e.id
  <2>1. receive' = receive
    BY <1>2, <1>4
  <2>2. AppType' /\ NetType'
    BY <1>2, <1>3, <2>1 DEF AppType, NetType
  <2>3. SlotInv' /\ AcceptInv' /\ BusyInv'
    BY <1>2, <1>3, <2>1 DEF SessionInv, SlotInv, AcceptInv, BusyInv, WasAccepted
  <2>4. ReceiveTracked'
    <3> SUFFICES ASSUME receive # None, receive.id \notin lost, receive.ended = "no",
                        server.slot.id # receive.id
                 PROVE  \E x \in Ends' : x.kind = "end" /\ x.id = receive.id
      BY <1>2, <1>3, <2>1 DEF SessionInv, ReceiveTracked, Ends, Items
    <3>1. PICK x \in Ends : x.kind = "end" /\ x.id = receive.id
      BY Tracked DEF SessionInv
    <3>2. x \in Ends'
      BY <1>3, <1>4, <3>1 DEF Ends
    <3> QED
      BY <3>1, <3>2
  <2> QED
    BY <2>2, <2>3, <2>4 DEF SessionInv
<1>5. CASE receive.id = e.id
  <2>1. receive # None /\ receive \in ReceiveSessions(world)
    BY <1>1, <1>5, ReceiveFacts
  <2>2. /\ s \in ReceiveSessions(world) /\ s.id = receive.id /\ s.busy = receive.busy /\ s.ended # "no"
    BY <1>1, <2>1 DEF ReceiveSessions
  <2> HIDE DEF s, e
  <2>3. receive' = Summarise(s)
    BY <1>2, <1>5
  <2>4. \/ receive' = None
        \/ receive' = s /\ s.busy # {}
    BY <2>2, <2>3, SummariseDoes
  <2>5. AppType' /\ NetType'
    BY <1>2, <1>3, <2>2, <2>4 DEF AppType, NetType
  <2>6. receive'.id = 0 \/ receive'.id = receive.id
    BY <2>2, <2>4, ReceiveFacts
  <2>7. SlotInv'
    <3>1. server.slot # None => server.slot.id # 0
      BY ServerFacts DEF AppType, NetType
    <3> QED
      BY <1>2, <1>3, <2>6, <3>1 DEF SessionInv, SlotInv, WasAccepted
  <2>8. AcceptInv'
    <3>1. \A id \in cancels : id # 0
      BY WorldFacts DEF AppType, NetType
    <3> QED
      BY <1>2, <1>3, <2>1, <2>2, <2>4, <2>6, <3>1 DEF SessionInv, AcceptInv, WasAccepted
  <2>9. ASSUME NEW f \in receive.busy PROVE \E u \in InFlight : u.id = receive.id /\ u.f = f
    BY <2>1, <2>9 DEF SessionInv, BusyInv, InFlight
  <2>10. BusyInv' /\ ReceiveTracked'
    <3>1. InFlight' = InFlight
      BY <1>2 DEF InFlight
    <3>2. CASE receive' = None
      BY <3>2 DEF BusyInv, ReceiveTracked
    <3>3. CASE receive' = s /\ s.busy # {}
      <4>1. \A f \in s.busy : \E u \in InFlight' : u.id = s.id /\ u.f = f
        BY <2>2, <2>9, <3>1
      <4>2. \E u \in InFlight' : u.id = s.id /\ u.f \in s.busy
        BY <3>3, <4>1
      <4> QED
        BY <2>2, <3>3, <4>1, <4>2 DEF BusyInv, ReceiveTracked, InFlight
    <3> QED
      BY <2>4, <3>2, <3>3
  <2> QED
    BY <2>5, <2>7, <2>8, <2>10 DEF SessionInv
<1> QED
  BY <1>4, <1>5

LEMMA ResultKeeps ==
    ASSUME AppType, NetType, SessionInv, ReceiveFileResult
    PROVE  AppType' /\ NetType' /\ SessionInv'
<1>1. UNCHANGED <<world, left, run, loop, ui, chord, web, modal, pending, accepted,
                  server, ending, serverRx, asking, writes, cancels, lost>>
  BY ResultDoes
<1>2. PICK r \in results :
        /\ results' = results \ {r}
        /\ \/ receive' = receive /\ receive.id # r.up.id
           \/ /\ receive # None /\ receive.id = r.up.id
              /\ \E s \in ReceiveSessions(world) :
                    /\ s.id = receive.id /\ s.busy = receive.busy \ {r.up.f}
                    /\ s.ended = receive.ended
                    /\ receive' = Summarise(s)
  BY ResultDoes
<1>3. \A u \in InFlight : u # r.up => u \in InFlight'
  BY <1>1, <1>2 DEF InFlight
<1>4. results' \subseteq Reports(world)
  BY <1>2 DEF NetType
<1>5. CASE receive' = receive /\ receive.id # r.up.id
  <2>1. AppType' /\ NetType'
    BY <1>1, <1>4, <1>5 DEF AppType, NetType
  <2>2. SlotInv' /\ AcceptInv'
    BY <1>1, <1>5 DEF SessionInv, SlotInv, AcceptInv, WasAccepted
  <2>3. \A u \in InFlight : u.id = receive.id => u \in InFlight'
    BY <1>3, <1>5
  <2>4. receive # None => /\ \A f \in receive.busy : \E u \in InFlight : u.id = receive.id /\ u.f = f
                          /\ receive.ended # "no" => receive.busy # {}
    BY DEF SessionInv, BusyInv, InFlight
  <2>5. BusyInv'
    <3>1. receive # None => \A f \in receive.busy : \E u \in InFlight' : u.id = receive.id /\ u.f = f
      BY <2>3, <2>4
    <3> QED
      BY <1>5, <2>4, <3>1 DEF BusyInv, InFlight
  <2>6. ReceiveTracked'
    <3>1. receive # None /\ receive.id \notin lost =>
            IF receive.ended = "no"
            THEN \/ server.slot.id = receive.id
                 \/ \E e \in Ends : e.kind = "end" /\ e.id = receive.id
            ELSE \E u \in InFlight : u.id = receive.id /\ u.f \in receive.busy
      BY Tracked DEF SessionInv, InFlight
    <3>2. receive # None /\ receive.id \notin lost =>
            IF receive.ended = "no"
            THEN \/ server.slot.id = receive.id
                 \/ \E e \in Ends : e.kind = "end" /\ e.id = receive.id
            ELSE \E u \in InFlight' : u.id = receive.id /\ u.f \in receive.busy
      BY <2>3, <3>1
    <3> QED
      BY <1>1, <1>5, <3>2 DEF ReceiveTracked, InFlight, Ends, Items
  <2> QED
    BY <2>1, <2>2, <2>5, <2>6 DEF SessionInv
<1>6. ASSUME receive # None, receive.id = r.up.id,
             NEW s \in ReceiveSessions(world), s.id = receive.id, s.busy = receive.busy \ {r.up.f},
             s.ended = receive.ended, receive' = Summarise(s)
      PROVE  AppType' /\ NetType' /\ SessionInv'
  <2>1. \/ receive' = None
        \/ receive' = s /\ (s.ended # "no" => s.busy # {})
    BY <1>6, SummariseDoes
  <2>2. AppType' /\ NetType'
    BY <1>1, <1>4, <1>6, <2>1 DEF AppType, NetType
  <2>3. receive'.id = 0 \/ receive'.id = receive.id
    BY <1>6, <2>1, ReceiveFacts
  <2>4. SlotInv'
    <3>1. server.slot # None => server.slot.id # 0
      BY ServerFacts DEF AppType, NetType
    <3> QED
      BY <1>1, <2>3, <3>1 DEF SessionInv, SlotInv, WasAccepted
  <2>5. AcceptInv'
    <3>1. \A id \in cancels : id # 0
      BY WorldFacts DEF AppType, NetType
    <3> QED
      BY <1>1, <1>6, <2>1, <2>3, <3>1 DEF SessionInv, AcceptInv, WasAccepted
  <2>6. \A f \in s.busy : \E u \in InFlight' : u.id = s.id /\ u.f = f
    <3> SUFFICES ASSUME NEW f \in s.busy PROVE \E u \in InFlight' : u.id = s.id /\ u.f = f
      OBVIOUS
    <3>1. f \in receive.busy /\ f # r.up.f
      BY <1>6
    <3>2. PICK u \in InFlight : u.id = receive.id /\ u.f = f
      BY <1>6, <3>1 DEF SessionInv, BusyInv, InFlight
    <3>3. u \in InFlight'
      BY <1>3, <3>1, <3>2
    <3> QED
      BY <1>6, <3>2, <3>3
  <2>7. BusyInv'
    BY <2>1, <2>6 DEF BusyInv, InFlight
  <2>8. ReceiveTracked'
    <3>1. CASE receive' = None
      BY <3>1 DEF ReceiveTracked
    <3>2. CASE receive' = s /\ s.ended = "no"
      BY <1>1, <1>6, <3>2 DEF SessionInv, ReceiveTracked
    <3>3. CASE receive' = s /\ s.ended # "no" /\ s.busy # {}
      <4>1. \E u \in InFlight' : u.id = s.id /\ u.f \in s.busy
        BY <2>6, <3>3
      <4> QED
        BY <3>3, <4>1 DEF ReceiveTracked, InFlight
    <3> QED
      BY <2>1, <3>1, <3>2, <3>3
  <2> QED
    BY <2>2, <2>4, <2>5, <2>7, <2>8 DEF SessionInv
<1> QED
  BY <1>2, <1>5, <1>6

-----------------------------------------------------------------------------
(* Steps of the server.                                                    *)

\* What a step of the server leaves: its own state is typed, the program has
\* its sessions, and what was in flight is.
ServerMoves ==
    /\ UNCHANGED <<world, run, loop, chord, web, pending, receive, accepted>>
    /\ run = "on"
    /\ left' \in Bounds(world) /\ left.came <= left'.came
    /\ server' \in Servers(world) /\ serverRx' \in Seq(Events(world))
    /\ ending' \subseteq Endings(world) /\ EndsKept
    /\ asking' \subseteq Uploads(world) /\ writes' \subseteq Uploads(world)
    /\ results' \subseteq Reports(world) /\ InFlight \subseteq InFlight'
    /\ cancels' \subseteq cancels /\ lost \subseteq lost'

\* The slot is kept, or its session ended in a way the program will learn of.
SlotMoves ==
    \/ SameSession
    \/ /\ server'.slot = None
       /\ receive # None /\ receive.id = server.slot.id /\ receive.ended = "no" =>
            \/ receive.id \in lost'
            \/ \E e \in Ends' : e.kind = "end" /\ e.id = receive.id

LEMMA ServerKeeps ==
    ASSUME AppType, NetType, SessionInv, ServerMoves, SlotMoves
    PROVE  AppType' /\ NetType' /\ SessionInv'
<1>1. AppType' /\ NetType'
  BY DEF ServerMoves, AppType, NetType
<1>2. left.came \in Nat /\ left'.came \in Nat
  BY LeftDoes, WorldFacts DEF AppType, ServerMoves, Bounds
<1>3. SlotInv'
  <2>1. CASE SameSession
    <3>1. server'.slot # None <=> server.slot # None
      BY <2>1, SlotFacts DEF SameSession, AppType
    <3>2. server.slot # None => server.slot.id \in Nat
      BY ServerFacts, SlotFacts DEF AppType, NetType
    <3> QED
      BY <1>2, <2>1, <3>1, <3>2 DEF SameSession, ServerMoves, SessionInv, SlotInv, WasAccepted
  <2>2. CASE server'.slot = None
    BY <2>2 DEF SlotInv, ServerMoves
  <2> QED
    BY <2>1, <2>2 DEF SlotMoves
<1>4. AcceptInv'
  <2>1. \A y \in accepted : y.id \in Nat
    BY WorldFacts DEF AppType
  <2> QED
    BY <1>2, <2>1 DEF ServerMoves, SessionInv, AcceptInv, WasAccepted
<1>5. BusyInv'
  <2>1. receive # None => \A f \in receive.busy : \E u \in InFlight : u.id = receive.id /\ u.f = f
    BY DEF SessionInv, BusyInv, InFlight
  <2>2. receive # None => \A f \in receive.busy : \E u \in InFlight' : u.id = receive.id /\ u.f = f
    BY <2>1 DEF ServerMoves
  <2> QED
    BY <2>2 DEF ServerMoves, SessionInv, BusyInv, InFlight
<1>6. ReceiveTracked'
  <2> SUFFICES ASSUME receive # None, receive.id \notin lost'
               PROVE  IF receive.ended = "no"
                      THEN \/ server'.slot.id = receive.id
                           \/ \E e \in Ends' : e.kind = "end" /\ e.id = receive.id
                      ELSE \E u \in InFlight' : u.id = receive.id /\ u.f \in receive.busy
    BY DEF ServerMoves, ReceiveTracked, InFlight, Ends, Items
  <2>1. receive.id \notin lost
    BY DEF ServerMoves
  <2>2. CASE receive.ended # "no"
    <3>1. PICK u \in InFlight : u.id = receive.id /\ u.f \in receive.busy
      BY <2>1, <2>2 DEF SessionInv, ReceiveTracked, InFlight
    <3> QED
      BY <2>2, <3>1 DEF ServerMoves
  <2>3. CASE receive.ended = "no" /\ server.slot.id # receive.id
    <3>1. \E e \in Ends : e.kind = "end" /\ e.id = receive.id
      BY <2>1, <2>3, Tracked DEF SessionInv
    <3> QED
      BY <2>3, <3>1, EndKept DEF ServerMoves
  <2>4. CASE receive.ended = "no" /\ server.slot.id = receive.id
    <3>1. CASE SameSession
      BY <2>4, <3>1 DEF SameSession
    <3>2. CASE \E e \in Ends' : e.kind = "end" /\ e.id = receive.id
      BY <2>4, <3>2
    <3> QED
      BY <2>4, <3>1, <3>2 DEF SlotMoves
  <2> QED
    BY <2>2, <2>3, <2>4
<1> QED
  BY <1>1, <1>3, <1>4, <1>5, <1>6 DEF SessionInv

\* An event that is added.
LEMMA EventAdded ==
    ASSUME NetType, NEW e \in Events(world), serverRx' = Append(serverRx, e)
    PROVE  Items(serverRx') = Items(serverRx) \cup {e}
BY AnyQueue DEF NetType

LEMMA ArriveKeeps ==
    ASSUME AppType, NetType, SessionInv, Arrive
    PROVE  AppType' /\ NetType' /\ SessionInv'
<1>1. /\ UNCHANGED <<world, run, loop, chord, web, pending, receive, accepted>>
      /\ run = "on"
  BY ServerFrame DEF ServerStep, appVars
<1>2. /\ left' \in Bounds(world) /\ left'.came = left.came + 1
      /\ server' \in Servers(world) /\ server'.up /\ server.up
      /\ server.slot = None /\ server'.slot \in SessionSlots(world)
      /\ server'.slot.id = left.came + 1 /\ server'.slot.phase = "waiting"
      /\ server'.slot.decision = "none"
      /\ \E e \in Events(world) : serverRx' = Append(serverRx, e)
      /\ serverRx' \in Seq(Events(world))
      /\ UNCHANGED <<ending, asking, writes, results, cancels, lost>>
  BY ArriveDoes
<1>3. AppType' /\ NetType'
  BY <1>1, <1>2 DEF AppType, NetType
<1>4. left.came \in Nat /\ \A y \in accepted : y.id \in Nat /\ y.id <= left.came
  BY LeftDoes, WorldFacts DEF AppType, SessionInv, AcceptInv
<1>5. ~WasAccepted(left.came + 1)
  BY <1>4 DEF WasAccepted
<1>6. SlotInv'
  <2>1. receive.id # left.came + 1
    BY <1>4, <1>5, ReceiveFacts DEF SessionInv, AcceptInv
  <2>2. left.came + 1 <= left'.came
    BY <1>2, <1>4
  <2> QED
    BY <1>1, <1>2, <1>5, <2>1, <2>2 DEF SlotInv, WasAccepted
<1>7. AcceptInv' /\ BusyInv'
  BY <1>1, <1>2, <1>4 DEF SessionInv, AcceptInv, BusyInv, WasAccepted
<1>8. ReceiveTracked'
  <2>1. Items(serverRx) \subseteq Items(serverRx')
    BY <1>2, EventAdded
  <2>2. EndsKept
    BY <1>2, <2>1 DEF EndsKept, Ends
  <2> SUFFICES ASSUME receive # None, receive.id \notin lost, receive.ended = "no"
               PROVE  \E e \in Ends' : e.kind = "end" /\ e.id = receive.id
    BY <1>1, <1>2 DEF SessionInv, ReceiveTracked, Ends, Items
  <2>3. server.slot.id # receive.id
    BY <1>2, ReceiveFacts
  <2>4. \E e \in Ends : e.kind = "end" /\ e.id = receive.id
    BY <2>3, Tracked DEF SessionInv
  <2> QED
    BY <1>2, <2>2, <2>4, EndKept
<1> QED
  BY <1>3, <1>6, <1>7, <1>8 DEF SessionInv

LEMMA ReadDecisionKeeps ==
    ASSUME AppType, NetType, SessionInv, ReadDecision
    PROVE  AppType' /\ NetType' /\ SessionInv'
<1>1. /\ UNCHANGED <<world, run, loop, chord, web, pending, receive, accepted>>
      /\ run = "on"
  BY ServerFrame DEF ServerStep, appVars
<1>2. /\ server' \in Servers(world) /\ server'.up = server.up
      /\ server.slot \in SessionSlots(world)
      /\ server.slot.phase = "waiting" /\ server.slot.decision # "none"
      /\ \/ server.slot.decision # "accept" /\ server'.slot = None
         \/ /\ server.slot.decision = "accept"
            /\ server'.slot \in SessionSlots(world) /\ server'.slot.id = server.slot.id
            /\ server'.slot.phase = "active" /\ server'.slot.decision = "accept"
      /\ UNCHANGED <<left, ending, serverRx, asking, writes, results, cancels, lost>>
  BY ReadDecisionDoes
<1>3. server.slot # None
  BY <1>2, SlotFacts DEF AppType
<1>4. CASE server.slot.decision # "accept" /\ server'.slot = None
  <2>1. ServerMoves
    BY <1>1, <1>2, LeftDoes DEF ServerMoves, AppType, NetType, InFlight, EndsKept, Ends
  <2>2. receive.id # server.slot.id
    BY <1>2, <1>3, <1>4 DEF SessionInv, SlotInv
  <2>3. SlotMoves
    BY <1>4, <2>2 DEF SlotMoves
  <2> QED
    BY <2>1, <2>3, ServerKeeps
<1>5. CASE /\ server.slot.decision = "accept"
           /\ server'.slot \in SessionSlots(world) /\ server'.slot.id = server.slot.id
           /\ server'.slot.phase = "active" /\ server'.slot.decision = "accept"
  <2>1. AppType' /\ NetType'
    BY <1>1, <1>2 DEF AppType, NetType
  <2>2. server'.slot # None
    BY <1>5, SlotFacts DEF AppType
  <2>3. SlotInv'
    BY <1>1, <1>2, <1>3, <1>5, <2>2 DEF SessionInv, SlotInv, WasAccepted
  <2>4. AcceptInv' /\ BusyInv' /\ ReceiveTracked'
    BY <1>1, <1>2, <1>5 DEF SessionInv, AcceptInv, BusyInv, ReceiveTracked, WasAccepted
  <2> QED
    BY <2>1, <2>3, <2>4 DEF SessionInv
<1> QED
  BY <1>2, <1>4, <1>5

LEMMA ServerStepKeeps ==
    ASSUME AppType, NetType, SessionInv, ServerStep
    PROVE  AppType' /\ NetType' /\ SessionInv'
<1>1. /\ UNCHANGED <<world, run, loop, chord, web, pending, receive, accepted>>
      /\ run = "on"
  BY ServerFrame DEF appVars
<1>2. left.came \in Nat /\ left \in Bounds(world)
  BY LeftDoes DEF AppType
<1>3. CASE SenderAborts \/ SenderCancels
  <2>1. /\ server' \in Servers(world) /\ server'.up = server.up
        /\ server.slot \in SessionSlots(world) /\ server'.slot = None
        /\ ending' \subseteq Endings(world) /\ ending \subseteq ending'
        /\ UNCHANGED <<left, serverRx, asking, writes, results, cancels>>
        /\ \/ /\ server.slot.phase = "waiting"
              /\ lost' = lost \cup (IF server.slot.decision = "accept" THEN {server.slot.id} ELSE {})
           \/ /\ \E x \in ending' : x.event = Ended(server.slot.id, "cancelled")
              /\ lost' = lost
    BY <1>3, SenderLeaves
  <2>2. server.slot # None
    BY <2>1, SlotFacts DEF AppType
  <2>3. EndsKept
    BY <2>1 DEF EndsKept, Ends
  <2>4. ServerMoves
    BY <1>1, <1>2, <2>1, <2>3 DEF ServerMoves, NetType, InFlight
  <2>5. CASE /\ server.slot.phase = "waiting"
             /\ lost' = lost \cup (IF server.slot.decision = "accept" THEN {server.slot.id} ELSE {})
    <3>1. receive.id = server.slot.id => receive.id \in lost'
      BY <2>2, <2>5 DEF SessionInv, SlotInv
    <3> QED
      BY <2>1, <2>4, <3>1, ServerKeeps DEF SlotMoves
  <2>6. CASE \E x \in ending' : x.event = Ended(server.slot.id, "cancelled")
    <3>1. \E e \in Ends' : e = Ended(server.slot.id, "cancelled")
      BY <2>6 DEF Ends
    <3>2. SlotMoves
      BY <2>1, <3>1 DEF SlotMoves, Ended
    <3> QED
      BY <2>4, <3>2, ServerKeeps
  <2> QED
    BY <2>1, <2>5, <2>6
<1>4. CASE SendEnding
  <2>1. PICK x \in ending :
            /\ x.event \in Events(world)
            /\ ending' = ending \ {x}
            /\ \/ serverRx' = Append(serverRx, x.event)
               \/ serverRx' = serverRx /\ x.event.id \in lost'
    BY <1>4, SendEndingDoes
  <2>2. /\ UNCHANGED <<left, server, asking, writes, results, cancels>>
        /\ serverRx' \in Seq(Events(world)) /\ lost \subseteq lost'
    BY <1>4, SendEndingDoes
  <2>3. EndsKept
    <3>1. CASE serverRx' = Append(serverRx, x.event)
      <4>1. Items(serverRx') = Items(serverRx) \cup {x.event}
        BY <2>1, <3>1, EventAdded
      <4> QED
        BY <2>1, <4>1 DEF EndsKept, Ends
    <3>2. CASE serverRx' = serverRx /\ x.event.id \in lost'
      BY <2>1, <3>2 DEF EndsKept, Ends
    <3> QED
      BY <2>1, <3>1, <3>2
  <2>4. SameSession
    BY <2>2, ServerFacts DEF SameSession, AppType, NetType
  <2>5. ServerMoves /\ SlotMoves
    BY <1>1, <1>2, <2>1, <2>2, <2>3, <2>4 DEF ServerMoves, NetType, InFlight, SlotMoves
  <2> QED
    BY <2>5, ServerKeeps
<1>5. CASE StartUpload
  <2>1. /\ server' \in Servers(world) /\ SameSession
        /\ asking' \subseteq Uploads(world)
        /\ UNCHANGED <<left, ending, serverRx, writes, results, cancels, lost>>
    BY <1>5, StartUploadDoes
  <2>2. ServerMoves /\ SlotMoves
    BY <1>1, <1>2, <2>1 DEF ServerMoves, NetType, InFlight, SlotMoves, EndsKept, Ends
  <2> QED
    BY <2>2, ServerKeeps
<1>6. CASE AskTarget
  <2>1. /\ asking' \subseteq Uploads(world) /\ serverRx' \in Seq(Events(world))
        /\ \E e \in Events(world) : e.kind = "upload" /\ serverRx' = Append(serverRx, e)
        /\ UNCHANGED <<left, server, ending, writes, results, cancels, lost>>
    BY <1>6, AskTargetDoes
  <2>2. Items(serverRx) \subseteq Items(serverRx')
    BY <2>1, EventAdded
  <2>3. SameSession
    BY <2>1, ServerFacts DEF SameSession, AppType, NetType
  <2>4. EndsKept
    BY <2>1, <2>2 DEF EndsKept, Ends
  <2>5. ServerMoves /\ SlotMoves
    BY <1>1, <1>2, <2>1, <2>3, <2>4 DEF ServerMoves, NetType, InFlight, SlotMoves
  <2> QED
    BY <2>5, ServerKeeps
<1>7. ASSUME FileFinal, serverRx' = serverRx
      PROVE  /\ server' \in Servers(world) /\ serverRx' \in Seq(Events(world))
             /\ ending' \subseteq Endings(world) /\ EndsKept /\ SlotMoves
  <2>1. EndsKept
    BY <1>7 DEF FileFinal, EndsKept, Ends
  <2>2. CASE SameSession
    BY <1>7, <2>1, <2>2 DEF FileFinal, SlotMoves, NetType
  <2>3. CASE /\ server'.slot = None
             /\ \E x \in ending' : x.event = Ended(server.slot.id, "finished")
    <3>1. \E e \in Ends' : e = Ended(server.slot.id, "finished")
      BY <2>3 DEF Ends
    <3> QED
      BY <1>7, <2>1, <2>3, <3>1 DEF FileFinal, SlotMoves, Ended, NetType
  <2> QED
    BY <1>7, <2>2, <2>3 DEF FileFinal
<1>8. CASE FinishWrite
  <2>1. /\ FileFinal
        /\ \E up \in writes : \E ok \in BOOLEAN :
             /\ writes' = writes \ {up}
             /\ results' = results \cup {[up |-> up, ok |-> ok]}
        /\ results' \subseteq Reports(world) /\ writes' \subseteq Uploads(world)
        /\ UNCHANGED <<left, serverRx, asking, cancels, lost>>
    BY <1>8, FinishWriteDoes
  <2>2. InFlight \subseteq InFlight'
    <3>1. PICK up \in writes, ok \in BOOLEAN :
            writes' = writes \ {up} /\ results' = results \cup {[up |-> up, ok |-> ok]}
      BY <2>1
    <3>2. [up |-> up, ok |-> ok] \in results' /\ [up |-> up, ok |-> ok].up = up
      BY <3>1
    <3> QED
      BY <3>1, <3>2 DEF InFlight
  <2>3. ServerMoves /\ SlotMoves
    BY <1>1, <1>2, <1>7, <2>1, <2>2 DEF ServerMoves, NetType
  <2> QED
    BY <2>3, ServerKeeps
<1>9. CASE FailUpload \/ DropUpload
  <2>1. /\ FileFinal /\ asking' \subseteq Uploads(world)
        /\ UNCHANGED <<left, serverRx, writes, results, cancels, lost>>
    BY <1>9, FailUploadDoes, DropUploadDoes DEF NetType
  <2>2. ServerMoves /\ SlotMoves
    BY <1>1, <1>2, <1>7, <2>1 DEF ServerMoves, NetType, InFlight
  <2> QED
    BY <2>2, ServerKeeps
<1>10. CASE CancelSession
  <2>1. /\ server' \in Servers(world) /\ server'.up = server.up
        /\ \E id \in cancels :
             /\ cancels' = cancels \ {id}
             /\ \/ server.slot.id = id /\ server'.slot = None
                \/ server' = server
        /\ lost \subseteq lost'
        /\ UNCHANGED <<left, ending, serverRx, asking, writes, results>>
    BY <1>10, CancelSessionDoes
  <2>2. ServerMoves
    BY <1>1, <1>2, <2>1 DEF ServerMoves, NetType, InFlight, EndsKept, Ends
  <2>3. \A id \in cancels : receive.id # id
    BY DEF SessionInv, AcceptInv
  <2>4. server' = server => SameSession
    BY ServerFacts DEF SameSession, AppType, NetType
  <2>5. SlotMoves
    BY <2>1, <2>3, <2>4 DEF SlotMoves
  <2> QED
    BY <2>2, <2>5, ServerKeeps
<1>11. CASE ServerStops
  <2>1. /\ server' \in Servers(world) /\ server'.slot = None
        /\ ending' \subseteq Endings(world) /\ lost \subseteq lost'
        /\ \A x \in ending : x \in ending' \/ x.event.id \in lost'
        /\ server.slot # None =>
             \/ server.slot.id \in lost'
             \/ \E x \in ending' : x.event = Ended(server.slot.id, "finished")
        /\ asking' = {} /\ writes' = {}
        /\ results' = results \cup {[up |-> up, ok |-> FALSE] : up \in writes}
        /\ results' \subseteq Reports(world)
        /\ UNCHANGED <<left, serverRx, cancels>>
    BY <1>11, ServerStopsDoes
  <2>2. InFlight \subseteq InFlight'
    <3>1. \A up \in writes : [up |-> up, ok |-> FALSE] \in results' /\ [up |-> up, ok |-> FALSE].up = up
      BY <2>1
    <3> QED
      BY <2>1, <3>1 DEF InFlight
  <2>3. EndsKept
    BY <2>1 DEF EndsKept, Ends
  <2>4. ServerMoves
    BY <1>1, <1>2, <2>1, <2>2, <2>3 DEF ServerMoves, NetType
  <2>5. receive # None /\ receive.id = server.slot.id => server.slot # None
    BY ReceiveFacts
  <2>6. server.slot # None =>
            server.slot.id \in lost' \/ \E e \in Ends' : e = Ended(server.slot.id, "finished")
    BY <2>1 DEF Ends
  <2>7. SlotMoves
    BY <2>1, <2>5, <2>6 DEF SlotMoves, Ended
  <2> QED
    BY <2>4, <2>7, ServerKeeps
<1> QED
  BY <1>3, <1>4, <1>5, <1>6, <1>8, <1>9, <1>10, <1>11, ArriveKeeps, ReadDecisionKeeps DEF ServerStep

-----------------------------------------------------------------------------
(* The sessions that are received: every step.                             *)

LEMMA EventKeeps ==
    ASSUME AppType, NetType, SessionInv, HandleServerEvent
    PROVE  AppType' /\ NetType' /\ SessionInv'
<1> DEFINE e == Head(serverRx)
<1>1. /\ EventFrame
      /\ \/ CancelHandled(e)
         \/ e.kind = "prepare" /\ HandlePrepare(e) /\ UNCHANGED send
         \/ e.kind = "upload" /\ HandleUpload(e.up) /\ UNCHANGED send
         \/ e.kind = "end" /\ HandleSessionEnd(e.id, e.reason) /\ UNCHANGED send
         \/ e.kind = "aborted" /\ HandleAborted(e.id) /\ UNCHANGED send
  BY EventDoes
<1>2. pending = None \/ pending \in [id : Ids(world), as : Devices]
  BY DEF AppType
<1>3. CASE CancelHandled(e)
  <2>1. /\ e.kind # "end"
        /\ UNCHANGED <<pending, receive, accepted, server, asking, writes, results>>
    BY <1>3 DEF CancelHandled
  <2> QED
    BY <1>1, <1>2, <2>1, QuietEvents, QuietKeeps
<1>4. CASE e.kind = "aborted" /\ HandleAborted(e.id)
  <2>1. /\ e.kind # "end"
        /\ UNCHANGED <<receive, accepted, server, asking, writes, results>>
        /\ pending' = None \/ pending' = pending
    BY <1>4 DEF HandleAborted
  <2> QED
    BY <1>1, <1>2, <2>1, QuietEvents, QuietKeeps
<1>5. CASE e.kind = "prepare" /\ HandlePrepare(e)
  <2>1. e.id \in Ids(world) /\ e.kind # "end"
    BY <1>1, <1>5, EventFacts DEF EventFrame, AppType
  <2> DEFINE id == e.id
  <2> HIDE DEF e
  <2>2. /\ UNCHANGED <<asking, writes, results>>
        /\ \/ Decide(id, "empty") /\ UNCHANGED <<pending, receive, accepted, ui>>
           \/ /\ \E how \in {"paired", "claimed"} : AcceptAll(id, how)
              /\ UNCHANGED <<pending, ui>>
           \/ /\ \E d \in Devices : Asks(d, id)
              /\ UNCHANGED <<server, receive, accepted>>
    BY <1>1, <1>5, PrepareDoes DEF EventFrame, e
  <2>3. pending' = pending => Beside
    BY <1>1, <1>2, <2>1, <2>2 DEF EventFrame, Beside, AppType, EndsKept, Ends, e
  <2>4. cancels' = cancels
    BY <1>1 DEF EventFrame
  <2>5. CASE Decide(id, "empty") /\ UNCHANGED <<pending, receive, accepted, ui>>
    <3>1. Beside /\ ReceiveKept /\ accepted' = accepted
      BY <2>3, <2>4, <2>5 DEF ReceiveKept
    <3> QED
      BY <2>1, <2>5, <3>1, DecisionKeeps
  <2>6. CASE /\ \E how \in {"paired", "claimed"} : AcceptAll(id, how)
             /\ UNCHANGED <<pending, ui>>
    <3>1. Beside
      BY <2>3, <2>6
    <3>2. PICK how \in {"paired", "claimed"} : AcceptAll(id, how)
      BY <2>6
    <3>3. how \in Consents
      BY DEF Consents
    <3> QED
      BY <2>1, <2>4, <3>1, <3>2, <3>3, AcceptKeeps
  <2>7. CASE /\ \E d \in Devices : Asks(d, id)
             /\ UNCHANGED <<server, receive, accepted>>
    <3>1. pending' \in [id : Ids(world), as : Devices]
      BY <2>1, <2>7 DEF Asks
    <3> QED
      BY <1>1, <2>1, <2>2, <2>7, <3>1, QuietEvents, QuietKeeps DEF e
  <2> QED
    BY <2>2, <2>5, <2>6, <2>7
<1> QED
  BY <1>1, <1>3, <1>4, <1>5, UploadKeeps, EndKeeps

LEMMA AnswerKeeps ==
    ASSUME AppType, NetType, SessionInv, ScreenInv, PressAnswer
    PROVE  AppType' /\ NetType' /\ SessionInv'
<1>1. /\ UNCHANGED <<world, loop, run, web, modal, ui, cancels, ending, serverRx, asking, writes,
                     results, lost>>
      /\ left' \in Bounds(world) /\ left'.came = left.came
      /\ chord' \in BOOLEAN /\ run = "on" /\ modal = NoModal
      /\ pending' = None
      /\ \/ pending = None /\ UNCHANGED <<server, receive, accepted>>
         \/ pending # None /\ AnswerDecides("n")
         \/ pending # None /\ AnswerDecides("y")
  BY AnswerDoes
<1>2. Beside
  BY <1>1 DEF Beside, AppType, NetType, EndsKept, Ends
<1>3. CASE pending = None /\ UNCHANGED <<server, receive, accepted>>
  BY <1>1, <1>2, <1>3, DecisionKeeps DEF ReceiveKept
<1>4. pending # None => pending.id \in Ids(world)
  BY ReceiveFacts DEF AppType
<1>5. CASE pending # None /\ AnswerDecides("n")
  <2>1. Decide(pending.id, "decline") /\ UNCHANGED <<receive, accepted>>
    BY <1>5 DEF AnswerDecides
  <2> QED
    BY <1>1, <1>2, <1>4, <1>5, <2>1, DecisionKeeps DEF ReceiveKept
<1>6. CASE pending # None /\ AnswerDecides("y")
  <2>1. AcceptAll(pending.id, Shown(pending.id))
    BY <1>6 DEF AnswerDecides
  <2>2. ~ui.suspended /\ ui.buffered = 0 /\ ui.alt = ui.stray /\ (~ui.stray => ui.over = 0)
        /\ pending.id \in Prompts(ui)
    BY <1>1, <1>6 DEF ScreenInv, ScreenOwned
  <2>3. Shown(pending.id) \in Consents
    BY <2>2 DEF Shown, Visible, Prompts, Consents
  <2> QED
    BY <1>1, <1>2, <1>4, <1>6, <2>1, <2>3, AcceptKeeps
<1> QED
  BY <1>1, <1>3, <1>5, <1>6

LEMMA CtrlCKeeps ==
    ASSUME AppType, NetType, SessionInv, ScreenInv, CtrlC
    PROVE  AppType' /\ NetType' /\ SessionInv'
<1>1. /\ UNCHANGED <<world, loop, web, ending, serverRx, asking, writes, results, lost>>
      /\ left' \in Bounds(world) /\ left'.came = left.came
      /\ chord' \in BOOLEAN /\ run = "on" /\ run' \in {"on", "quit"}
      /\ CtrlCModal \/ CtrlCAll
  BY CtrlCDoes DEF ScreenInv
<1>2. pending' = pending \/ pending' = None
  BY <1>1 DEF CtrlCModal, CtrlCAll
<1>3. Beside
  BY <1>1, <1>2 DEF Beside, AppType, NetType, EndsKept, Ends
<1>4. CASE CtrlCModal
  BY <1>3, <1>4, DecisionKeeps DEF CtrlCModal, ReceiveKept
<1>5. CASE CtrlCAll
  <2>1. pending # None => pending.id \in Ids(world)
    BY ReceiveFacts DEF AppType
  <2>2. \/ server' = server
        \/ \E id \in Ids(world) : Decide(id, "empty") \/ Decide(id, "decline")
    BY <1>5, <2>1 DEF CtrlCAll
  <2>3. ReceiveDropped /\ accepted' = accepted
    BY <1>5 DEF CtrlCAll, ReceiveDropped
  <2> QED
    BY <1>3, <2>2, <2>3, DecisionKeeps
<1> QED
  BY <1>1, <1>4, <1>5

\* A run begins with nothing, and ends with nothing.
LEMMA StartKeeps ==
    ASSUME AppType, NetType, SessionInv, Start
    PROVE  AppType' /\ NetType' /\ SessionInv'
<1>1. /\ run = "off" /\ run' = "on" /\ left' = [left EXCEPT !.lives = @ - 1]
      /\ server' = [Off EXCEPT !.up = TRUE]
      /\ UNCHANGED <<world, loop, chord, web, pending, receive, accepted, ending, serverRx, asking,
                     writes, results, cancels, lost>>
  BY DEF Start
<1>2. left' \in Bounds(world) /\ left'.came = left.came
  BY <1>1, LeftDoes
<1>3. server.slot = None
  BY <1>1 DEF SessionInv, SlotInv
<1>4. server' \in Servers(world) /\ server'.up /\ server'.slot = None
  BY <1>1 DEF Off, Servers, Modes
<1>5. Quiet
  BY <1>1, <1>2, <1>3, <1>4 DEF Quiet, AppType, NetType, EndsKept, Ends
<1> QED
  BY <1>5, QuietKeeps

LEMMA ExitKeeps ==
    ASSUME AppType, NetType, SessionInv, Exit
    PROVE  AppType' /\ NetType' /\ SessionInv'
<1>1. /\ run' = "off" /\ loop' = Idle /\ chord' = FALSE /\ web' = "off"
      /\ pending' = None /\ receive' = None /\ server' = Off /\ ending' = {}
      /\ serverRx' = <<>> /\ asking' = {} /\ writes' = {} /\ results' = {} /\ cancels' = {}
      /\ UNCHANGED <<world, left, accepted, lost>>
  BY DEF Exit
<1>2. /\ Off \in Servers(world) /\ ~Off.up /\ Off.slot = None
      /\ Idle \in [stage : {"idle", "wait"}, mode : Modes]
      /\ <<>> \in Seq(Events(world))
  BY DEF Off, Idle, Servers, Modes
<1>3. AppType' /\ NetType'
  BY <1>1, <1>2 DEF AppType, NetType
<1>4. SlotInv'
  BY <1>1, <1>2 DEF SlotInv
<1>5. AcceptInv' /\ BusyInv' /\ ReceiveTracked'
  BY <1>1 DEF SessionInv, AcceptInv, BusyInv, ReceiveTracked
<1> QED
  BY <1>3, <1>4, <1>5 DEF SessionInv

LEMMA SessionsKept ==
    ASSUME AppType, NetType, SendType, SessionInv, ScreenInv, [Next]_vars
    PROVE  AppType' /\ NetType' /\ SessionInv'
<1>1. modal = NoModal \/ Shows(modal)
  BY DEF ScreenInv
<1>2. CASE PressChord \/ PressDevices \/ PressHotkey \/ PressInPicker \/ PressInList
  BY <1>1, <1>2, KeysDo, QuietKeys, QuietKeeps
<1>3. CASE SendStep
  BY <1>3, QuietSends, QuietKeeps
<1>4. CASE \/ Tick \/ HandleSendEvent \/ HandleDiscovery \/ StartServer \/ Discover \/ AddDevice
           \/ StartFails
  <2>1. SlotInv
    BY DEF SessionInv
  <2> QED
    BY <1>4, <2>1, QuietOthers, QuietKeeps
<1>5. CASE UNCHANGED vars
  <2>1. UNCHANGED <<world, left, run, loop, chord, web, pending, receive, accepted, netVars>>
    BY <1>5 DEF vars, appVars
  <2>2. Quiet
    BY <2>1 DEF Quiet, netVars, AppType, NetType, EndsKept, Ends
  <2> QED
    BY <2>2, QuietKeeps
<1> QED
  BY <1>2, <1>3, <1>4, <1>5, EventKeeps, ResultKeeps, AnswerKeeps, CtrlCKeeps, ServerStepKeeps,
     StartKeeps, ExitKeeps DEF Next, Handle, Press

-----------------------------------------------------------------------------
(* The screen.                                                             *)

\* What the screen may be.
Screens ==
    [suspended : BOOLEAN, alt : BOOLEAN, buffered : Nat, shown : Nat,
     stray : BOOLEAN, over : Nat, gone : Nat]

\* The invariant of the screen, part by part.
LEMMA ScreenParts ==
    ScreenInv <=>
        /\ ui \in Screens
        /\ modal = NoModal \/ Shows(modal)
        /\ run = "off" => modal = NoModal
        /\ (modal # NoModal) = ui.suspended
        /\ ui.alt = (ui.suspended \/ ui.stray)
        /\ ~ui.suspended => ui.buffered = 0
        /\ ui.stray => ~ui.suspended
        /\ ~ui.stray => ui.over = 0
        /\ pending # None => pending.id \in Prompts(ui)
<1>1. ASSUME ui.alt = (ui.suspended \/ ui.stray), ~ui.suspended => ui.buffered = 0,
             ~ui.stray => ui.over = 0, pending # None => pending.id \in Prompts(ui),
             ~ui.alt, pending # None
      PROVE  pending.id \in {ui.shown, ui.gone}
  BY <1>1 DEF Prompts
<1> QED
  BY <1>1 DEF ScreenInv, ScreenOwned, Screens

\* What the operations on the screen do.
LEMMA ScreenDoes ==
    ASSUME ui \in Screens
    PROVE  /\ Lost(ui) \in Nat /\ (ui.over = 0 => Lost(ui) = ui.gone) /\ (ui.over # 0 => Lost(ui) = ui.over)
           /\ LET u == Suspend(ui)
              IN  /\ u \in Screens /\ u.suspended /\ u.alt /\ ~u.stray
                  /\ u.buffered = ui.buffered /\ u.shown = ui.shown /\ u.over = 0 /\ u.gone = Lost(ui)
           /\ LET u == Stray(ui)
              IN  /\ u \in Screens /\ u.suspended = ui.suspended /\ u.alt /\ u.stray
                  /\ u.buffered = ui.buffered /\ u.shown = ui.shown /\ u.over = 0 /\ u.gone = Lost(ui)
           /\ LET u == Resume(ui)
              IN  /\ u \in Screens /\ ~u.suspended /\ ~u.alt /\ u.stray = ui.stray
                  /\ u.buffered = 0 /\ u.over = ui.over /\ u.gone = ui.gone
                  /\ u.shown = IF ui.buffered = 0 THEN ui.shown ELSE ui.buffered
<1>1. /\ Lost(ui) \in Nat /\ (ui.over = 0 => Lost(ui) = ui.gone) /\ (ui.over # 0 => Lost(ui) = ui.over)
  BY DEF Lost, Screens
<1>2. /\ OnAlternate(ui) \in Screens /\ OnAlternate(ui).suspended = ui.suspended
      /\ OnAlternate(ui).alt /\ OnAlternate(ui).stray = ui.stray
      /\ OnAlternate(ui).buffered = ui.buffered /\ OnAlternate(ui).shown = ui.shown
      /\ OnAlternate(ui).over = 0 /\ OnAlternate(ui).gone = Lost(ui)
  BY <1>1 DEF OnAlternate, Screens
<1>3. LET u == Suspend(ui)
      IN  /\ u \in Screens /\ u.suspended /\ u.alt /\ ~u.stray
          /\ u.buffered = ui.buffered /\ u.shown = ui.shown /\ u.over = 0 /\ u.gone = Lost(ui)
  BY <1>2 DEF Suspend, Screens
<1>4. LET u == Stray(ui)
      IN  /\ u \in Screens /\ u.suspended = ui.suspended /\ u.alt /\ u.stray
          /\ u.buffered = ui.buffered /\ u.shown = ui.shown /\ u.over = 0 /\ u.gone = Lost(ui)
  BY <1>2 DEF Stray, Screens
<1>5. LET u == Resume(ui)
      IN  /\ u \in Screens /\ ~u.suspended /\ ~u.alt /\ u.stray = ui.stray
          /\ u.buffered = 0 /\ u.over = ui.over /\ u.gone = ui.gone
          /\ u.shown = IF ui.buffered = 0 THEN ui.shown ELSE ui.buffered
  BY DEF Resume, Screens
<1> QED
  BY <1>1, <1>3, <1>4, <1>5

\* A step of the screen with no new prompt.
LEMMA ScreenStepKeeps ==
    ASSUME AppType, ScreenInv, ScreenStep, pending' = pending \/ pending' = None,
           run' # "off" \/ UNCHANGED <<run, modal>>
    PROVE  ScreenInv'
<1>1. /\ ui \in Screens
      /\ modal = NoModal \/ Shows(modal)
      /\ run = "off" => modal = NoModal
      /\ (modal # NoModal) = ui.suspended
      /\ ui.alt = (ui.suspended \/ ui.stray)
      /\ ~ui.suspended => ui.buffered = 0
      /\ ui.stray => ~ui.suspended
      /\ ~ui.stray => ui.over = 0
      /\ pending # None => pending.id \in Prompts(ui)
  BY ScreenParts
<1>2. Shows(modal) => modal # NoModal
  BY ModalShapes
<1>3. Shows(modal') => modal' # NoModal
  BY ModalShapes
<1>4. pending # None => pending.id # 0
  BY ReceiveFacts
<1>5. run' = "off" => modal' = NoModal
  BY <1>1
<1> SUFFICES /\ ui' \in Screens
             /\ modal' = NoModal \/ Shows(modal')
             /\ (modal' # NoModal) = ui'.suspended
             /\ ui'.alt = (ui'.suspended \/ ui'.stray)
             /\ ~ui'.suspended => ui'.buffered = 0
             /\ ui'.stray => ~ui'.suspended
             /\ ~ui'.stray => ui'.over = 0
             /\ pending # None => pending.id \in Prompts(ui')
  <2>1. pending' # None => pending # None /\ pending' = pending
    OBVIOUS
  <2>2. Prompts(ui') = Prompts(ui)'
    BY DEF Prompts
  <2>3. Shows(modal') = Shows(modal)'
    BY DEF Shows
  <2> QED
    BY <1>5, <2>1, <2>2, <2>3 DEF ScreenInv, ScreenOwned, Screens, Prompts
<1>6. CASE UNCHANGED <<modal, ui>>
  BY <1>1, <1>6
<1>7. CASE modal = NoModal /\ UNCHANGED modal /\ ui' = Stray(ui)
  BY <1>1, <1>7, ScreenDoes DEF Prompts
<1>8. CASE Shows(modal') /\ ui' = Suspend(ui)
  BY <1>1, <1>3, <1>8, ScreenDoes DEF Prompts
<1>9. CASE Shows(modal) /\ Shows(modal') /\ ui' = ui
  BY <1>1, <1>2, <1>3, <1>9
<1>10. CASE CloseModal /\ modal # NoModal
  <2>1. modal' = NoModal /\ ui' = Resume(ui)
    BY <1>10 DEF CloseModal
  <2>2. ui.suspended /\ ~ui.stray /\ ui.over = 0
    BY <1>1, <1>10
  <2>3. /\ ui' \in Screens /\ ~ui'.suspended /\ ~ui'.alt /\ ~ui'.stray /\ ui'.buffered = 0
        /\ ui'.over = 0 /\ ui'.gone = ui.gone
        /\ ui'.shown = IF ui.buffered = 0 THEN ui.shown ELSE ui.buffered
    BY <1>1, <2>1, <2>2, ScreenDoes
  <2>4. pending # None => pending.id \in Prompts(ui')
    BY <1>1, <2>2, <2>3 DEF Prompts
  <2> QED
    BY <2>1, <2>3, <2>4 DEF Screens
<1>11. CASE CloseModal /\ modal = NoModal
  <2>1. UNCHANGED <<modal, ui>>
    BY <1>11 DEF CloseModal
  <2> QED
    BY <1>6, <2>1
<1> QED
  BY <1>6, <1>7, <1>8, <1>9, <1>10, <1>11 DEF ScreenStep

\* A prompt is shown, or kept until the modal closes.
LEMMA PromptKeeps ==
    ASSUME AppType, ScreenInv, NEW id \in Ids(world), NEW d \in Devices, Asks(d, id),
           UNCHANGED <<run, modal>>
    PROVE  ScreenInv'
<1>1. id \in Nat \ {0} /\ pending'.id = id
  BY RequestFacts DEF AppType, Asks
<1>2. /\ ui \in Screens
      /\ modal = NoModal \/ Shows(modal)
      /\ run = "off" => modal = NoModal
      /\ (modal # NoModal) = ui.suspended
      /\ ui.alt = (ui.suspended \/ ui.stray)
      /\ ~ui.suspended => ui.buffered = 0
      /\ ui.stray => ~ui.suspended
      /\ ~ui.stray => ui.over = 0
  BY ScreenParts
<1>3. /\ ui' \in Screens
      /\ ui'.suspended = ui.suspended /\ ui'.alt = ui.alt /\ ui'.stray = ui.stray
      /\ ui'.buffered = IF ui.suspended THEN id ELSE ui.buffered
      /\ ui'.over = IF ~ui.suspended /\ ui.alt THEN id ELSE ui.over
      /\ ~ui.suspended /\ ~ui.alt => ui'.shown = id
  BY <1>1, <1>2 DEF Asks, Prompt, Screens
<1>4. id \in Prompts(ui)'
  BY <1>1, <1>2, <1>3 DEF Prompts
<1> QED
  BY <1>1, <1>2, <1>3, <1>4 DEF ScreenInv, ScreenOwned, Screens, Prompts

LEMMA ScreenKept ==
    ASSUME AppType, NetType, ScreenInv, [Next]_vars
    PROVE  ScreenInv'
<1>1. modal = NoModal \/ Shows(modal)
  BY DEF ScreenInv
<1>2. UNCHANGED <<modal, ui>> => ScreenStep
  BY DEF ScreenStep
<1>3. CASE PressChord \/ PressDevices \/ PressHotkey \/ PressInPicker \/ PressInList
  BY <1>1, <1>3, KeysDo, ScreenStepKeeps DEF KeyFrame
<1>4. CASE PressAnswer
  BY <1>2, <1>4, AnswerDoes, ScreenStepKeeps
<1>5. CASE CtrlC
  <2>1. (CtrlCModal \/ CtrlCAll) /\ run' \in {"on", "quit"}
    BY <1>1, <1>5, CtrlCDoes
  <2> QED
    BY <1>2, <2>1, ScreenStepKeeps DEF CtrlCModal, CtrlCAll, ScreenStep
<1>6. CASE HandleServerEvent
  <2> DEFINE e == Head(serverRx)
  <2>1. /\ EventFrame
        /\ \/ CancelHandled(e)
           \/ e.kind = "prepare" /\ HandlePrepare(e) /\ UNCHANGED send
           \/ e.kind = "upload" /\ HandleUpload(e.up) /\ UNCHANGED send
           \/ e.kind = "end" /\ HandleSessionEnd(e.id, e.reason) /\ UNCHANGED send
           \/ e.kind = "aborted" /\ HandleAborted(e.id) /\ UNCHANGED send
    BY <1>6, EventDoes
  <2>2. UNCHANGED <<run, modal>>
    BY <2>1 DEF EventFrame
  <2>3. CASE \/ CancelHandled(e) \/ HandleUpload(e.up) \/ HandleSessionEnd(e.id, e.reason)
             \/ HandleAborted(e.id)
    <3>1. ui' = ui /\ (pending' = pending \/ pending' = None)
      BY <2>3 DEF CancelHandled, HandleUpload, HandleSessionEnd, HandleAborted
    <3> QED
      BY <1>2, <2>2, <3>1, ScreenStepKeeps
  <2>4. CASE e.kind = "prepare" /\ HandlePrepare(e)
    <3>1. e.id \in Ids(world) /\ e \in Events(world)
      BY <2>1, <2>4, EventFacts DEF EventFrame, AppType
    <3> HIDE DEF e
    <3>2. UNCHANGED <<pending, ui>> \/ \E d \in Devices : Asks(d, e.id)
      BY <2>4, <3>1, PrepareDoes
    <3> QED
      BY <1>2, <2>2, <3>1, <3>2, ScreenStepKeeps, PromptKeeps
  <2> QED
    BY <2>1, <2>3, <2>4
<1>7. CASE \/ ReceiveFileResult \/ HandleSendEvent \/ HandleDiscovery \/ StartServer
           \/ Discover \/ AddDevice \/ StartFails \/ ServerStep \/ SendStep \/ UNCHANGED vars
  <2>1. /\ UNCHANGED <<modal, ui, pending>>
        /\ run' = run \/ run' = "quit"
    <3>1. CASE ServerStep
      BY <3>1, ServerFrame DEF appVars
    <3>2. CASE SendStep
      BY <3>2 DEF SendStep, PrepareEnds, Announce, UploadFiles, Notify, EndSend, PeerAnswers,
                  PeerCancels, SendOnly, appVars
    <3> QED
      BY <1>7, <3>1, <3>2 DEF ReceiveFileResult, HandleSendEvent, HandleDiscovery, StartServer,
                  Discover, AddDevice, StartFails, FindOnly, Quit, appVars, vars
  <2> QED
    BY <1>2, <2>1, ScreenStepKeeps
<1>8. CASE Tick
  <2>1. /\ modal.kind = "list" /\ UNCHANGED <<run, ui, pending>> /\ run = "on"
        /\ \E l : modal' = [modal EXCEPT !.list = l]
    BY <1>8, Zenon DEF Tick, WithRows, Ready
  <2>2. ScreenStep
    BY <1>1, <2>1, ModalShapes DEF ScreenStep
  <2> QED
    BY <2>1, <2>2, ScreenStepKeeps
<1>9. CASE Start
  <2>1. /\ run = "off" /\ run' = "on" /\ pending' = pending
        /\ \/ modal' = ListModal(DeviceRowsOf(paired')) /\ ui' = Suspend(ui)
           \/ UNCHANGED modal /\ ui' \in {ui, Stray(ui)}
    BY <1>9, Zenon DEF Start, KeepModal, OpenDeviceList, OpenFails
  <2>2. modal = NoModal
    BY <2>1, ScreenParts
  <2>3. ScreenStep
    BY <2>1, <2>2, ModalShapes DEF ScreenStep
  <2> QED
    BY <2>1, <2>3, ScreenStepKeeps
<1>10. CASE Exit
  <2>1. ui' = Screen /\ modal' = NoModal /\ pending' = None
    BY <1>10 DEF Exit
  <2> QED
    BY <2>1 DEF Screen, ScreenInv, ScreenOwned
<1> QED
  BY <1>3, <1>4, <1>5, <1>6, <1>7, <1>8, <1>9, <1>10 DEF Next, Handle, Press

-----------------------------------------------------------------------------
(* The send.                                                               *)

\* The parts of the invariant that say nothing of the server's events.
SendState ==
    /\ SendType
    /\ sendRx \in SendEvents
    /\ (send # NoSend) = (task # "none" \/ sendRx # <<>>)
    /\ send # NoSend => send.n = left.sends + 1
    /\ peer = "asked" => task = "prepare"
    /\ task \in {"none", "ended", "panicked"} /\ peer = "active" => unaware
    /\ send.byPeer => peer = "over"

\* Each queue of events of the task.
LEMMA SendQueues ==
    /\ Append(<<>>, "started") = <<"started">> /\ Append(<<>>, "ended") = <<"ended">>
    /\ Append(<<"started">>, "ended") = <<"started", "ended">>
    /\ Tail(<<"started">>) = <<>> /\ Tail(<<"ended">>) = <<>>
    /\ Tail(<<"started", "ended">>) = <<"ended">>
    /\ Head(<<"started">>) = "started" /\ Head(<<"ended">>) = "ended"
    /\ Head(<<"started", "ended">>) = "started"
    /\ <<"started">> # <<>> /\ <<"ended">> # <<>> /\ <<"started", "ended">> # <<>>
<1>1. Append(<<>>, "started") = <<"started">>
  OBVIOUS
<1>2. Append(<<>>, "ended") = <<"ended">>
  OBVIOUS
<1>3. Append(<<"started">>, "ended") = <<"started", "ended">>
  <2> DEFINE S == {"started", "ended"}
             x == Append(<<"started">>, "ended")
             y == <<"started", "ended">>
  <2>1. <<"started">> \in Seq(S) /\ y \in Seq(S) /\ Len(<<"started">>) = 1 /\ Len(y) = 2
    OBVIOUS
  <2>2. /\ x \in Seq(S) /\ Len(x) = 2 /\ x[1] = "started" /\ x[2] = "ended"
    BY <2>1
  <2>3. y[1] = "started" /\ y[2] = "ended"
    OBVIOUS
  <2>4. \A i \in 1..2 : x[i] = y[i]
    <3>1. \A i \in 1..2 : i = 1 \/ i = 2
      OBVIOUS
    <3> HIDE DEF x, y
    <3> QED
      BY <2>2, <2>3, <3>1
  <2> HIDE DEF x, y, S
  <2>5. x = y
    BY <2>1, <2>2, <2>4, SeqEqual
  <2> QED
    BY <2>5 DEF x, y
<1>4. Tail(<<"started">>) = <<>>
  OBVIOUS
<1>5. Tail(<<"ended">>) = <<>>
  OBVIOUS
<1>6. Tail(<<"started", "ended">>) = <<"ended">>
  OBVIOUS
<1>7. Head(<<"started">>) = "started" /\ Head(<<"ended">>) = "ended"
  OBVIOUS
<1>8. Head(<<"started", "ended">>) = "started"
  OBVIOUS
<1>9. <<"started">> # <<>> /\ <<"ended">> # <<>> /\ <<"started", "ended">> # <<>>
  OBVIOUS
<1> QED
  BY <1>1, <1>2, <1>3, <1>4, <1>5, <1>6, <1>7, <1>8, <1>9, Zenon

\* Nothing of the send changes, and no cancel arrives.
LEMMA SendQuiet ==
    ASSUME SendInv, UNCHANGED <<sendVars, world>>, left'.sends = left.sends,
           \A e \in Items(serverRx') : e \in Items(serverRx) \/ e.kind # "cancel"
    PROVE  SendInv'
BY DEF SendInv, SendType, SendEvents, CancelNews, sendVars, NoSend

\* The token, the session id: they change nothing the invariant is about.
LEMMA SendMarked ==
    ASSUME SendInv, AppType, send # NoSend, UNCHANGED <<world, task, peer, sendRx, unaware>>, left'.sends = left.sends,
           send' \in [n : 0..world.sends, sid : BOOLEAN, token : BOOLEAN, byPeer : BOOLEAN],
           send'.n = send.n, send'.byPeer => peer = "over",
           \A e \in Items(serverRx') : e \in Items(serverRx) \/ e.kind # "cancel"
    PROVE  SendInv'
<1>1. send'.n # 0 /\ send' # NoSend
  <2>1. send.n = left.sends + 1 /\ left.sends \in Nat
    BY LeftDoes DEF SendInv
  <2> QED
    BY <2>1 DEF NoSend
<1> QED
  BY <1>1 DEF SendInv, SendType, SendEvents, CancelNews

\* A send starts.
LEMMA BeginKeeps ==
    ASSUME SendInv, AppType, NetType, SendStarts, UNCHANGED <<world, serverRx>>
    PROVE  SendInv'
<1>1. CASE UNCHANGED sendVars /\ left'.sends = left.sends
  BY <1>1, SendQuiet
<1>2. CASE send = NoSend /\ left.sends > 0 /\ BeginSend
  <2>1. /\ left' = [left EXCEPT !.sends = @ - 1, !.keys = @ - 1]
        /\ send' = [n |-> left.sends, sid |-> FALSE, token |-> FALSE, byPeer |-> FALSE]
        /\ task' = "prepare" /\ peer' = "asked" /\ unaware' = FALSE /\ sendRx' = sendRx
    BY <1>2 DEF BeginSend
  <2>2. left.sends \in 0..world.sends /\ world.sends \in Nat /\ left'.sends = left.sends - 1
    BY <1>2, <2>1, LeftDoes, WorldFacts DEF AppType, Bounds
  <2>3. sendRx = <<>>
    BY <1>2 DEF SendInv
  <2>4. send' # NoSend /\ send'.n = left.sends /\ ~send'.byPeer
    BY <1>2, <2>1, <2>2 DEF NoSend
  <2>5. SendType'
    BY <2>1, <2>2 DEF SendType
  <2>6. CancelNews'
    <3>1. \A e \in Items(serverRx) : e.kind = "cancel" => e.n \in Int /\ e.n > left.sends
      <4>1. \A e \in Items(serverRx) : e \in Events(world)
        BY DEF Items, NetType
      <4> QED
        BY <4>1, EventFacts DEF AppType, SendInv, CancelNews
    <3> QED
      BY <2>2, <2>4, <3>1 DEF CancelNews
  <2>7. sendRx' \in SendEvents'
    BY <2>1, <2>3 DEF SendEvents
  <2> QED
    BY <2>1, <2>2, <2>3, <2>4, <2>5, <2>6, <2>7 DEF SendInv
<1> QED
  BY <1>1, <1>2 DEF SendStarts

\* The task, and its receiver.
LEMMA SendStepKeeps ==
    ASSUME SendInv, AppType, NetType, SendStep
    PROVE  SendInv'
<1>1. UNCHANGED <<world, left>>
  BY DEF SendStep, PrepareEnds, Announce, UploadFiles, Notify, EndSend, PeerAnswers, PeerCancels, SendOnly
<1>2. ASSUME serverRx' = serverRx, send' = send, SendState', peer = "over" => peer' = "over"
      PROVE  SendInv'
  <2>1. CancelNews'
    BY <1>1, <1>2 DEF SendInv, CancelNews
  <2> QED
    BY <1>2, <2>1 DEF SendInv, SendState
<1>3. /\ SendType /\ sendRx \in SendEvents
      /\ (send # NoSend) = (task # "none" \/ sendRx # <<>>)
      /\ send # NoSend => send.n = left.sends + 1
      /\ peer = "asked" => task = "prepare"
      /\ task \in {"none", "ended", "panicked"} /\ peer = "active" => unaware
      /\ send.byPeer => peer = "over"
  BY DEF SendInv
<1>4. CASE PrepareEnds
  <2>1. /\ task = "prepare" /\ UNCHANGED <<send, sendRx, serverRx>>
        /\ task' \in {"announce", "ended"}
        /\ \/ /\ peer \in {"active", "over", "refused"} /\ UNCHANGED <<peer, unaware>>
              /\ task' = "ended" => peer = "refused"
           \/ /\ task' = "ended" /\ unaware' = (peer = "active")
              /\ peer' = IF peer = "asked" THEN "refused" ELSE peer
    BY <1>4 DEF PrepareEnds, PrepareUpload
  <2>2. sendRx = <<>>
    BY <1>3, <2>1 DEF SendEvents
  <2>3. sendRx' \in SendEvents'
    BY <2>1, <2>2 DEF SendEvents
  <2>4. SendType'
    BY <1>1, <1>3, <2>1 DEF SendType
  <2>5. SendState'
    BY <1>1, <1>3, <2>1, <2>3, <2>4 DEF SendState, NoSend
  <2> QED
    BY <1>2, <2>1, <2>5
<1>5. CASE Announce
  <2>1. /\ task = "announce" /\ task' = "upload" /\ sendRx' = Append(sendRx, "started")
        /\ UNCHANGED <<send, peer, unaware, serverRx>>
    BY <1>5 DEF Announce
  <2>2. sendRx = <<>> /\ sendRx' = <<"started">>
    BY <1>3, <2>1, SendQueues DEF SendEvents
  <2>3. sendRx' \in SendEvents'
    BY <2>1, <2>2 DEF SendEvents
  <2>4. SendType'
    BY <1>1, <1>3, <2>1 DEF SendType
  <2>5. SendState'
    BY <1>1, <1>3, <2>1, <2>3, <2>4 DEF SendState, NoSend
  <2> QED
    BY <1>2, <2>1, <2>5
<1>6. CASE UploadFiles
  <2>1. /\ task = "upload" /\ UNCHANGED <<send, sendRx, serverRx>>
        /\ \/ peer = "active" /\ task' = "ended" /\ peer' = "over" /\ UNCHANGED unaware
           \/ /\ task' = (IF send.byPeer THEN "ended" ELSE "notify")
              /\ UNCHANGED <<peer, unaware>>
           \/ task' = "notify" /\ UNCHANGED <<peer, unaware>>
           \/ task' = "panicked" /\ unaware' = (peer = "active") /\ UNCHANGED peer
    BY <1>6 DEF UploadFiles, Panics
  <2>2. sendRx' \in SendEvents'
    BY <1>3, <2>1 DEF SendEvents
  <2>3. SendType'
    BY <1>1, <1>3, <2>1 DEF SendType
  <2>4. SendState'
    BY <1>1, <1>3, <2>1, <2>2, <2>3 DEF SendState, NoSend
  <2> QED
    BY <1>2, <2>1, <2>4
<1>7. CASE Notify
  <2>1. /\ task = "notify" /\ task' = "ended" /\ UNCHANGED <<send, sendRx, serverRx>>
        /\ \/ peer' = "over" /\ UNCHANGED unaware
           \/ unaware' = (peer = "active") /\ UNCHANGED peer
    BY <1>7 DEF Notify, Cancel
  <2>2. sendRx' \in SendEvents'
    BY <1>3, <2>1 DEF SendEvents
  <2>3. SendType'
    BY <1>1, <1>3, <2>1 DEF SendType
  <2>4. SendState'
    BY <1>1, <1>3, <2>1, <2>2, <2>3 DEF SendState, NoSend
  <2> QED
    BY <1>2, <2>1, <2>4
<1>8. CASE EndSend
  <2>1. /\ task = "ended" /\ task' = "none" /\ sendRx' = Append(sendRx, "ended")
        /\ UNCHANGED <<send, peer, unaware, serverRx>>
    BY <1>8 DEF EndSend
  <2>2. sendRx \in {<<>>, <<"started">>}
    BY <1>3, <2>1 DEF SendEvents
  <2>3. sendRx' \in {<<"ended">>, <<"started", "ended">>} /\ sendRx' # <<>>
    BY <2>1, <2>2, SendQueues
  <2>4. sendRx' \in SendEvents'
    BY <2>1, <2>3 DEF SendEvents
  <2>5. SendType'
    BY <1>1, <1>3, <2>1 DEF SendType
  <2>6. SendState'
    BY <1>1, <1>3, <2>1, <2>3, <2>4, <2>5 DEF SendState, NoSend
  <2> QED
    BY <1>2, <2>1, <2>6
<1>9. CASE PeerAnswers
  <2>1. /\ peer = "asked" /\ peer' \in {"active", "refused"}
        /\ UNCHANGED <<send, task, sendRx, unaware, serverRx>>
    BY <1>9 DEF PeerAnswers
  <2>2. sendRx' \in SendEvents'
    BY <1>3, <2>1 DEF SendEvents
  <2>3. SendType'
    BY <1>1, <1>3, <2>1 DEF SendType
  <2>4. SendState'
    BY <1>1, <1>3, <2>1, <2>2, <2>3 DEF SendState, NoSend
  <2> QED
    BY <1>2, <2>1, <2>4
<1>10. CASE PeerCancels
  <2>1. /\ peer = "active" /\ send # NoSend /\ peer' = "over"
        /\ UNCHANGED <<send, task, sendRx, unaware>>
        /\ \/ serverRx' = serverRx
           \/ \E host \in BOOLEAN :
                serverRx' = Append(serverRx, [kind |-> "cancel", n |-> send.n, host |-> host])
    BY <1>10, Zenon DEF PeerCancels
  <2>2. sendRx' \in SendEvents'
    BY <1>3, <2>1 DEF SendEvents
  <2>3. SendType'
    BY <1>1, <1>3, <2>1 DEF SendType
  <2>4. SendState'
    BY <1>1, <1>3, <2>1, <2>2, <2>3 DEF SendState, NoSend
  <2>5. send.n \in Int /\ left.sends \in Nat /\ send.n > left.sends
    BY <1>3, <2>1, LeftDoes DEF SendType
  <2>6. CancelNews'
    <3>1. CASE serverRx' = serverRx
      BY <1>1, <2>1, <3>1 DEF SendInv, CancelNews
    <3>2. ASSUME NEW host \in BOOLEAN,
                 serverRx' = Append(serverRx, [kind |-> "cancel", n |-> send.n, host |-> host])
          PROVE  CancelNews'
      <4> DEFINE x == [kind |-> "cancel", n |-> send.n, host |-> host]
      <4>1. x \in Events(world) /\ x.n = send.n
        BY <2>5, EventFacts DEF AppType
      <4> HIDE DEF x
      <4>2. Items(serverRx') = Items(serverRx) \cup {x}
        BY <3>2, <4>1, EventAdded DEF x
      <4> QED
        BY <1>1, <2>1, <2>5, <4>1, <4>2 DEF SendInv, CancelNews
    <3> QED
      BY <2>1, <3>1, <3>2, Zenon
  <2> QED
    BY <2>4, <2>6 DEF SendInv, SendState
<1> QED
  BY <1>4, <1>5, <1>6, <1>7, <1>8, <1>9, <1>10 DEF SendStep

\* An event of the task is handled; the last one ends the send.
LEMMA SendEventKeeps ==
    ASSUME SendInv, AppType, HandleSendEvent
    PROVE  SendInv'
<1>1. /\ sendRx # <<>> /\ sendRx' = Tail(sendRx)
      /\ UNCHANGED <<world, left, netVars, task, peer, unaware>>
      /\ \/ /\ Head(sendRx) = "started"
            /\ send' = IF send = NoSend THEN send ELSE [send EXCEPT !.sid = TRUE]
         \/ Head(sendRx) # "started" /\ send' = NoSend
  BY DEF HandleSendEvent
<1>2. /\ SendType /\ sendRx \in SendEvents
      /\ send # NoSend /\ send.n = left.sends + 1
      /\ peer = "asked" => task = "prepare"
      /\ task \in {"none", "ended", "panicked"} /\ peer = "active" => unaware
      /\ send.byPeer => peer = "over"
  BY <1>1 DEF SendInv
<1>3. left.sends \in Nat
  BY LeftDoes
<1>4. serverRx' = serverRx
  BY <1>1 DEF netVars
<1>5. CASE Head(sendRx) = "started"
  <2>1. send' = [send EXCEPT !.sid = TRUE]
    BY <1>1, <1>2, <1>5
  <2>2. /\ send' \in [n : 0..world.sends, sid : BOOLEAN, token : BOOLEAN, byPeer : BOOLEAN]
        /\ send'.n = send.n /\ send'.byPeer = send.byPeer
    BY <1>2, <2>1 DEF SendType
  <2>3. send' # NoSend
    BY <1>2, <1>3, <2>2 DEF NoSend
  <2>4. \/ sendRx = <<"started">> /\ sendRx' = <<>> /\ task \in {"upload", "notify", "ended", "panicked"}
        \/ sendRx = <<"started", "ended">> /\ sendRx' = <<"ended">> /\ task = "none"
    BY <1>1, <1>2, <1>5, SendQueues DEF SendEvents, SendType
  <2>5. sendRx' \in SendEvents' /\ (task' # "none" \/ sendRx' # <<>>)
    BY <1>1, <2>4, SendQueues DEF SendEvents
  <2>6. SendType'
    BY <1>1, <1>2, <2>2 DEF SendType
  <2>7. CancelNews'
    BY <1>1, <1>2, <1>4, <2>2 DEF SendInv, CancelNews
  <2> QED
    BY <1>1, <1>2, <2>2, <2>3, <2>5, <2>6, <2>7 DEF SendInv
<1>6. CASE Head(sendRx) # "started" /\ send' = NoSend
  <2>1. sendRx = <<"ended">> /\ sendRx' = <<>> /\ task = "none"
    BY <1>1, <1>2, <1>6, SendQueues DEF SendEvents, SendType
  <2>2. sendRx' \in SendEvents'
    BY <1>1, <2>1 DEF SendEvents
  <2>3. SendType'
    <3>1. world.sends \in Nat
      BY WorldFacts DEF AppType
    <3> QED
      BY <1>1, <1>2, <1>6, <3>1 DEF SendType, NoSend
  <2>4. ~send'.byPeer
    BY <1>6 DEF NoSend
  <2>5. CancelNews'
    BY <1>1, <1>4, <1>6 DEF SendInv, CancelNews
  <2> QED
    BY <1>1, <1>2, <1>6, <2>1, <2>2, <2>3, <2>4, <2>5 DEF SendInv
<1> QED
  BY <1>1, <1>5, <1>6

LEMMA SendKept ==
    ASSUME SendInv, AppType, NetType, ScreenInv, [Next]_vars
    PROVE  SendInv'
<1>1. modal = NoModal \/ Shows(modal)
  BY DEF ScreenInv
<1>2. CASE PressChord \/ PressDevices \/ PressHotkey \/ PressInPicker \/ PressInList
  BY <1>1, <1>2, KeysDo, BeginKeeps DEF KeyFrame
<1>3. CASE PressAnswer
  <2>1. UNCHANGED <<world, serverRx, send, peer, task, sendRx, unaware>> /\ left'.sends = left.sends
    BY <1>3, AnswerDoes
  <2> QED
    BY <2>1, SendQuiet DEF sendVars
<1>4. CASE CtrlC
  <2>1. /\ UNCHANGED <<world, serverRx, peer, task, sendRx, unaware>> /\ left'.sends = left.sends
        /\ CtrlCModal \/ CtrlCAll
    BY <1>1, <1>4, CtrlCDoes
  <2>2. CASE send' = send
    BY <2>1, <2>2, SendQuiet DEF sendVars
  <2>3. CASE send # NoSend /\ send' = [send EXCEPT !.token = TRUE]
    <3>1. /\ send' \in [n : 0..world.sends, sid : BOOLEAN, token : BOOLEAN, byPeer : BOOLEAN]
          /\ send'.n = send.n /\ send'.byPeer = send.byPeer
      BY <2>3 DEF SendInv, SendType
    <3>2. send.byPeer => peer = "over"
      BY DEF SendInv
    <3> QED
      BY <2>1, <2>3, <3>1, <3>2, SendMarked
  <2> QED
    BY <2>1, <2>2, <2>3 DEF CtrlCModal, CtrlCAll
<1>5. CASE HandleServerEvent
  <2> DEFINE e == Head(serverRx)
  <2>1. /\ EventFrame
        /\ \/ CancelHandled(e)
           \/ e.kind = "prepare" /\ HandlePrepare(e) /\ UNCHANGED send
           \/ e.kind = "upload" /\ HandleUpload(e.up) /\ UNCHANGED send
           \/ e.kind = "end" /\ HandleSessionEnd(e.id, e.reason) /\ UNCHANGED send
           \/ e.kind = "aborted" /\ HandleAborted(e.id) /\ UNCHANGED send
    BY <1>5, EventDoes
  <2>2. /\ UNCHANGED <<world, left, peer, task, sendRx, unaware>>
        /\ e \in Items(serverRx) /\ Items(serverRx') \subseteq Items(serverRx)
    BY <2>1 DEF EventFrame
  <2>3. CASE UNCHANGED send
    BY <2>2, <2>3, SendQuiet DEF sendVars
  <2>4. CASE CancelHandled(e) /\ send' # send
    <3>1. /\ e.kind = "cancel" /\ send # NoSend /\ send.n = e.n
          /\ send' = [send EXCEPT !.byPeer = TRUE, !.token = TRUE]
      BY <2>4 DEF CancelHandled, HandleCancelReceived
    <3>2. peer = "over"
      BY <2>2, <3>1 DEF SendInv, CancelNews
    <3>3. /\ send' \in [n : 0..world.sends, sid : BOOLEAN, token : BOOLEAN, byPeer : BOOLEAN]
          /\ send'.n = send.n
      BY <3>1 DEF SendInv, SendType
    <3> QED
      BY <2>2, <3>1, <3>2, <3>3, SendMarked
  <2> QED
    BY <2>1, <2>3, <2>4
<1>6. CASE ServerStep
  <2>1. UNCHANGED <<world, sendVars>>
    BY <1>6, ServerFrame
  <2>2. left'.sends = left.sends
    BY <1>6, ServerFrame, ArriveDoes
  <2>3. ASSUME NEW x \in Events(world), x.kind # "cancel", serverRx' = Append(serverRx, x)
        PROVE  \A e \in Items(serverRx') : e \in Items(serverRx) \/ e.kind # "cancel"
    BY <2>3, EventAdded
  <2>4. \A e \in Items(serverRx') : e \in Items(serverRx) \/ e.kind # "cancel"
    <3>1. CASE Arrive
      BY <2>3, <3>1, ArriveDoes
    <3>2. CASE SendEnding
      BY <2>3, <3>2, SendEndingDoes
    <3>3. CASE AskTarget
      BY <2>3, <3>3, AskTargetDoes
    <3>4. CASE \/ SenderAborts \/ SenderCancels \/ ReadDecision \/ StartUpload \/ DropUpload
               \/ FinishWrite \/ FailUpload \/ CancelSession \/ ServerStops
      <4>1. serverRx' = serverRx
        BY <3>4 DEF SenderAborts, SenderCancels, ReadDecision, StartUpload, DropUpload, FinishWrite,
                    FailUpload, CancelSession, ServerStops
      <4> QED
        BY <4>1
    <3> QED
      BY <1>6, <3>1, <3>2, <3>3, <3>4 DEF ServerStep
  <2> QED
    BY <2>1, <2>2, <2>4, SendQuiet
<1>7. CASE \/ ReceiveFileResult \/ HandleDiscovery \/ StartServer \/ Tick
           \/ AddDevice \/ UNCHANGED vars
  <2>1. UNCHANGED <<sendVars, world, left, serverRx>>
    BY <1>7 DEF ReceiveFileResult, HandleDiscovery, StartServer, Tick, AddDevice, FindOnly, netVars, vars
  <2> QED
    BY <2>1, SendQuiet
<1>8. CASE Discover \/ Start \/ StartFails
  <2>1. /\ UNCHANGED <<sendVars, world, serverRx>>
        /\ \/ left' = [left EXCEPT !.seen = @ - 1]
           \/ left' = [left EXCEPT !.lives = @ - 1]
    BY <1>8 DEF Discover, Start, StartFails, FindOnly, netVars
  <2>2. left'.sends = left.sends
    BY <2>1, LeftDoes
  <2> QED
    BY <2>1, <2>2, SendQuiet
<1>9. CASE Exit
  <2>1. /\ send' = NoSend /\ task' = "none" /\ unaware' = (peer = "active")
        /\ peer' = IF peer = "asked" THEN "refused" ELSE peer
        /\ serverRx' = <<>> /\ sendRx' = <<>> /\ UNCHANGED <<world, left>>
    BY <1>9 DEF Exit
  <2>2. SendType'
    <3>1. world.sends \in Nat
      BY WorldFacts DEF AppType
    <3> QED
      BY <2>1, <3>1 DEF SendInv, SendType, NoSend
  <2>3. sendRx' \in SendEvents'
    BY <2>1 DEF SendEvents
  <2>4. CancelNews'
    BY <2>1 DEF CancelNews, Items
  <2>5. peer' # "asked" /\ (peer' = "active" => unaware') /\ ~send'.byPeer
    BY <2>1 DEF SendInv, SendType, NoSend
  <2> QED
    BY <2>1, <2>2, <2>3, <2>4, <2>5 DEF SendInv
<1> QED
  BY <1>2, <1>3, <1>4, <1>5, <1>6, <1>7, <1>8, <1>9, SendStepKeeps, SendEventKeeps DEF Next, Handle, Press

-----------------------------------------------------------------------------
(* The disk and the discovered devices.                                    *)

\* Each set of numbers has a least one.
LEMMA Smallest ==
    ASSUME NEW S, S \subseteq Nat, S # {}
    PROVE  \E x \in S : \A y \in S : x <= y
<1> DEFINE R == {p \in Nat \X Nat : p[1] < p[2]}
<1>1. IsWellFoundedOn(R, Nat)
  BY NatLessThanWellFounded DEF OpToRel
<1>2. PICK x \in S : \A y \in S : ~(<<y, x>> \in R)
  <2> HIDE DEF R
  <2> QED
    BY <1>1, WFMin
<1>3. ASSUME NEW y \in S PROVE x <= y
  <2>1. x \in Nat /\ y \in Nat
    OBVIOUS
  <2>2. <<y, x>> \in Nat \X Nat /\ <<y, x>>[1] = y /\ <<y, x>>[2] = x
    BY <2>1
  <2>3. ~(y < x)
    BY <1>2, <2>2
  <2> QED
    BY <2>1, <2>3
<1> QED
  BY <1>3

\* Hotkeys: a new device gets a free one, or none.
HotkeyInv ==
    /\ slots \in [DOMAIN slots -> 0..MaxSlot] /\ DOMAIN slots \subseteq Devices
    /\ \A d, e \in DOMAIN slots : slots[d] = slots[e] /\ slots[d] # 0 => d = e

LEMMA AssignDoes ==
    ASSUME HotkeyInv, NEW d \in Devices, slots' = Assign(d)
    PROVE  /\ HotkeyInv'
           /\ \A x \in DOMAIN slots : x \in DOMAIN slots' /\ slots'[x] = slots[x]
<1>1. CASE d \in DOMAIN slots
  <2>1. slots' = slots
    BY <1>1, Zenon DEF Assign
  <2> QED
    BY <2>1 DEF HotkeyInv
<1>2. CASE d \notin DOMAIN slots
  <2> DEFINE free == (1..MaxSlot) \ {slots[x] : x \in DOMAIN slots}
             slot == IF free = {} THEN 0 ELSE CHOOSE i \in free : \A j \in free : i <= j
  <2>1. slots' = [x \in DOMAIN slots \cup {d} |-> IF x = d THEN slot ELSE slots[x]]
    BY <1>2, Zenon DEF Assign
  <2>2. MaxSlot \in Nat /\ free \in SUBSET Nat
    BY ConstantsAssumption
  <2>3. slot = 0 \/ slot \in free
    <3> HIDE DEF free
    <3>1. CASE free = {}
      BY <3>1
    <3>2. CASE free # {}
      <4>1. \E i \in free : \A j \in free : i <= j
        BY <2>2, <3>2, Smallest
      <4> QED
        BY <3>2, <4>1, Zenon
    <3> QED
      BY <3>1, <3>2
  <2>4. slot \in 0..MaxSlot /\ (slot # 0 => \A x \in DOMAIN slots : slots[x] # slot)
    <3>1. 0 \in 0..MaxSlot /\ \A i \in free : i \in 0..MaxSlot /\ \A x \in DOMAIN slots : slots[x] # i
      BY <2>2
    <3> HIDE DEF slot, free
    <3> QED
      BY <2>3, <3>1
  <2> HIDE DEF slot, free
  <2>5. /\ DOMAIN slots' = DOMAIN slots \cup {d} /\ slots'[d] = slot
        /\ \A x \in DOMAIN slots : slots'[x] = slots[x]
    BY <1>2, <2>1
  <2>6. slots' \in [DOMAIN slots' -> 0..MaxSlot] /\ DOMAIN slots' \subseteq Devices
    BY <2>1, <2>4, <2>5 DEF HotkeyInv
  <2>7. \A x, y \in DOMAIN slots' : slots'[x] = slots'[y] /\ slots'[x] # 0 => x = y
    BY <2>4, <2>5 DEF HotkeyInv
  <2> QED
    BY <2>5, <2>6, <2>7 DEF HotkeyInv
<1> QED
  BY <1>1, <1>2

\* The parts of the invariant of the disk.
DiskParts ==
    /\ storage!StorageType /\ PairedInSync /\ storage!FileWhole /\ storage!DiskCurrent
    /\ storage!IdentityKept

LEMMA DiskSplit ==
    DiskInv <=> /\ FindType /\ DiskParts /\ HotkeyInv
                /\ run = "off" => store = [d \in Devices |-> 0] /\ discoveryRx = <<>>
BY DEF DiskInv, FindType, DiskParts, HotkeyInv

\* What is stored, field by field.
LEMMA StorageFacts ==
    ASSUME storage!StorageType
    PROVE  /\ file.whole \in BOOLEAN /\ file.devices \in storage!Contents
           /\ file = [whole |-> file.whole, devices |-> file.devices]
           /\ identity = [state |-> identity.state, cert |-> identity.cert]
           /\ identity.cert \in Nat /\ made \in Nat
BY DEF storage!StorageType

\* A save leaves a whole file: the new one, or the old one and an error.
LEMMA SaveDoes ==
    ASSUME storage!StorageType, storage!FileWhole, NEW faulty, storage!Save(faulty),
           paired' \in storage!Contents
    PROVE  /\ file' \in [whole : BOOLEAN, devices : storage!Contents] /\ file'.whole
           /\ unsaved' \in BOOLEAN /\ (~unsaved' => file'.devices = paired')
<1>1. CASE file' = [whole |-> TRUE, devices |-> paired'] /\ unsaved' = FALSE
  <2>1. [whole |-> TRUE, devices |-> paired'] \in [whole : BOOLEAN, devices : storage!Contents]
    OBVIOUS
  <2> QED
    BY <1>1, <2>1
<1>2. CASE file' = file /\ unsaved' = TRUE
  BY <1>2 DEF storage!StorageType, storage!FileWhole
<1> QED
  BY <1>1, <1>2 DEF storage!Save, storage!Written, storage!NotWritten

\* A pairing is changed in memory, then saved or not.
LEMMA WriteKeeps ==
    ASSUME DiskParts, NEW d, NEW v, d \in Devices => v \in {0, 1} \cup Addresses,
           paired' = [paired EXCEPT ![d] = v],
           storage!Save(Faulty("disk")) \/ UNCHANGED <<file, unsaved, paired>>,
           UNCHANGED <<identity, device, made>>
    PROVE  /\ storage!StorageType' /\ storage!FileWhole' /\ storage!DiskCurrent' /\ storage!IdentityKept'
           /\ \A x \in Devices : paired'[x] = IF x = d THEN v ELSE paired[x]
<1>1. paired \in storage!Contents
  BY DEF DiskParts, storage!StorageType
<1>2. paired' \in storage!Contents
  BY <1>1 DEF storage!Contents, storage!Unpaired, storage!NoChannel
<1>3. /\ file' \in [whole : BOOLEAN, devices : storage!Contents] /\ file'.whole
      /\ unsaved' \in BOOLEAN /\ (device # 0 /\ ~unsaved' => file'.devices = paired')
  <2>1. CASE storage!Save(Faulty("disk"))
    BY <1>2, <2>1, SaveDoes DEF DiskParts
  <2>2. CASE UNCHANGED <<file, unsaved, paired>>
    BY <2>2 DEF DiskParts, storage!StorageType, storage!FileWhole, storage!DiskCurrent
  <2> QED
    BY <2>1, <2>2
<1>4. storage!StorageType' /\ storage!FileWhole' /\ storage!DiskCurrent' /\ storage!IdentityKept'
  BY <1>2, <1>3 DEF DiskParts, storage!StorageType, storage!FileWhole, storage!DiskCurrent,
                    storage!IdentityKept
<1>5. \A x \in Devices : paired'[x] = IF x = d THEN v ELSE paired[x]
  BY <1>1 DEF storage!Contents
<1> QED
  BY <1>4, <1>5

\* A changed pairing is as discovery knows the device.
LEMMA PairKeeps ==
    ASSUME FindType, DiskParts, PairStep, UNCHANGED <<store, discoveryRx, missed>>
    PROVE  DiskParts'
<1>1. CASE UNCHANGED diskVars
  BY <1>1 DEF DiskParts, PairedInSync, diskVars, storage!StorageType, storage!FileWhole,
              storage!DiskCurrent, storage!IdentityKept, storage!Paired
<1>2. paired \in storage!Contents /\ store \in [Devices -> {0} \cup Addresses]
  BY DEF DiskParts, storage!StorageType, FindType
<1>3. ASSUME NEW d, NEW v, d \in Devices => v \in {0, 1} \cup Addresses,
             d \in Devices => v = 0 \/ v = store[d] \/ store[d] = 0,
             paired' = [paired EXCEPT ![d] = v],
             storage!Save(Faulty("disk")) \/ UNCHANGED <<file, unsaved, paired>>,
             UNCHANGED <<identity, device, made>>
      PROVE  DiskParts'
  <2>1. /\ storage!StorageType' /\ storage!FileWhole' /\ storage!DiskCurrent' /\ storage!IdentityKept'
        /\ \A x \in Devices : paired'[x] = IF x = d THEN v ELSE paired[x]
    BY <1>3, WriteKeeps
  <2>2. PairedInSync'
    BY <1>3, <2>1 DEF DiskParts, PairedInSync, storage!Paired, storage!Unpaired
  <2> QED
    BY <2>1, <2>2 DEF DiskParts
<1>4. ASSUME NEW d, storage!Insert(d, store[d], Faulty("disk")) PROVE DiskParts'
  <2> DEFINE v == IF store[d] = 0 THEN 1 ELSE store[d]
  <2>1. /\ paired' = [paired EXCEPT ![d] = v] /\ storage!Save(Faulty("disk"))
        /\ UNCHANGED <<identity, device, made>>
    BY <1>4 DEF storage!Insert, storage!NoChannel
  <2>2. d \in Devices => v \in {0, 1} \cup Addresses /\ (v = 0 \/ v = store[d] \/ store[d] = 0)
    BY <1>2
  <2> HIDE DEF v
  <2> QED
    BY <1>3, <2>1, <2>2
<1>5. ASSUME NEW d, storage!Remove(d, Faulty("disk")) PROVE DiskParts'
  <2>1. /\ paired' = [paired EXCEPT ![d] = 0]
        /\ storage!Save(Faulty("disk")) \/ (paired[d] = 0 /\ UNCHANGED <<file, unsaved>>)
        /\ UNCHANGED <<identity, device, made>>
    BY <1>5 DEF storage!Remove, storage!Unpaired, storage!Paired
  <2>2. 0 \in {0, 1} \cup Addresses
    OBVIOUS
  <2> DEFINE v == 0
  <2>3. /\ v \in {0, 1} \cup Addresses /\ v = 0 /\ paired' = [paired EXCEPT ![d] = v]
    BY <2>1, <2>2
  <2>4. storage!Save(Faulty("disk")) \/ UNCHANGED <<file, unsaved, paired>>
    BY <1>2, <2>1 DEF storage!Contents
  <2> HIDE DEF v
  <2> QED
    BY <1>3, <2>1, <2>3, <2>4
<1> QED
  BY <1>1, <1>4, <1>5 DEF PairStep

\* A device that is confirmed is on its way to the pairings, or was missed.
LEMMA ConfirmKeeps ==
    ASSUME FindType, DiskParts, NEW d \in Devices, NEW address \in Addresses, Confirm(d, address),
           UNCHANGED diskVars
    PROVE  /\ store' \in [Devices -> {0} \cup Addresses]
           /\ discoveryRx' \in Seq([new : BOOLEAN, dev : Devices]) /\ missed' \subseteq Devices
           /\ DiskParts'
<1> DEFINE x == [new |-> store[d] = 0, dev |-> d]
<1>1. /\ store' = [store EXCEPT ![d] = address]
      /\ \/ discoveryRx' = Append(discoveryRx, x) /\ missed' = missed
         \/ missed' = missed \cup {d} /\ discoveryRx' = discoveryRx
  BY DEF Confirm
<1>2. x \in [new : BOOLEAN, dev : Devices] /\ x.dev = d
  <2>1. (store[d] = 0) \in BOOLEAN
    OBVIOUS
  <2> QED
    BY <2>1
<1> HIDE DEF x
<1>3. /\ discoveryRx' \in Seq([new : BOOLEAN, dev : Devices])
      /\ Items(discoveryRx) \subseteq Items(discoveryRx') /\ missed \subseteq missed'
      /\ x \in Items(discoveryRx') \/ d \in missed'
      /\ missed' \subseteq Devices
  <2> DEFINE S == [new : BOOLEAN, dev : Devices]
  <2>1. discoveryRx \in Seq(S) /\ x \in S
    BY <1>2 DEF FindType
  <2> HIDE DEF S
  <2>2. missed \subseteq Devices
    BY DEF FindType
  <2>3. CASE discoveryRx' = Append(discoveryRx, x) /\ missed' = missed
    <3>1. discoveryRx' \in Seq(S) /\ Items(discoveryRx') = Items(discoveryRx) \cup {x}
      BY <2>1, <2>3, AnyQueue
    <3> QED
      BY <2>2, <2>3, <3>1 DEF S
  <2>4. CASE missed' = missed \cup {d} /\ discoveryRx' = discoveryRx
    BY <2>1, <2>2, <2>4 DEF S
  <2> QED
    BY <1>1, <2>3, <2>4
<1>4. store' \in [Devices -> {0} \cup Addresses] /\ \A y \in Devices : y # d => store'[y] = store[y]
  BY <1>1 DEF FindType
<1>5. PairedInSync'
  <2> SUFFICES ASSUME NEW y \in Devices, store'[y] # 0, storage!Paired(y)', paired'[y] # store'[y]
               PROVE  (\E i \in DOMAIN discoveryRx' : discoveryRx'[i].dev = y) \/ y \in missed'
    BY DEF PairedInSync
  <2>1. (\E z \in Items(discoveryRx') : z.dev = y) \/ y \in missed'
    <3>1. CASE y = d
      BY <1>2, <1>3, <3>1
    <3>2. CASE y # d
      <4>1. store[y] # 0 /\ storage!Paired(y) /\ paired[y] # store[y]
        BY <1>4, <3>2 DEF storage!Paired, diskVars
      <4>2. (\E i \in DOMAIN discoveryRx : discoveryRx[i].dev = y) \/ y \in missed
        BY <4>1 DEF DiskParts, PairedInSync
      <4>3. (\E z \in Items(discoveryRx) : z.dev = y) \/ y \in missed
        BY <4>2 DEF Items
      <4> QED
        BY <1>3, <4>3
    <3> QED
      BY <3>1, <3>2
  <2> QED
    BY <2>1 DEF Items
<1> QED
  BY <1>3, <1>4, <1>5 DEF DiskParts, diskVars, storage!StorageType, storage!FileWhole,
                          storage!DiskCurrent, storage!IdentityKept

\* Steps that touch the pairings at most, and do not end a run.
LEMMA DiskQuiet ==
    ASSUME DiskInv, UNCHANGED <<store, discoveryRx, slots, missed>>, adding' \subseteq Devices, PairStep,
           run' = "off" => run = "off"
    PROVE  DiskInv'
<1>1. FindType /\ DiskParts /\ HotkeyInv
  BY DiskSplit
<1>2. DiskParts'
  BY <1>1, PairKeeps
<1>3. FindType' /\ HotkeyInv'
  BY <1>1 DEF FindType, HotkeyInv
<1> QED
  BY <1>2, <1>3 DEF DiskInv, DiskParts, HotkeyInv

\* An event of discovery: the pairing of its device is as discovery knows it.
LEMMA HandleDiscoveryKeeps ==
    ASSUME DiskInv, HandleDiscovery
    PROVE  DiskInv'
<1> DEFINE e == Head(discoveryRx)
           S == [new : BOOLEAN, dev : Devices]
<1>1. FindType /\ DiskParts /\ HotkeyInv
  BY DiskSplit
<1>2. /\ run = "on" /\ discoveryRx # <<>> /\ discoveryRx' = Tail(discoveryRx)
      /\ storage!Update(e.dev, store[e.dev], Faulty("disk"))
      /\ slots' = IF e.new THEN Assign(e.dev) ELSE slots
      /\ missed' = missed \ {e.dev}
      /\ UNCHANGED <<store, adding, run>>
  BY DEF HandleDiscovery, Ready, Refreshes, FindOnly
<1>3. /\ e \in S /\ discoveryRx' \in Seq(S)
      /\ Items(discoveryRx) = Items(discoveryRx') \cup {e}
  <2>1. discoveryRx \in Seq(S)
    BY <1>1 DEF FindType
  <2> HIDE DEF S
  <2> QED
    BY <1>2, <2>1, AnyQueue
<1>4. e.dev \in Devices
  BY <1>3
<1> DEFINE d == e.dev
<1> HIDE DEF e
<1>5. HotkeyInv'
  <2>1. CASE e.new
    BY <1>1, <1>2, <1>4, <2>1, AssignDoes
  <2>2. CASE ~e.new
    BY <1>1, <1>2, <2>2 DEF HotkeyInv
  <2> QED
    BY <2>1, <2>2
<1>6. FindType'
  BY <1>1, <1>2, <1>3, <1>5 DEF FindType, HotkeyInv
<1>7. /\ storage!StorageType' /\ storage!FileWhole' /\ storage!DiskCurrent' /\ storage!IdentityKept'
      /\ \A x \in Devices : x # d => paired'[x] = paired[x]
      /\ paired'[d] = store[d] \/ (paired'[d] = paired[d] /\ ~storage!Paired(d))
  <2>1. CASE storage!Paired(d) /\ paired[d] # store[d]
    <3> DEFINE v == store[d]
    <3>1. v \in {0, 1} \cup Addresses
      BY <1>1, <1>4 DEF FindType
    <3>2. /\ paired' = [paired EXCEPT ![d] = v] /\ storage!Save(Faulty("disk"))
          /\ UNCHANGED <<identity, device, made>>
      BY <1>2, <2>1 DEF storage!Update
    <3> HIDE DEF v
    <3>3. /\ storage!StorageType' /\ storage!FileWhole' /\ storage!DiskCurrent' /\ storage!IdentityKept'
          /\ \A x \in Devices : paired'[x] = IF x = d THEN v ELSE paired[x]
      BY <1>1, <3>1, <3>2, WriteKeeps
    <3> QED
      BY <1>4, <3>3 DEF v
  <2>2. CASE ~(storage!Paired(d) /\ paired[d] # store[d])
    <3>1. UNCHANGED <<file, paired, identity, device, made, unsaved>>
      BY <1>2, <2>2 DEF storage!Update, storage!storageVars
    <3> QED
      BY <1>1, <2>2, <3>1 DEF DiskParts, storage!StorageType, storage!FileWhole,
                              storage!DiskCurrent, storage!IdentityKept
  <2> QED
    BY <2>1, <2>2
<1>8. PairedInSync'
  <2> SUFFICES ASSUME NEW y \in Devices, store[y] # 0, paired'[y] # 0, paired'[y] # store[y]
               PROVE  (\E i \in DOMAIN discoveryRx' : discoveryRx'[i].dev = y) \/ y \in missed'
    BY <1>2 DEF PairedInSync, storage!Paired, storage!Unpaired
  <2>1. y # d
    BY <1>7 DEF storage!Paired, storage!Unpaired
  <2>2. storage!Paired(y) /\ paired[y] # store[y]
    BY <1>7, <2>1 DEF storage!Paired, storage!Unpaired
  <2>3. (\E i \in DOMAIN discoveryRx : discoveryRx[i].dev = y) \/ y \in missed
    BY <1>1, <2>2 DEF DiskParts, PairedInSync
  <2>4. (\E z \in Items(discoveryRx) : z.dev = y) \/ y \in missed
    BY <2>3 DEF Items
  <2>5. (\E z \in Items(discoveryRx') : z.dev = y) \/ y \in missed'
    BY <1>2, <1>3, <2>1, <2>4
  <2> QED
    BY <2>5 DEF Items
<1>9. run' # "off"
  BY <1>2
<1> QED
  BY <1>5, <1>6, <1>7, <1>8, <1>9 DEF DiskInv, HotkeyInv

\* Discovery confirms a device.
LEMMA DiscoverKeeps ==
    ASSUME DiskInv, Discover \/ AddDevice
    PROVE  DiskInv'
<1>1. FindType /\ DiskParts /\ HotkeyInv
  BY DiskSplit
<1>2. /\ run = "on" /\ UNCHANGED <<run, slots, diskVars>> /\ adding' \subseteq Devices
      /\ \E d \in Devices, address \in Addresses : Confirm(d, address)
  <2>1. CASE Discover
    BY <1>1, <2>1 DEF Discover, FindOnly, FindType
  <2>2. CASE AddDevice
    <3>1. PICK d \in adding : /\ adding' = adding \ {d}
                              /\ \E address \in Addresses : Confirm(d, address)
      BY <2>2 DEF AddDevice
    <3> QED
      BY <1>1, <2>2, <3>1 DEF AddDevice, FindOnly, FindType
  <2> QED
    BY <2>1, <2>2
<1>3. PICK d \in Devices, address \in Addresses : Confirm(d, address)
  BY <1>2
<1>4. /\ store' \in [Devices -> {0} \cup Addresses]
      /\ discoveryRx' \in Seq([new : BOOLEAN, dev : Devices]) /\ missed' \subseteq Devices
      /\ DiskParts'
  BY <1>1, <1>2, <1>3, ConfirmKeeps
<1>5. FindType' /\ HotkeyInv'
  BY <1>1, <1>2, <1>4 DEF FindType, HotkeyInv
<1>6. run' # "off"
  BY <1>2
<1> QED
  BY <1>4, <1>5, <1>6 DEF DiskInv, DiskParts, HotkeyInv

\* A run begins with the files of the last one, and no device is discovered.
LEMMA StartKeepsDisk ==
    ASSUME DiskInv, Start
    PROVE  DiskInv'
<1>1. FindType /\ DiskParts /\ HotkeyInv
  BY DiskSplit
<1>2. /\ run = "off" /\ run' = "on" /\ UNCHANGED findVars
      /\ file.whole /\ paired' = file.devices /\ file' = file /\ unsaved' = FALSE
      /\ storage!Generate \/ storage!Reuse
  BY DEF Start, storage!Load, storage!LoadPaired, storage!LoadOrGenerate
<1>3. FindType' /\ HotkeyInv'
  BY <1>1, <1>2 DEF FindType, HotkeyInv, findVars
<1>4. storage!IdentityKept' /\ identity' \in [state : {"absent", "cut", "whole"}, cert : Nat]
      /\ device' \in Nat /\ made' \in Nat
  <2>1. identity \in [state : {"absent", "cut", "whole"}, cert : Nat] /\ made \in Nat
    BY <1>1 DEF DiskParts, storage!StorageType
  <2>2. CASE storage!Generate
    <3>1. made' = made + 1 /\ identity' = [state |-> "whole", cert |-> made'] /\ device' = made'
      BY <2>2 DEF storage!Generate
    <3> QED
      BY <2>1, <3>1 DEF storage!IdentityKept
  <2>3. CASE storage!Reuse
    <3>1. identity.state = "whole" /\ device' = identity.cert /\ UNCHANGED <<identity, made>>
      BY <2>3 DEF storage!Reuse
    <3>2. identity = [state |-> "whole", cert |-> identity.cert]
      BY <2>1, <3>1
    <3> QED
      BY <2>1, <3>1, <3>2 DEF storage!IdentityKept
  <2> QED
    BY <1>2, <2>2, <2>3
<1>5. storage!StorageType' /\ storage!FileWhole' /\ storage!DiskCurrent'
  BY <1>1, <1>2, <1>4 DEF DiskParts, storage!StorageType, storage!FileWhole, storage!DiskCurrent
<1>6. PairedInSync'
  <2>1. store' = [d \in Devices |-> 0]
    BY <1>2 DEF DiskInv, findVars
  <2> QED
    BY <2>1 DEF PairedInSync
<1>7. run' # "off"
  BY <1>2
<1> QED
  BY <1>3, <1>4, <1>5, <1>6, <1>7 DEF DiskInv, HotkeyInv

\* A run that fails leaves no identity, or a part of one.
LEMMA StartFailsKeepsDisk ==
    ASSUME DiskInv, StartFails
    PROVE  DiskInv'
<1>1. FindType /\ DiskParts /\ HotkeyInv
  BY DiskSplit
<1>2. /\ UNCHANGED <<run, store, adding, discoveryRx, slots, missed, file, paired, device, made, unsaved>>
      /\ identity.state # "whole"
      /\ identity' \in {[state |-> "cut", cert |-> 0], [state |-> "absent", cert |-> 0], identity}
  BY DEF StartFails, findVars, storage!LoadDies, storage!DeleteIdentity
<1>3. device = 0
  BY <1>1, <1>2 DEF DiskParts, storage!IdentityKept
<1>4. storage!StorageType' /\ storage!FileWhole' /\ storage!DiskCurrent' /\ storage!IdentityKept'
  BY <1>1, <1>2, <1>3 DEF DiskParts, storage!StorageType, storage!FileWhole, storage!DiskCurrent,
                          storage!IdentityKept
<1>5. PairedInSync'
  BY <1>1, <1>2 DEF DiskParts, PairedInSync, storage!Paired
<1>6. FindType' /\ HotkeyInv'
  BY <1>1, <1>2 DEF FindType, HotkeyInv
<1> QED
  BY <1>2, <1>4, <1>5, <1>6 DEF DiskInv, HotkeyInv

\* Of a run that ends only the files are left.
LEMMA ExitKeepsDisk ==
    ASSUME DiskInv, Exit
    PROVE  DiskInv'
<1>1. FindType /\ DiskParts /\ HotkeyInv
  BY DiskSplit
<1>2. /\ store' = [d \in Devices |-> 0] /\ adding' = {} /\ discoveryRx' = <<>>
      /\ slots' = [d \in {} |-> 0] /\ missed' = {}
      /\ paired' = [d \in Devices |-> 0] /\ device' = 0 /\ unsaved' = FALSE
      /\ UNCHANGED <<file, identity, made>>
  BY DEF Exit, storage!Unload, storage!Unpaired
<1>3. /\ [d \in Devices |-> 0] \in [Devices -> {0} \cup Addresses]
      /\ [d \in Devices |-> 0] \in storage!Contents
      /\ <<>> \in Seq([new : BOOLEAN, dev : Devices])
  BY DEF storage!Contents, storage!Unpaired
<1>4. DOMAIN slots' = {}
  BY <1>2
<1>5. FindType'
  BY <1>2, <1>3, <1>4 DEF FindType
<1>6. storage!StorageType' /\ storage!FileWhole' /\ storage!DiskCurrent' /\ storage!IdentityKept'
  BY <1>1, <1>2, <1>3 DEF DiskParts, storage!StorageType, storage!FileWhole, storage!DiskCurrent,
                          storage!IdentityKept
<1>7. PairedInSync'
  BY <1>2 DEF PairedInSync
<1> QED
  BY <1>2, <1>4, <1>5, <1>6, <1>7 DEF DiskInv

\* Every step keeps what is known of the disk and the devices.
LEMMA DiskKept ==
    ASSUME AppType, NetType, ScreenInv, DiskInv, [Next]_vars
    PROVE  DiskInv'
<1>1. modal = NoModal \/ Shows(modal)
  BY DEF ScreenInv
<1>2. adding \subseteq Devices
  BY DEF DiskInv, FindType
<1>3. UNCHANGED diskVars => PairStep
  BY DEF PairStep
<1>4. CASE PressChord \/ PressDevices \/ PressHotkey \/ PressInPicker \/ PressInList
  BY <1>1, <1>2, <1>4, KeysDo, DiskQuiet DEF KeyFrame, findVars
<1>5. CASE PressAnswer
  BY <1>2, <1>5, AnswerDoes, DiskQuiet DEF findVars
<1>6. CASE CtrlC
  BY <1>1, <1>2, <1>3, <1>6, CtrlCDoes, DiskQuiet DEF findVars
<1>7. CASE HandleServerEvent
  <2> DEFINE e == Head(serverRx)
  <2>1. /\ EventFrame
        /\ \/ CancelHandled(e)
           \/ e.kind = "prepare" /\ HandlePrepare(e) /\ UNCHANGED send
           \/ e.kind = "upload" /\ HandleUpload(e.up) /\ UNCHANGED send
           \/ e.kind = "end" /\ HandleSessionEnd(e.id, e.reason) /\ UNCHANGED send
           \/ e.kind = "aborted" /\ HandleAborted(e.id) /\ UNCHANGED send
    BY <1>7, EventDoes
  <2>2. adding' \subseteq Devices
    <3>1. CASE \/ CancelHandled(e) \/ HandleUpload(e.up) \/ HandleSessionEnd(e.id, e.reason)
               \/ HandleAborted(e.id)
      BY <1>2, <3>1 DEF CancelHandled, HandleUpload, HandleSessionEnd, HandleAborted
    <3>2. CASE e.kind = "prepare" /\ HandlePrepare(e)
      <4>1. e \in Events(world)
        BY <2>1 DEF EventFrame
      <4> HIDE DEF e
      <4>2. adding' = adding \cup {Request(e.id).claims} /\ Request(e.id).claims \in Devices
        BY <3>2, <4>1, PrepareDoes
      <4> QED
        BY <1>2, <4>2
    <3> QED
      BY <2>1, <3>1, <3>2
  <2> QED
    BY <1>3, <2>1, <2>2, DiskQuiet DEF EventFrame
<1>8. CASE \/ ReceiveFileResult \/ HandleSendEvent \/ Tick \/ StartServer \/ ServerStep \/ SendStep
           \/ UNCHANGED vars
  <2>1. UNCHANGED <<findVars, diskVars>> /\ (run' = run \/ run' = "quit")
    <3>1. CASE ServerStep
      BY <3>1, ServerFrame
    <3>2. CASE SendStep
      BY <3>2 DEF SendStep, PrepareEnds, Announce, UploadFiles, Notify, EndSend, PeerAnswers,
                  PeerCancels, SendOnly
    <3> QED
      BY <1>8, <3>1, <3>2 DEF ReceiveFileResult, HandleSendEvent, Tick, StartServer, Quit, vars
  <2> QED
    BY <1>2, <1>3, <2>1, DiskQuiet DEF findVars
<1> QED
  BY <1>4, <1>5, <1>6, <1>7, <1>8, HandleDiscoveryKeeps, DiscoverKeeps, StartKeepsDisk,
     StartFailsKeepsDisk, ExitKeepsDisk DEF Next, Handle, Press

-----------------------------------------------------------------------------
(* The invariant, and what follows from it.                                *)

LEMMA CliInit == Init => CliInv
<1> SUFFICES ASSUME Init PROVE CliInv
  OBVIOUS
<1>1. world \in Worlds /\ world.sends \in Nat /\ world.presses \in Nat /\ world.seen \in Nat
      /\ world.lives \in Nat /\ Len(world.requests) \in Nat
      /\ world.paired \in [Devices -> {0, 1} \cup Addresses]
  BY WorldFacts DEF Init
<1>2. AppType
  <2>1. left = [keys |-> world.presses, sends |-> world.sends, seen |-> world.seen,
                lives |-> world.lives, came |-> 0]
    BY DEF Init
  <2>2. left \in Bounds(world)
    BY <1>1, <2>1 DEF Bounds
  <2>3. /\ run = "off" /\ loop = Idle /\ chord = FALSE /\ web = "off" /\ pending = None
        /\ receive = None /\ accepted = {}
    BY DEF Init
  <2> QED
    BY <1>1, <2>2, <2>3 DEF AppType, Idle, None, Modes
<1>3. NetType
  <2>1. /\ server = Off /\ ending = {} /\ serverRx = <<>> /\ asking = {} /\ writes = {} /\ results = {}
        /\ cancels = {}
    BY DEF Init
  <2>2. Off \in Servers(world) /\ <<>> \in Seq(Events(world))
    BY DEF Off, Servers, Modes
  <2> QED
    BY <2>1, <2>2 DEF NetType
<1>4. DiskInv
  <2>1. /\ store = [d \in Devices |-> 0] /\ adding = {} /\ discoveryRx = <<>>
        /\ slots = [d \in {} |-> 0] /\ missed = {}
        /\ file = [whole |-> TRUE, devices |-> world.paired]
        /\ paired = [d \in Devices |-> 0] /\ identity = [state |-> "absent", cert |-> 0]
        /\ device = 0 /\ made = 0 /\ unsaved = FALSE
    BY DEF Init, storage!Install, storage!Unpaired
  <2>2. /\ [d \in Devices |-> 0] \in [Devices -> {0} \cup Addresses]
        /\ [d \in Devices |-> 0] \in storage!Contents /\ world.paired \in storage!Contents
        /\ <<>> \in Seq([new : BOOLEAN, dev : Devices])
    BY <1>1 DEF storage!Contents, storage!Unpaired, storage!NoChannel
  <2>3. DOMAIN slots = {}
    BY <2>1
  <2>4. FindType
    BY <2>1, <2>2, <2>3 DEF FindType
  <2>5. storage!StorageType /\ storage!FileWhole /\ storage!DiskCurrent /\ storage!IdentityKept
    BY <2>1, <2>2 DEF storage!StorageType, storage!FileWhole, storage!DiskCurrent, storage!IdentityKept
  <2>6. PairedInSync
    BY <2>1 DEF PairedInSync
  <2> QED
    BY <2>1, <2>3, <2>4, <2>5, <2>6 DEF DiskInv
<1>5. ScreenInv
  <2>1. ui = Screen /\ modal = NoModal /\ pending = None
    BY DEF Init
  <2> QED
    BY <2>1 DEF Screen, ScreenInv, ScreenOwned
<1>6. SendInv
  <2>1. /\ send = NoSend /\ task = "none" /\ peer = "none" /\ unaware = FALSE /\ sendRx = <<>>
        /\ serverRx = <<>>
    BY DEF Init
  <2>2. SendType
    <3>1. 0 \in 0..world.sends
      BY <1>1
    <3>2. NoSend \in [n : 0..world.sends, sid : BOOLEAN, token : BOOLEAN, byPeer : BOOLEAN]
      BY <3>1 DEF NoSend
    <3> QED
      BY <2>1, <3>2 DEF SendType
  <2>3. sendRx \in SendEvents
    BY <2>1 DEF SendEvents
  <2>4. CancelNews
    BY <2>1 DEF CancelNews, Items
  <2> QED
    BY <2>1, <2>2, <2>3, <2>4 DEF SendInv, NoSend
<1>7. SessionInv
  <2>1. server = Off /\ accepted = {} /\ cancels = {} /\ receive = None
    BY DEF Init
  <2>2. ~Off.up /\ Off.slot = None
    BY DEF Off
  <2> QED
    BY <2>1, <2>2 DEF SessionInv, SlotInv, AcceptInv, BusyInv, ReceiveTracked
<1> QED
  BY <1>2, <1>3, <1>4, <1>5, <1>6, <1>7 DEF CliInv

LEMMA CliNext == CliInv /\ [Next]_vars => CliInv'
<1> SUFFICES ASSUME CliInv, [Next]_vars PROVE CliInv'
  OBVIOUS
<1>1. AppType /\ NetType /\ DiskInv /\ ScreenInv /\ SendInv /\ SessionInv /\ SendType
  BY DEF CliInv, SendInv
<1>2. AppType' /\ NetType' /\ SessionInv'
  BY <1>1, SessionsKept
<1>3. ScreenInv'
  BY <1>1, ScreenKept
<1>4. SendInv'
  BY <1>1, SendKept
<1>5. DiskInv'
  BY <1>1, DiskKept
<1> QED
  BY <1>2, <1>3, <1>4, <1>5 DEF CliInv

LEMMA CliInvariant == Spec => []CliInv
BY CliInit, CliNext, PTL DEF Spec

\* The state is well typed.
LEMMA CliTyped == CliInv => TypeOK
<1> SUFFICES ASSUME CliInv PROVE TypeOK
  OBVIOUS
<1>1. AppType /\ NetType /\ DiskInv /\ ScreenInv /\ SendType
  BY DEF CliInv, SendInv
<1>2. /\ world \in Worlds /\ run \in {"off", "on", "quit"} /\ chord \in BOOLEAN
      /\ web \in {"off", "share", "receive"}
      /\ loop.stage \in {"idle", "wait"} /\ loop.mode \in {"tls", "share", "receive"}
  BY <1>1 DEF AppType, Modes
<1>3. pending.id \in Ids(world) \cup {0} /\ receive.id \in Ids(world) \cup {0}
  BY <1>1 DEF AppType, ReceiveSessions, None
<1>4. modal.kind \in {"none", "list", "picker"}
  BY <1>1, ModalShapes DEF ScreenInv, NoModal, Shows
<1>5. send.n \in 0..world.sends
  BY <1>1 DEF SendType
<1>6. SlotType(server.slot)
  <2>1. CASE server.slot = None
    BY <2>1 DEF SlotType
  <2>2. CASE server.slot \in SessionSlots(world)
    <3> DEFINE s == server.slot
    <3>1. /\ s.id \in Ids(world)
          /\ s.phase \in {"waiting", "active"} /\ s.decision \in Decisions
          /\ s.files \in [FilesOf(world, s.id) -> Statuses]
          /\ s.tries \in [FilesOf(world, s.id) -> 0..Attempts]
      BY <1>2, <2>2, SlotFacts
    <3>2. Files(s.id) = FilesOf(world, s.id)
      BY <1>2, <3>1, RequestFacts
    <3> HIDE DEF s
    <3>3. SlotType(s)
      BY <3>1, <3>2 DEF SlotType, Decisions, Statuses
    <3> QED
      BY <3>3 DEF s
  <2> QED
    BY <1>1, <1>2, <2>1, <2>2, ServerFacts DEF NetType
<1>7. /\ store \in [Devices -> {0} \cup Addresses] /\ adding \subseteq Devices
      /\ missed \subseteq Devices
      /\ DOMAIN slots \subseteq Devices /\ (\A d \in DOMAIN slots : slots[d] \in 0..MaxSlot)
      /\ storage!StorageType
  BY <1>1 DEF DiskInv, FindType
<1> QED
  BY <1>1, <1>2, <1>3, <1>4, <1>5, <1>6, <1>7 DEF TypeOK, SendType

(* Whatever is pressed, arrives or fails, and in whichever order: the state *)
(* is well typed; nothing is received but from a paired sender, or, without *)
(* TLS, from one that claims to be paired, or after a key pressed in sight  *)
(* of the very prompt, or while a screen that could not be opened hides the *)
(* prompt or after it took it away; and a modal owns the screen, or the     *)
(* program is on the main one, or was left on such a screen (receive.rs,    *)
(* app/mod.rs, ui.rs, picker.rs, device_list.rs).                           *)
THEOREM ConsentHolds == Spec => []Consent
<1>1. CliInv => Consent
  <2> SUFFICES ASSUME CliInv PROVE Consent
    OBVIOUS
  <2>1. TypeOK
    BY CliTyped
  <2>2. Consented
    BY DEF CliInv, SessionInv, AcceptInv, SlotInv, WasAccepted, Consented, Consents
  <2>3. ScreenOwned
    BY DEF CliInv, ScreenInv
  <2> QED
    BY <2>1, <2>2, <2>3 DEF Consent
<1> QED
  BY <1>1, CliInvariant, PTL

(* A receive session of the program has its end on the way once the server  *)
(* has ended it, or it was lost: with its request, with the server, or with *)
(* the request that was to send the end.  A send lives as long as its task, *)
(* and longer only when that panicked; its receiver is told of the end      *)
(* unless the request was lost, was cancelled in flight, or the task        *)
(* panicked (app/receive.rs, app/send_task.rs, v2.rs).                      *)
THEOREM SessionsTrackedHolds == Spec => []SessionsTracked
<1>1. CliInv => SessionsTracked
  <2> SUFFICES ASSUME CliInv PROVE SessionsTracked
    OBVIOUS
  <2>1. ReceiveTracked
    BY DEF CliInv, SessionInv
  <2>2. SendInv
    BY DEF CliInv
  <2>3. SendTracked
    <3>1. sendRx \in {<<>>, <<"started">>} \/ (task = "none" /\ sendRx \in {<<>>, <<"ended">>, <<"started", "ended">>})
      BY <2>2 DEF SendInv, SendEvents, SendType
    <3>2. ASSUME NEW i \in DOMAIN sendRx, sendRx[i] = "ended"
          PROVE  i = Len(sendRx) /\ task = "none"
      <4>1. CASE sendRx = <<>>
        BY <3>2, <4>1
      <4>2. CASE sendRx = <<"started">>
        BY <3>2, <4>2
      <4>3. CASE sendRx = <<"ended">> /\ task = "none"
        BY <3>2, <4>3
      <4>4. CASE sendRx = <<"started", "ended">> /\ task = "none"
        BY <3>2, <4>4
      <4> QED
        BY <3>1, <4>1, <4>2, <4>3, <4>4
    <3> QED
      BY <2>2, <3>2 DEF SendInv, SendTracked
  <2>4. PeerInformed
    BY <2>2 DEF SendInv, PeerInformed
  <2> QED
    BY <2>1, <2>3, <2>4 DEF SessionsTracked
<1> QED
  BY <1>1, CliInvariant, PTL

(* Whatever write fails and whenever the program dies: the paired devices   *)
(* on disk can be read, and are those in memory unless a failed save was    *)
(* reported; those have the addresses discovery confirmed last, unless the  *)
(* event is on its way or was dropped by a full channel; and the identity a *)
(* run shows is the one on disk (storage/paired.rs, storage/identity.rs,    *)
(* app/discovery.rs, discovery/mod.rs).                                     *)
THEOREM KeptOnDiskHolds == Spec => []KeptOnDisk
<1>1. CliInv => KeptOnDisk
  BY DEF CliInv, DiskInv, KeptOnDisk
<1> QED
  BY <1>1, CliInvariant, PTL

(* While the program runs a hotkey stays with its device, and no two        *)
(* devices share one, also when there are more devices than hotkeys         *)
(* (app/slots.rs).                                                          *)
THEOREM HotkeysStableHolds == Spec => HotkeysStable
<1> DEFINE Stable ==
        run' = "on" /\ run = "on" =>
            /\ \A d \in DOMAIN slots : d \in DOMAIN slots' /\ slots'[d] = slots[d]
            /\ \A d, e \in DOMAIN slots' : slots'[d] = slots'[e] /\ slots'[d] # 0 => d = e
<1>1. ASSUME CliInv, CliInv', [Next]_vars PROVE [Stable]_vars
  <2> SUFFICES ASSUME Next, run = "on", run' = "on" PROVE Stable
    BY <1>1
  <2>1. AppType /\ NetType /\ DiskInv /\ (modal = NoModal \/ Shows(modal))
    BY <1>1 DEF CliInv, ScreenInv
  <2>2. \A d, e \in DOMAIN slots' : slots'[d] = slots'[e] /\ slots'[d] # 0 => d = e
    BY <1>1 DEF CliInv, DiskInv
  <2>3. CASE slots' = slots
    BY <2>2, <2>3
  <2>4. CASE HandleDiscovery
    <3> DEFINE S == [new : BOOLEAN, dev : Devices]
               x == Head(discoveryRx)
    <3>1. discoveryRx # <<>> /\ slots' = IF x.new THEN Assign(x.dev) ELSE slots
      BY <2>4 DEF HandleDiscovery
    <3>2. discoveryRx \in Seq(S) /\ HotkeyInv
      BY <2>1, DiskSplit DEF FindType
    <3>3. x \in S
      <4> HIDE DEF S
      <4> QED
        BY <3>1, <3>2, AnyQueue
    <3>4. x.dev \in Devices
      BY <3>3
    <3> HIDE DEF x
    <3>5. CASE slots' = Assign(x.dev)
      BY <2>2, <3>2, <3>4, <3>5, AssignDoes
    <3> QED
      BY <2>3, <3>1, <3>5
  <2>5. slots' = slots \/ HandleDiscovery
    <3>1. CASE PressChord \/ PressDevices \/ PressHotkey \/ PressInPicker \/ PressInList
      BY <2>1, <3>1, KeysDo DEF KeyFrame, findVars
    <3>2. CASE PressAnswer \/ CtrlC
      BY <2>1, <3>2, AnswerDoes, CtrlCDoes DEF findVars
    <3>3. CASE ServerStep
      BY <3>3, ServerFrame DEF findVars
    <3>4. CASE SendStep
      BY <3>4 DEF SendStep, PrepareEnds, Announce, UploadFiles, Notify, EndSend, PeerAnswers,
                  PeerCancels, SendOnly, findVars
    <3>5. CASE \/ HandleServerEvent \/ ReceiveFileResult \/ HandleSendEvent \/ Tick \/ StartServer
               \/ Discover \/ AddDevice \/ Start \/ StartFails \/ Exit
      BY <3>5 DEF HandleServerEvent, ReceiveFileResult, HandleSendEvent, Tick, StartServer,
                  Discover, AddDevice, Start, StartFails, Exit, findVars
    <3> QED
      BY <3>1, <3>2, <3>3, <3>4, <3>5 DEF Next, Handle, Press
  <2> QED
    BY <2>3, <2>4, <2>5
<1>2. Spec => [][Stable]_vars
  BY <1>1, CliInvariant, PTL DEF Spec
<1> QED
  BY <1>2 DEF HotkeysStable
=============================================================================
