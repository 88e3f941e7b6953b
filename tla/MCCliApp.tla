------------------------------- MODULE MCCliApp -------------------------------
(***************************************************************************)
(* Small worlds for the command line program: each lets some of its parts  *)
(* meet, with few keys.                                                     *)
(***************************************************************************)
EXTENDS CliApp

CONSTANTS a, b

MCAddresses == {2, 3}
File(name) == [name |-> name, to |-> ""]
Dir(name, to) == [name |-> name, to |-> to]
MCTree ==
    [root |-> <<Dir("sub", "sub"), File("x1"), File("y2")>>,
     sub |-> <<Dir("..", "root"), File("x3"), File("xy4")>>,
     flat |-> <<File("x1")>>]
MCParent == [root |-> "root", sub |-> "root", flat |-> "flat"]
MCQueries == <<{}, {"x1", "x3", "xy4"}, {"xy4"}>>

Quiet ==
    [preselected |-> FALSE, requests |-> <<>>, paired |-> [d \in {a, b} |-> 0],
     seen |-> 0, sends |-> 0, presses |-> 0, lives |-> 1, keys |-> {}, hotkeys |-> {},
     faults |-> {}, dir |-> "flat"]
From(d, n) == [from |-> d, claims |-> d, message |-> FALSE, files |-> n]
Message(d) == [From(d, 1) EXCEPT !.message = TRUE]
PairedWith(d) == [x \in {a, b} |-> IF x = d THEN 2 ELSE 0]

\* Two requests: prompts, pairing, cancelling.
Receiving == [Quiet EXCEPT !.requests = <<From(a, 1), From(a, 1)>>, !.presses = 2,
                  !.keys = {"y", "n", "p", "ctrl-c"}, !.faults = {"cancel"}]
\* Requests that are dropped at an await, after the session was accepted.
Dropping == [Quiet EXCEPT !.requests = <<From(a, 1), From(a, 1)>>, !.paired = PairedWith(a),
                 !.presses = 1, !.keys = {"ctrl-c"}, !.faults = {"cancel", "drop", "failed"}]
Retrying == [Quiet EXCEPT !.requests = <<From(a, 2)>>, !.paired = PairedWith(a), !.presses = 1,
                 !.keys = {"ctrl-c"}, !.faults = {"mismatch", "failed", "drop"}]
\* Two sends, cancelled by either side, over a network that fails.
Sending == [Quiet EXCEPT !.seen = 1, !.sends = 2, !.presses = 7, !.keys = {"enter", "esc", "ctrl-c"},
                !.hotkeys = {1}, !.faults = {"network", "cancel", "unreadable", "screen"}]
Preselected == [Quiet EXCEPT !.preselected = TRUE, !.seen = 1, !.sends = 2, !.presses = 4,
                    !.requests = <<From(b, 1)>>,
                    !.keys = {"enter", "d", "esc", "ctrl-c", "s", "w"}, !.hotkeys = {1},
                    !.faults = {"unreadable"}]
\* The list that is the whole program cannot be shown.
Listless == [Quiet EXCEPT !.preselected = TRUE, !.presses = 1, !.keys = {"d"}, !.faults = {"screen"}]
\* Links that are shared while a request arrives.
Sharing == [Quiet EXCEPT !.requests = <<From(a, 1), From(b, 1)>>, !.presses = 6,
                !.keys = {"w", "s", "r", "enter", "y"}, !.faults = {"port"}]
\* Without TLS a request claims the fingerprint of a paired device.
Claiming == [Quiet EXCEPT !.requests = <<[From(a, 1) EXCEPT !.claims = b], [From(b, 1) EXCEPT !.claims = a]>>,
                 !.paired = PairedWith(b), !.presses = 4, !.keys = {"w", "r", "y", "p"}]
\* A list or a picker that cannot be shown leaves its screen behind.
Astray == [Quiet EXCEPT !.requests = <<From(a, 1), From(a, 1)>>, !.presses = 4,
               !.keys = {"d", "enter", "y"}, !.faults = {"screen"}]
Slow == [Quiet EXCEPT !.requests = <<Message(a)>>, !.presses = 4,
             !.keys = {"w", "s", "r", "enter"}, !.faults = {"slow", "unreadable", "screen"}]
\* Looking for files.
Browsing == [Quiet EXCEPT !.seen = 1, !.sends = 1, !.presses = 7, !.hotkeys = {1}, !.dir = "root",
                 !.keys = {"esc", "up", "down", "end", "left", "right", "back", "space", "enter", "x"},
                 !.faults = {"unreadable"}]
\* The devices, their hotkeys and what is kept of them.
Pairing == [Quiet EXCEPT !.requests = <<From(b, 1)>>, !.seen = 1, !.presses = 3,
                !.keys = {"d", "p", "down", "up", "enter"}, !.paired = PairedWith(a), !.hotkeys = {1},
                !.faults = {"disk"}]
Restarting == [Quiet EXCEPT !.requests = <<From(b, 1)>>, !.seen = 1, !.presses = 2,
                   !.keys = {"p"}, !.paired = PairedWith(a), !.lives = 4, !.faults = {"disk", "crash"}]

\* A program that dies while it sends.
Dying == [Quiet EXCEPT !.seen = 2, !.sends = 1, !.presses = 2, !.keys = {"enter"}, !.hotkeys = {1},
              !.lives = 2, !.faults = {"crash", "cancel", "strange"}]

MCWorlds == 
    {Receiving, Dropping, Retrying, Sending, Preselected, Sharing, Claiming, Slow, Astray, Browsing,
     Pairing, Restarting, Dying, Listless}
=============================================================================
