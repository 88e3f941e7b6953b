------------------------------- MODULE CliPicker -------------------------------
(***************************************************************************)
(* The file picker and the device list of the command line program: what a *)
(* key does to them, as functions of their state.  The explorer supplies   *)
(* the listing of a directory and an index into it; the filter hides       *)
(* entries, and the highlighted row is a position among those it shows.    *)
(***************************************************************************)
EXTENDS Naturals, Sequences, SequencesExt

CONSTANTS
    Tree,       \* directory -> its listing: a sequence of entries
    Parent,     \* directory -> its parent, or itself at the root
    Queries     \* the query after 0, 1... characters: the names it matches

Entry(name, to) == [name |-> name, to |-> to]   \* to: the directory, or "" for a file
NoRow == 0
Lesser(x, y) == IF x < y THEN x ELSE y

-----------------------------------------------------------------------------
(* picker.rs                                                               *)

Listing(p) == Tree[p.dir]

\* Picker::matches: the indices the filter lets through, in listing order.
Matches(p) ==
    SelectSeq([i \in 1..Len(Listing(p)) |-> i],
              LAMBDA i : p.query = 1 \/ Listing(p)[i].name \in Queries[p.query])

\* Picker::cursor: the place of the explorer's index among the matches.
Cursor(p) ==
    IF Contains(Matches(p), p.index)
    THEN CHOOSE i \in DOMAIN Matches(p) : Matches(p)[i] = p.index
    ELSE NoRow

\* Picker::current; without it no entry is acted on.
HasCurrent(p) == Cursor(p) # NoRow
Current(p) == Listing(p)[p.index]

\* Picker::select_match
SelectMatch(p, row) ==
    IF row \in DOMAIN Matches(p)
    THEN [p EXCEPT !.index = Matches(p)[row], !.row = row]
    ELSE [p EXCEPT !.row = NoRow]

\* Broken variant: the highlight stays where it was.
RefreshStale(p) == p

\* Picker::refresh_matches
Refresh(p) == SelectMatch(p, IF HasCurrent(p) THEN Cursor(p) ELSE 1)

SelectFirstEntry(p) ==
    SelectMatch(p, IF Parent[p.dir] # p.dir /\ Len(Matches(p)) > 1 THEN 2 ELSE 1)

Move(p, up) ==
    LET n == Len(Matches(p))
        at == IF HasCurrent(p) THEN Cursor(p) ELSE 1
    IN  IF n = 0 THEN p
        ELSE SelectMatch(p, IF up THEN (IF at = 1 THEN n ELSE at - 1)
                                  ELSE (IF at = n THEN 1 ELSE at + 1))

\* Picker::navigate: a directory that cannot be read changes nothing.
Navigate(p, dir, readable) ==
    IF dir = p.dir \/ ~readable THEN p
    ELSE SelectFirstEntry(Refresh([p EXCEPT !.dir = dir, !.query = 1, !.index = 1]))

Toggle(p) ==
    IF HasCurrent(p) /\ Current(p).to = ""
    THEN LET f == Current(p).name
         IN  [p EXCEPT !.selected = IF f \in @ THEN @ \ {f} ELSE @ \cup {f}]
    ELSE p

ShowPicker(target, dir) ==
    SelectFirstEntry(Refresh(
        [target |-> target, dir |-> dir, query |-> 1, index |-> 1, row |-> NoRow, selected |-> {}]))

\* What Enter picks: the selection, or without one the highlighted file.
Confirmed(p) ==
    IF p.selected # {} THEN p.selected
    ELSE IF HasCurrent(p) /\ Current(p).to = "" THEN {Current(p).name}
    ELSE {}

Stays(p) == [out |-> "open", picker |-> p, files |-> {}]

\* Picker::handle_key
PickerKey(p, key, readable) ==
    CASE key = "esc" ->
            IF p.query = 1 THEN [out |-> "cancelled", picker |-> p, files |-> {}]
                           ELSE Stays(Refresh([p EXCEPT !.query = 1]))
      [] key = "up" -> Stays(Move(p, TRUE))
      [] key = "down" -> Stays(Move(p, FALSE))
      [] key = "end" -> Stays(SelectMatch(p, Len(Matches(p))))
      [] key = "left" -> Stays(Navigate(p, Parent[p.dir], readable))
      [] key = "right" ->
            Stays(IF HasCurrent(p) /\ Current(p).to # ""
                  THEN Navigate(p, Current(p).to, readable) ELSE p)
      [] key = "back" -> Stays(IF p.query > 1 THEN Refresh([p EXCEPT !.query = @ - 1]) ELSE p)
      [] key = "space" -> Stays(Toggle(p))
      [] key = "enter" ->
            IF HasCurrent(p) /\ Current(p).to # ""
            THEN Stays(Navigate(p, Current(p).to, readable))
            ELSE IF Confirmed(p) = {} THEN Stays(p)
            ELSE [out |-> "picked", picker |-> p, files |-> Confirmed(p)]
      [] OTHER -> Stays(Refresh([p EXCEPT !.query = Lesser(Len(Queries), @ + 1)]))

-----------------------------------------------------------------------------
(* device_list.rs: a list is a sequence of rows and the highlighted one.    *)

SelectFirstDevice(rows) == IF rows = <<>> THEN NoRow ELSE 1
OpenList(rows) == [rows |-> rows, row |-> SelectFirstDevice(rows)]

\* DeviceList::set_rows keeps the highlight on the same device.
SetRows(l, rows) ==
    LET same == {i \in DOMAIN rows : l.row # NoRow /\ rows[i].dev = l.rows[l.row].dev}
    IN  [rows |-> rows,
         row |-> IF same # {} THEN CHOOSE i \in same : TRUE ELSE SelectFirstDevice(rows)]

MoveDevice(l, up) ==
    LET n == Len(l.rows)
    IN  IF n = 0 THEN l
        ELSE [l EXCEPT !.row = IF up THEN (IF @ <= 1 THEN n ELSE @ - 1)
                                     ELSE (IF @ = n THEN 1 ELSE @ + 1)]

\* DeviceList::handle_key: what the key asks for, and of which device.
ListKey(l, key) ==
    LET row == l.rows[l.row]
    IN  CASE key \in {"esc", "d"} -> [out |-> "closed"]
          [] key = "enter" /\ l.row # NoRow /\ row.online ->
                [out |-> "send", dev |-> row.dev]
          [] key = "p" /\ l.row # NoRow ->
                [out |-> IF row.paired THEN "unpair" ELSE "pair", dev |-> row.dev]
          [] OTHER -> [out |-> "open"]
=============================================================================
