----------------------------- MODULE SessionSlot -----------------------------
(***************************************************************************)
(* What the v2 server promises about its sessions, without the tasks,      *)
(* locks, guards and channels that implement it: at any time one request   *)
(* waits for the application's decision or one accepted session receives   *)
(* files, a session never comes back once it is over, and it ends when its *)
(* last file is settled or when it is given up.                            *)
(***************************************************************************)
EXTENDS Integers

CONSTANTS Sessions, Files, None

VARIABLES
  fresh,  \* requests that have not asked for the slot yet
  slot,   \* the session that occupies the slot and its state
  files   \* the status of each file of the active session

vars == <<fresh, slot, files>>

NoFiles == [f \in Files |-> "Absent"]
Final == {"Absent", "Finished", "Failed"}

Init ==
  /\ fresh = Sessions
  /\ slot = [state |-> "None", sid |-> None]
  /\ files = NoFiles

\* A request is refused: the slot is taken, or it was not let in.
Refuse(s) ==
  /\ s \in fresh
  /\ fresh' = fresh \ {s}
  /\ UNCHANGED <<slot, files>>

Claim(s) ==
  /\ s \in fresh
  /\ slot.state = "None"
  /\ fresh' = fresh \ {s}
  /\ slot' = [state |-> "Pending", sid |-> s]
  /\ UNCHANGED files

Accept(s, some) ==
  /\ slot = [state |-> "Pending", sid |-> s]
  /\ some # {}
  /\ slot' = [state |-> "Active", sid |-> s]
  /\ files' = [f \in Files |-> IF f \in some THEN "Pending" ELSE "Absent"]
  /\ UNCHANGED fresh

\* The request is declined or goes away; the session is cancelled.
Release ==
  /\ slot.state # "None"
  /\ slot' = [state |-> "None", sid |-> None]
  /\ files' = NoFiles
  /\ UNCHANGED fresh

StartFile(f) ==
  /\ slot.state = "Active"
  /\ files[f] = "Pending"
  /\ files' = [files EXCEPT ![f] = "InProgress"]
  /\ UNCHANGED <<fresh, slot>>

\* A file in progress is settled, or offered again.
SettleFile(f, status) ==
  /\ slot.state = "Active"
  /\ files[f] = "InProgress"
  /\ LET settled == [files EXCEPT ![f] = status]
     IN  IF \A g \in Files : settled[g] \in Final
         THEN /\ slot' = [state |-> "None", sid |-> None]
              /\ files' = NoFiles
         ELSE /\ files' = settled
              /\ UNCHANGED slot
  /\ UNCHANGED fresh

Next ==
  \/ \E s \in Sessions : Refuse(s) \/ Claim(s)
  \/ \E s \in Sessions, some \in SUBSET Files : Accept(s, some)
  \/ Release
  \/ \E f \in Files : StartFile(f)
  \/ \E f \in Files, status \in {"Pending", "Finished", "Failed"} :
       SettleFile(f, status)

Spec == Init /\ [][Next]_vars
=============================================================================
