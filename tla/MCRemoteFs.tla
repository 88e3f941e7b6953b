----------------------------- MODULE MCRemoteFs -----------------------------
(* An instance of RemoteFs for TLC: the requests of one of several groups   *)
(* meet in a run.                                                           *)
EXTENDS RemoteFs, TLC

\* Two roots: a and b are names in the first one, c in the second one.  The
\* user shares the first one or not, and the second one read-only.
RootOfABC == "a" :> "r1" @@ "b" :> "r1" @@ "c" :> "r2"
SharedOrNot == {"r1" :> "rw" @@ "r2" :> "ro", "r1" :> "none" @@ "r2" :> "ro"}

\* A write, a move into the read-only root and a read work on one file; it
\* is renamed to the name of a new folder, and deleted.
MCKind == "q1" :> "write" @@ "q2" :> "move" @@ "q3" :> "read"
          @@ "q4" :> "rename" @@ "q5" :> "create" @@ "q6" :> "delete"
MCTarget == [r \in Requests |-> IF r = "q5" THEN "b" ELSE "a"]
MCDest == [r \in Requests |-> CASE r = "q2" -> "c" [] r \in {"q4", "q5"} -> "b" [] OTHER -> "a"]

\* Which requests meet.  While three of them do, the user trusts or forgets
\* the device; the grants change under two.
Groups == {{"q1", "q2", "q3"}, {"q4", "q5"}, {"q4", "q6"}, {"q5", "q6"}}

MCNext ==
  /\ Next
  /\ \E g \in Groups : \A r \in Requests \ g : pc'[r] = "new"
  /\ Cardinality({r \in Requests : pc'[r] # "new"}) = 3 =>
       access'.grants["r1"] = "rw"
MCSpec == Init /\ [][MCNext]_vars /\ Fairness
=============================================================================
