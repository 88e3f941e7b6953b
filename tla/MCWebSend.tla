----------------------------- MODULE MCWebSend -----------------------------
(* Small instances of WebSend. *)
EXTENDS WebSend, TLC

\* Two tabs of one browser and a request of another one.
TwoTabs == [r \in Prepares |-> IF r = "r3" THEN "p2" ELSE "p1"]
=============================================================================
