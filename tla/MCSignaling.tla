---------------------------- MODULE MCSignaling ----------------------------
(* Small instances of Signaling. *)
EXTENDS Signaling, TLC

OneGroup == [p \in Peers |-> "g1"]
Symmetric == Permutations(Peers) \cup Permutations(Infos)
=============================================================================
