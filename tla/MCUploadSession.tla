-------------------------- MODULE MCUploadSession --------------------------
(* Small instances of UploadSession. *)
EXTENDS UploadSession, TLC

\* Two requests of two devices.
TwoSenders == [r \in Prepares |-> IF r = "r1" THEN "p1" ELSE "p2"]
\* Every request comes from one device.
OneSender == [r \in Prepares |-> "p1"]
OfferAll == [r \in Prepares |-> Files]
\* The first request offers every file, the other one a single file.
OfferFewer == [r \in Prepares |-> IF r = "r1" THEN Files ELSE {"f1"}]
\* Files and upload connections are interchangeable.
Symmetric == Permutations(Files) \cup Permutations(Uploads)
=============================================================================
