---------------------------- MODULE MCReceiveApp ----------------------------
(* An instance of ReceiveApp.  The upload page (upload.html) numbers the    *)
(* files of every request from 0, so the requests share their IDs.          *)
EXTENDS ReceiveApp

OneEach == [r \in Requests |-> Files]
=============================================================================
