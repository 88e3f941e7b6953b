-------------------------- MODULE MCWebRtcTransfer --------------------------
(* Instance of WebRtcTransfer: every file is announced with one chunk.     *)
EXTENDS WebRtcTransfer, TLC

MCSize == [f \in Files |-> 1]
=============================================================================
