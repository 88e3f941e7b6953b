---------------------------- MODULE MCFileTransfer ----------------------------
(* Instance of FileTransfer.                                               *)
EXTENDS FileTransfer, TLC
=============================================================================
