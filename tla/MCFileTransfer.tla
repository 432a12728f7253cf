--------------------------- MODULE MCFileTransfer ---------------------------
(* Model values for FileTransfer.                                           *)
EXTENDS FileTransfer

CONSTANTS p1, p2
=============================================================================
