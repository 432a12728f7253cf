----------------------------- MODULE MCPeerQueue ----------------------------
(* Two sending tasks; frames of one and two bytes and a ceiling of three.   *)
EXTENDS PeerQueue

CONSTANTS t1, t2
=============================================================================
