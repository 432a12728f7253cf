---------------------------- MODULE MCReplayGuard ---------------------------
(* Two senders; one of them signs two control messages and a file chunk, at *)
(* times behind, at and ahead of the supernode's clock.                     *)
EXTENDS ReplayGuard, TLC

CONSTANTS a, b, m1, m2, f1, n1

MCSenderOf == (m1 :> a) @@ (m2 :> a) @@ (f1 :> a) @@ (n1 :> b)
MCKindOf == (m1 :> "control") @@ (m2 :> "control") @@ (f1 :> "file") @@ (n1 :> "control")
MCTimestamp == (m1 :> 0) @@ (m2 :> 2) @@ (f1 :> 1) @@ (n1 :> 1)
=============================================================================
