---------------------------- MODULE BoundedPipe ----------------------------
(* What a peer's write queue promises (the comments of PeerTx and            *)
(* PEER_QUEUE_MAX_BYTES in signaling.rs): frames that are accepted are       *)
(* delivered in order and fit under the ceiling while they wait; a frame is  *)
(* lost only by closing the pipe, and once one has been refused at most one  *)
(* more is taken out, and none if there was one in hand.                     *)
EXTENDS Integers, Sequences, Sizes

CONSTANTS Length, Ceiling

VARIABLES
  queue,  \* frames accepted and waiting
  hand,   \* the frame being delivered, if any
  out,    \* frames delivered
  mode    \* "open", "refusing" (one more may be taken), "refused" or "closed"

vars == <<queue, hand, out, mode>>

Bytes(frames) == TotalLength(frames, DOMAIN frames)

Init == queue = <<>> /\ hand = <<>> /\ out = <<>> /\ mode = "open"

Accept(n) ==
  /\ mode # "closed"
  /\ queue' = Append(queue, n)
  /\ Bytes(queue') <= Ceiling
  /\ UNCHANGED <<hand, out, mode>>

Refuse ==
  /\ mode = "open"
  /\ mode' \in IF hand = <<>> THEN {"refusing", "refused"} ELSE {"refused"}
  /\ UNCHANGED <<queue, hand, out>>

\* Nothing was left to take.
Settle ==
  /\ mode = "refusing"
  /\ mode' = "refused"
  /\ UNCHANGED <<queue, hand, out>>

Take ==
  /\ mode \in {"open", "refusing"}
  /\ hand = <<>> /\ queue # <<>>
  /\ hand' = <<Head(queue)>>
  /\ queue' = Tail(queue)
  /\ mode' = IF mode = "open" THEN "open" ELSE "refused"
  /\ UNCHANGED out

Deliver ==
  /\ hand # <<>>
  /\ out' = out \o hand
  /\ hand' = <<>>
  /\ UNCHANGED <<queue, mode>>

Close ==
  /\ mode' = "closed"
  /\ hand' = <<>>
  /\ UNCHANGED <<queue, out>>

Next == (\E n \in Length : Accept(n)) \/ Refuse \/ Settle \/ Take \/ Deliver \/ Close

Spec == Init /\ [][Next]_vars
=============================================================================
