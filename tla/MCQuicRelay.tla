----------------------------- MODULE MCQuicRelay ----------------------------
(* Model values for QuicRelay.                                              *)
EXTENDS QuicRelay, TLC

CONSTANTS p1, p2, c1, c2, c3, r1, r2, s1, s2

\* Peers, connections and rooms are interchangeable: no action orders them.
RelaySymmetry == Permutations(Peer) \cup Permutations(Conn) \cup Permutations(Room)

\* Where subscriptions to video play no part, states with any are not explored.
NoVideoSubs == video_subs = EmptyMap

\* Nor, with three connections, those with two subscribers or with portal guests.
OneSubscriber == Cardinality(DOMAIN video_subs) <= 1 /\ portal_allowed = {}
=============================================================================
