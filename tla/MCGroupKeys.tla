----------------------------- MODULE MCGroupKeys ----------------------------
(* Model values for GroupKeys.                                              *)
EXTENDS GroupKeys

CONSTANTS s1, MaxInFlight

\* Bound of the search: keys, acknowledgements, notices and owed rosters that
\* are under way at one time.
Unread == UNION {{<<c, s, i>> : i \in DOMAIN inbox[c][s]} : c \in Client, s \in Server}
Bounded == Cardinality(net) + Cardinality(Unread) + Cardinality(Owed) <= MaxInFlight
=============================================================================
