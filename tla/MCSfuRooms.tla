----------------------------- MODULE MCSfuRooms -----------------------------
(* Model values for SfuRooms: two identities, one of which (b) also appears *)
(* in its bare spelling, the lobby and one client room.                     *)
EXTENDS SfuRooms

CONSTANTS a, b, bBare, lobby, r1, t1

MCPeerId == {a, b, bBare}
MCNormalize == [p \in MCPeerId |-> IF p = bBare THEN b ELSE p]
\* A public node and a private node with a grant, owned by a; a private node
\* without a grant whose record spells its owner b bare; and a private node
\* whose record names no owner.
MCProofs ==
  {[node_type |-> "public",  owner_pub |-> a, invite_policy |-> "members", granted |-> FALSE],
   [node_type |-> "private", owner_pub |-> a, invite_policy |-> "owner",   granted |-> TRUE],
   [node_type |-> "private", owner_pub |-> bBare, invite_policy |-> "owner", granted |-> FALSE],
   [node_type |-> "private", owner_pub |-> NoPeer, invite_policy |-> "owner", granted |-> TRUE]}

\* The lobby is public: its ACL and tokens change nothing, so exploration
\* stops once they are non-empty.
LobbyAclUnused ==
  lobby \in DOMAIN rooms =>
    /\ rooms[lobby].allowed = {}
    /\ DOMAIN rooms[lobby].invite_tokens = {}
=============================================================================
