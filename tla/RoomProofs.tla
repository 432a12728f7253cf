----------------------------- MODULE RoomProofs -----------------------------
(***************************************************************************)
(* The rooms, at the supernode and at the client.                          *)
(*                                                                         *)
(* The SFU room manager keeps its membership invariants for every set of   *)
(* identities, rooms and tokens and every capacity.  The invariant is a    *)
(* predicate on the room map; every sfu.rs method is shown to preserve it, *)
(* and a handler, being a composition of methods, then preserves it by     *)
(* composing their lemmas.                                                 *)
(*                                                                         *)
(* A client's room that a failover has resumed is not seized by a node     *)
(* that comes back, for every cluster, every set of rooms and any number   *)
(* of faults and commands.                                                 *)
(***************************************************************************)
EXTENDS SfuRooms, RoomFailover, FiniteSetTheorems, TLAPS

\* Inserting a key keeps a map a map.
LEMMA PutType ==
  ASSUME NEW K, NEW V, NEW f \in HashMap(K, V), NEW k \in K, NEW v \in V
  PROVE  /\ Put(f, k, v) \in HashMap(K, V)
         /\ DOMAIN Put(f, k, v) = DOMAIN f \cup {k}
         /\ Put(f, k, v)[k] = v
         /\ \A x \in DOMAIN f \ {k} : Put(f, k, v)[x] = f[x]
<1>1. PICK D \in SUBSET K : f \in [D -> V]
  BY DEF HashMap
<1>2. Put(f, k, v) \in [D \cup {k} -> V]
  BY <1>1 DEF Put
<1>3. D \cup {k} \in SUBSET K
  BY <1>1
<1>4. Put(f, k, v) \in HashMap(K, V)
  BY <1>2, <1>3 DEF HashMap
<1> QED
  BY <1>1, <1>2, <1>4 DEF Put

\* Removing keys keeps a map a map.
LEMMA WithoutType ==
  ASSUME NEW K, NEW V, NEW f \in HashMap(K, V), NEW S
  PROVE  /\ Without(f, S) \in HashMap(K, V)
         /\ DOMAIN Without(f, S) = DOMAIN f \ S
         /\ \A x \in DOMAIN f \ S : Without(f, S)[x] = f[x]
<1>1. PICK D \in SUBSET K : f \in [D -> V]
  BY DEF HashMap
<1>2. Without(f, S) \in [D \ S -> V]
  BY <1>1 DEF Without
<1>3. D \ S \in SUBSET K
  BY <1>1
<1>4. Without(f, S) \in HashMap(K, V)
  BY <1>2, <1>3 DEF HashMap
<1> QED
  BY <1>1, <1>2, <1>4 DEF Without

\* What holds of each single room.
RoomOK(rm) ==
  /\ rm \in SFURoom
  /\ rm.participants \cap rm.subscribers = {}
  /\ Cardinality(rm.participants) <= MAX_ROOM_SIZE
  /\ rm.participants \cup rm.subscribers \cup rm.allowed \subseteq Canonical
  /\ rm.room_type = "private" =>
       rm.participants \cup rm.subscribers \subseteq rm.allowed \cup {rm.creator_id}
  /\ rm.empty_for # InUse => is_unused(rm)

\* A room nobody is in carries an idle mark.
IdleMarked(rm) == is_unused(rm) => rm.empty_for # InUse

\* The inductive invariant, as a predicate on the room map.
RoomsOK(rs) ==
  /\ rs \in HashMap(RoomId, SFURoom)
  /\ DEFAULT_ROOM_ID \in DOMAIN rs
  /\ \A r \in DOMAIN rs : RoomOK(rs[r])
  /\ \A r \in DOMAIN rs \ {DEFAULT_ROOM_ID} : IdleMarked(rs[r])

-----------------------------------------------------------------------------
(* Methods of one room.                                                    *)

\* The canonical spelling is canonical.
LEMMA NormCanonical ==
  ASSUME NEW p \in PeerId
  PROVE  normalize_peer_id[p] \in Canonical
BY PeerAssumption DEF Canonical

\* Sets of identities are finite, so room sizes are numbers.
LEMMA PeersFinite ==
  ASSUME NEW S \in SUBSET PeerId
  PROVE  IsFiniteSet(S) /\ Cardinality(S) \in Nat
<1>1. IsFiniteSet(S)
  BY PeerAssumption, FS_Subset
<1> QED
  BY <1>1, FS_CardinalityType

\* A new room is sound, and carries an idle mark once mark_unused_if_empty ran.
LEMMA NewRoomOK ==
  ASSUME NEW type \in RoomType, NEW c \in PeerId \cup {NoPeer}, NEW pol \in InvitePolicy
  PROVE  /\ RoomOK(NewRoom(type, c, pol))
         /\ RoomOK(mark_unused_if_empty(NewRoom(type, c, pol)))
         /\ IdleMarked(mark_unused_if_empty(NewRoom(type, c, pol)))
<1> DEFINE rm == NewRoom(type, c, pol)
           mk == mark_unused_if_empty(rm)
<1>1. NormOrNone(c) \in PeerId \cup {NoPeer}
  BY PeerAssumption DEF NormOrNone
<1>2. rm.invite_tokens \in HashMap(Token, InviteToken)
  <2>1. EmptyMap \in [{} -> InviteToken]
    BY DEF EmptyMap
  <2>2. {} \in SUBSET Token
    OBVIOUS
  <2> QED
    BY <2>1, <2>2 DEF HashMap, NewRoom
<1>3. rm \in SFURoom
  BY <1>1, <1>2, LimitAssumption DEF NewRoom, SFURoom, InUse
<1>4. Cardinality({}) = 0
  BY FS_EmptySet
<1>5. RoomOK(rm)
  BY <1>3, <1>4, LimitAssumption DEF RoomOK, NewRoom, is_unused, InUse
<1>6. mk = [rm EXCEPT !.empty_for = 0]
  BY DEF mark_unused_if_empty, is_unused, NewRoom, InUse
<1>7. mk \in SFURoom
  BY <1>3, <1>6, LimitAssumption DEF SFURoom
<1>8. /\ mk.participants = {} /\ mk.subscribers = {} /\ mk.allowed = {}
      /\ mk.empty_for = 0
  BY <1>3, <1>6 DEF SFURoom, NewRoom
<1>9. RoomOK(mk) /\ IdleMarked(mk)
  BY <1>7, <1>8, <1>4, LimitAssumption DEF RoomOK, IdleMarked, is_unused, InUse
<1> QED
  BY <1>5, <1>9

\* mark_unused_if_empty keeps a sound room sound and leaves it marked.
LEMMA MarkUnusedOK ==
  ASSUME NEW rm, RoomOK(rm)
  PROVE  /\ RoomOK(mark_unused_if_empty(rm))
         /\ IdleMarked(mark_unused_if_empty(rm))
<1>1. CASE is_unused(rm) /\ rm.empty_for = InUse
  <2> DEFINE mk == [rm EXCEPT !.empty_for = 0]
  <2>1. rm \in SFURoom
    BY DEF RoomOK
  <2>2. /\ mk \in SFURoom
        /\ mk.empty_for = 0
        /\ mk.participants = rm.participants /\ mk.subscribers = rm.subscribers
        /\ mk.allowed = rm.allowed /\ mk.room_type = rm.room_type
        /\ mk.creator_id = rm.creator_id
    BY <2>1, LimitAssumption DEF SFURoom
  <2>3. RoomOK(mk) /\ IdleMarked(mk)
    BY <1>1, <2>2 DEF RoomOK, IdleMarked, is_unused, InUse
  <2> QED
    BY <1>1, <2>3 DEF mark_unused_if_empty
<1>2. CASE ~(is_unused(rm) /\ rm.empty_for = InUse)
  BY <1>2 DEF mark_unused_if_empty, IdleMarked
<1> QED
  BY <1>1, <1>2

\* Growing the ACL keeps a room sound.
LEMMA AllowOK ==
  ASSUME NEW rm, RoomOK(rm), NEW p \in PeerId
  PROVE  /\ RoomOK(room_allow_peer(rm, p))
         /\ IdleMarked(rm) => IdleMarked(room_allow_peer(rm, p))
<1> DEFINE id == normalize_peer_id[p]
           in == room_allow_peer(rm, p)
<1>1. rm \in SFURoom /\ id \in Canonical /\ id \in PeerId
  BY NormCanonical DEF RoomOK, Canonical
<1>2. /\ in \in SFURoom
      /\ in.allowed = rm.allowed \cup {id}
      /\ in.participants = rm.participants /\ in.subscribers = rm.subscribers
      /\ in.empty_for = rm.empty_for /\ in.room_type = rm.room_type
      /\ in.creator_id = rm.creator_id
  BY <1>1 DEF SFURoom, room_allow_peer
<1> QED
  BY <1>1, <1>2 DEF RoomOK, IdleMarked, is_unused

\* A voice join of an allowed peer keeps a room sound: add_participant
\* refuses when full and moves a chat subscriber over to voice.
LEMMA AddParticipantOK ==
  ASSUME NEW rm, RoomOK(rm), NEW p \in PeerId, is_peer_allowed(rm, p)
  PROVE  /\ RoomOK(add_participant(rm, p))
         /\ IdleMarked(rm) => IdleMarked(add_participant(rm, p))
<1> DEFINE id == normalize_peer_id[p]
           in == add_participant(rm, p)
<1>1. CASE id \in rm.participants \/ is_full(rm)
  BY <1>1 DEF add_participant
<1>2. CASE ~(id \in rm.participants \/ is_full(rm))
  <2>1. rm \in SFURoom /\ id \in Canonical /\ id \in PeerId
    BY NormCanonical DEF RoomOK, Canonical
  <2>2. /\ in \in SFURoom
        /\ in.participants = rm.participants \cup {id}
        /\ in.subscribers = rm.subscribers \ {id}
        /\ in.empty_for = InUse
        /\ in.allowed = rm.allowed /\ in.room_type = rm.room_type
        /\ in.creator_id = rm.creator_id
    BY <1>2, <2>1, LimitAssumption DEF SFURoom, add_participant, mark_in_use, InUse
  <2>3. Cardinality(in.participants) <= MAX_ROOM_SIZE
    <3>1. /\ IsFiniteSet(rm.participants)
          /\ Cardinality(rm.participants) \in Nat
      BY <2>1, PeersFinite DEF SFURoom
    <3>2. Cardinality(in.participants) = Cardinality(rm.participants) + 1
      BY <1>2, <2>2, <3>1, FS_AddElement
    <3>3. Cardinality(rm.participants) < MAX_ROOM_SIZE
      BY <1>2, <3>1, LimitAssumption DEF is_full
    <3> QED
      BY <3>1, <3>2, <3>3, LimitAssumption
  <2>4. rm.room_type = "private" => id \in rm.allowed \cup {rm.creator_id}
    BY <1>2 DEF is_peer_allowed
  <2>5. RoomOK(in)
    BY <2>1, <2>2, <2>3, <2>4 DEF RoomOK
  <2>6. IdleMarked(in)
    BY <2>2 DEF IdleMarked, is_unused
  <2> QED
    BY <2>5, <2>6
<1> QED
  BY <1>1, <1>2

\* A voice leave keeps a room sound.
LEMMA RemoveParticipantOK ==
  ASSUME NEW rm, RoomOK(rm), NEW p \in PeerId
  PROVE  /\ RoomOK(remove_participant(rm, p))
         /\ IdleMarked(rm) => IdleMarked(remove_participant(rm, p))
<1> DEFINE id == normalize_peer_id[p]
           out == [rm EXCEPT !.participants = @ \ {id}]
<1>1. CASE id \in rm.participants
  <2>1. rm \in SFURoom
    BY DEF RoomOK
  <2>2. /\ out \in SFURoom
        /\ out.participants = rm.participants \ {id}
        /\ out.subscribers = rm.subscribers
        /\ out.empty_for = rm.empty_for /\ out.allowed = rm.allowed
        /\ out.room_type = rm.room_type /\ out.creator_id = rm.creator_id
    BY <2>1 DEF SFURoom
  <2>3. Cardinality(out.participants) <= MAX_ROOM_SIZE
    <3>1. /\ IsFiniteSet(rm.participants)
          /\ Cardinality(rm.participants) \in Nat
      BY <2>1, PeersFinite DEF SFURoom
    <3>2. Cardinality(out.participants) = Cardinality(rm.participants) - 1
      BY <1>1, <2>2, <3>1, FS_RemoveElement
    <3> QED
      BY <3>1, <3>2, LimitAssumption DEF RoomOK
  <2>4. rm.empty_for = InUse
    BY <1>1 DEF RoomOK, is_unused
  <2>5. RoomOK(out)
    BY <2>2, <2>3, <2>4 DEF RoomOK
  <2> QED
    BY <1>1, <2>5, MarkUnusedOK DEF remove_participant
<1>2. CASE id \notin rm.participants
  BY <1>2 DEF remove_participant
<1> QED
  BY <1>1, <1>2

\* A chat subscription of an allowed peer keeps a room sound.
LEMMA SubscribeOK ==
  ASSUME NEW rm, RoomOK(rm), NEW p \in PeerId, is_peer_allowed(rm, p)
  PROVE  /\ RoomOK(room_subscribe(rm, p))
         /\ IdleMarked(rm) => IdleMarked(room_subscribe(rm, p))
<1> DEFINE id == normalize_peer_id[p]
           in == room_subscribe(rm, p)
<1>1. CASE id \in rm.participants
  BY <1>1 DEF room_subscribe
<1>2. CASE id \notin rm.participants
  <2>1. rm \in SFURoom /\ id \in Canonical /\ id \in PeerId
    BY NormCanonical DEF RoomOK, Canonical
  <2>2. /\ in \in SFURoom
        /\ in.participants = rm.participants
        /\ in.subscribers = rm.subscribers \cup {id}
        /\ in.empty_for = InUse
        /\ in.allowed = rm.allowed /\ in.room_type = rm.room_type
        /\ in.creator_id = rm.creator_id
    BY <1>2, <2>1, LimitAssumption DEF SFURoom, room_subscribe, mark_in_use, InUse
  <2>3. rm.room_type = "private" => id \in rm.allowed \cup {rm.creator_id}
    BY <1>2 DEF is_peer_allowed
  <2> QED
    BY <1>2, <2>1, <2>2, <2>3 DEF RoomOK, IdleMarked, is_unused
<1> QED
  BY <1>1, <1>2

\* Unsubscribing keeps a room sound.
LEMMA UnsubscribeOK ==
  ASSUME NEW rm, RoomOK(rm), NEW p \in PeerId
  PROVE  /\ RoomOK(room_unsubscribe(rm, p))
         /\ IdleMarked(rm) => IdleMarked(room_unsubscribe(rm, p))
<1> DEFINE id == normalize_peer_id[p]
           out == [rm EXCEPT !.subscribers = @ \ {id}]
<1>1. CASE id \in rm.subscribers
  <2>1. rm \in SFURoom
    BY DEF RoomOK
  <2>2. /\ out \in SFURoom
        /\ out.participants = rm.participants
        /\ out.subscribers = rm.subscribers \ {id}
        /\ out.empty_for = rm.empty_for /\ out.allowed = rm.allowed
        /\ out.room_type = rm.room_type /\ out.creator_id = rm.creator_id
    BY <2>1 DEF SFURoom
  <2>3. rm.empty_for = InUse
    BY <1>1 DEF RoomOK, is_unused
  <2>4. RoomOK(out)
    BY <2>2, <2>3 DEF RoomOK
  <2> QED
    BY <1>1, <2>4, MarkUnusedOK DEF room_unsubscribe
<1>2. CASE id \notin rm.subscribers
  BY <1>2 DEF room_unsubscribe
<1> QED
  BY <1>1, <1>2

\* Removing a disconnected peer keeps a room sound.
LEMMA RemoveEntirelyOK ==
  ASSUME NEW rm, RoomOK(rm), NEW p \in PeerId
  PROVE  /\ RoomOK(remove_peer_entirely(rm, p))
         /\ IdleMarked(rm) => IdleMarked(remove_peer_entirely(rm, p))
<1> DEFINE id == normalize_peer_id[p]
           out == [rm EXCEPT !.participants = @ \ {id}, !.subscribers = @ \ {id}]
<1>1. CASE id \in rm.participants \cup rm.subscribers
  <2>1. rm \in SFURoom
    BY DEF RoomOK
  <2>2. /\ out \in SFURoom
        /\ out.participants = rm.participants \ {id}
        /\ out.subscribers = rm.subscribers \ {id}
        /\ out.empty_for = rm.empty_for /\ out.allowed = rm.allowed
        /\ out.room_type = rm.room_type /\ out.creator_id = rm.creator_id
    BY <2>1 DEF SFURoom
  <2>3. Cardinality(out.participants) <= MAX_ROOM_SIZE
    <3>1. /\ IsFiniteSet(rm.participants)
          /\ Cardinality(rm.participants) \in Nat
          /\ Cardinality(out.participants) \in Nat
      BY <2>1, <2>2, PeersFinite DEF SFURoom
    <3>2. Cardinality(out.participants) <= Cardinality(rm.participants)
      BY <2>2, <3>1, FS_Subset
    <3>3. Cardinality(rm.participants) <= MAX_ROOM_SIZE
      BY DEF RoomOK
    <3> QED
      BY <3>1, <3>2, <3>3, LimitAssumption
  <2>4. rm.empty_for = InUse
    BY <1>1 DEF RoomOK, is_unused
  <2>5. RoomOK(out)
    BY <2>2, <2>3, <2>4 DEF RoomOK
  <2> QED
    BY <1>1, <2>5, MarkUnusedOK DEF remove_peer_entirely
<1>2. CASE id \notin rm.participants \cup rm.subscribers
  BY <1>2 DEF remove_peer_entirely
<1> QED
  BY <1>1, <1>2

\* Changing the invite tokens leaves everything else alone.
LEMMA TokensOK ==
  ASSUME NEW rm, RoomOK(rm), NEW toks \in HashMap(Token, InviteToken)
  PROVE  /\ RoomOK([rm EXCEPT !.invite_tokens = toks])
         /\ IdleMarked(rm) => IdleMarked([rm EXCEPT !.invite_tokens = toks])
<1> DEFINE in == [rm EXCEPT !.invite_tokens = toks]
<1>1. rm \in SFURoom
  BY DEF RoomOK
<1>2. /\ in \in SFURoom
      /\ in.participants = rm.participants /\ in.subscribers = rm.subscribers
      /\ in.allowed = rm.allowed /\ in.empty_for = rm.empty_for
      /\ in.room_type = rm.room_type /\ in.creator_id = rm.creator_id
  BY <1>1 DEF SFURoom
<1> QED
  BY <1>2 DEF RoomOK, IdleMarked, is_unused

\* Registering a token (minted or re-seeded) keeps a room sound.
LEMMA SetTokenOK ==
  ASSUME NEW rm, RoomOK(rm), NEW t \in Token, NEW rec \in InviteToken
  PROVE  /\ RoomOK(SetToken(rm, t, rec))
         /\ IdleMarked(rm) => IdleMarked(SetToken(rm, t, rec))
<1>1. rm.invite_tokens \in HashMap(Token, InviteToken)
  BY DEF RoomOK, SFURoom
<1>2. Put(rm.invite_tokens, t, rec) \in HashMap(Token, InviteToken)
  BY <1>1, PutType
<1> QED
  BY <1>2, TokensOK DEF SetToken

\* Spending a token admits its presenter and keeps a room sound.
LEMMA ConsumeOK ==
  ASSUME NEW rm, RoomOK(rm), NEW t \in Token, NEW p \in PeerId
  PROVE  /\ RoomOK(validate_and_consume_token(rm, t, p))
         /\ IdleMarked(rm) => IdleMarked(validate_and_consume_token(rm, t, p))
<1> DEFINE it == rm.invite_tokens[t]
           in == room_allow_peer(rm, p)
<1>1. CASE ~TokenSpendable(rm, t)
  BY <1>1 DEF validate_and_consume_token
<1>2. CASE TokenSpendable(rm, t)
  <2>1. RoomOK(in) /\ (IdleMarked(rm) => IdleMarked(in))
    BY AllowOK
  <2>2. rm \in SFURoom /\ rm.invite_tokens \in HashMap(Token, InviteToken)
    BY DEF RoomOK, SFURoom
  <2>3. in.invite_tokens \in HashMap(Token, InviteToken)
    BY <2>1 DEF RoomOK, SFURoom
  <2>4. it \in InviteToken
    BY <1>2, <2>2 DEF TokenSpendable, HashMap
  <2>5. CASE it.max_uses = 0
    BY <1>2, <2>1, <2>5 DEF validate_and_consume_token
  <2>6. CASE it.max_uses # 0 /\ it.uses + 1 >= it.max_uses
    <3>1. Without(in.invite_tokens, {t}) \in HashMap(Token, InviteToken)
      BY <2>3, WithoutType
    <3>2. validate_and_consume_token(rm, t, p)
            = [in EXCEPT !.invite_tokens = Without(in.invite_tokens, {t})]
      BY <1>2, <2>6 DEF validate_and_consume_token
    <3> QED
      BY <2>1, <3>1, <3>2, TokensOK
  <2>7. CASE it.max_uses # 0 /\ ~(it.uses + 1 >= it.max_uses)
    <3>1. [it EXCEPT !.uses = @ + 1] \in InviteToken
      BY <2>4, <2>7 DEF InviteToken
    <3>2. validate_and_consume_token(rm, t, p) = SetToken(in, t, [it EXCEPT !.uses = @ + 1])
      BY <1>2, <2>7 DEF validate_and_consume_token
    <3> QED
      BY <2>1, <3>1, <3>2, SetTokenOK
  <2> QED
    BY <2>5, <2>6, <2>7
<1> QED
  BY <1>1, <1>2

-----------------------------------------------------------------------------
(* Methods of the manager.                                                 *)

\* Replacing one room by a sound one keeps the map sound.
LEMMA UpdateOK ==
  ASSUME NEW rs, RoomsOK(rs), NEW r \in DOMAIN rs,
         NEW rm, RoomOK(rm), IdleMarked(rs[r]) => IdleMarked(rm)
  PROVE  RoomsOK([rs EXCEPT ![r] = rm])
<1> DEFINE new == [rs EXCEPT ![r] = rm]
<1>1. PICK D \in SUBSET RoomId : rs \in [D -> SFURoom]
  BY DEF RoomsOK, HashMap
<1>2. rm \in SFURoom
  BY DEF RoomOK
<1>3. new \in [D -> SFURoom] /\ DOMAIN new = DOMAIN rs
  BY <1>1, <1>2
<1>4. new \in HashMap(RoomId, SFURoom)
  BY <1>1, <1>3 DEF HashMap
<1>5. \A x \in DOMAIN new : new[x] = IF x = r THEN rm ELSE rs[x]
  BY <1>1, <1>3
<1> QED
  BY <1>3, <1>4, <1>5 DEF RoomsOK

\* Inserting a sound, idle-marked room keeps the map sound.
LEMMA InsertOK ==
  ASSUME NEW rs, RoomsOK(rs), NEW r \in RoomId,
         NEW rm, RoomOK(rm), IdleMarked(rm)
  PROVE  RoomsOK(Put(rs, r, rm)) /\ r \in DOMAIN Put(rs, r, rm)
<1> DEFINE new == Put(rs, r, rm)
<1>1. PICK D \in SUBSET RoomId : rs \in [D -> SFURoom]
  BY DEF RoomsOK, HashMap
<1>2. rm \in SFURoom
  BY DEF RoomOK
<1>3. new \in [D \cup {r} -> SFURoom] /\ D \cup {r} \in SUBSET RoomId
  BY <1>1, <1>2 DEF Put
<1>4. new \in HashMap(RoomId, SFURoom) /\ DOMAIN new = DOMAIN rs \cup {r}
  BY <1>1, <1>3 DEF HashMap
<1>5. \A x \in DOMAIN new : new[x] = IF x = r THEN rm ELSE rs[x]
  BY <1>1, <1>3 DEF Put
<1> HIDE DEF new
<1> QED
  BY <1>4, <1>5 DEF RoomsOK, new

\* Dropping rooms other than the lobby keeps the map sound.
LEMMA DropOK ==
  ASSUME NEW rs, RoomsOK(rs), NEW S, DEFAULT_ROOM_ID \notin S
  PROVE  RoomsOK(Without(rs, S))
<1> DEFINE new == Without(rs, S)
<1>1. rs \in HashMap(RoomId, SFURoom)
  BY DEF RoomsOK
<1>2. /\ new \in HashMap(RoomId, SFURoom)
      /\ DOMAIN new = DOMAIN rs \ S
      /\ \A x \in DOMAIN rs \ S : new[x] = rs[x]
  BY <1>1, WithoutType
<1> QED
  BY <1>2 DEF RoomsOK

\* Materializing a room keeps the map sound, whether or not it existed.
LEMMA CreateOK ==
  ASSUME NEW rs, RoomsOK(rs), NEW r \in RoomId, NEW type \in RoomType,
         NEW c \in PeerId \cup {NoPeer}, NEW pol \in InvitePolicy
  PROVE  /\ RoomsOK(create_room_with_policy(rs, r, type, c, pol))
         /\ r \in DOMAIN create_room_with_policy(rs, r, type, c, pol)
<1> DEFINE rm == mark_unused_if_empty(NewRoom(type, c, pol))
<1>1. RoomOK(rm) /\ IdleMarked(rm)
  BY NewRoomOK
<1>2. RoomsOK(Put(rs, r, rm)) /\ r \in DOMAIN Put(rs, r, rm)
  BY <1>1, InsertOK
<1> QED
  BY <1>2 DEF create_room_with_policy

\* Allowing a peer keeps the map sound.
LEMMA AllowPeerOK ==
  ASSUME NEW rs, RoomsOK(rs), NEW r \in RoomId, NEW p \in PeerId
  PROVE  RoomsOK(allow_peer(rs, r, p))
<1>1. CASE r \in DOMAIN rs
  <2>1. RoomOK(rs[r])
    BY <1>1 DEF RoomsOK
  <2>2. /\ RoomOK(room_allow_peer(rs[r], p))
        /\ IdleMarked(rs[r]) => IdleMarked(room_allow_peer(rs[r], p))
    BY <2>1, AllowOK
  <2>3. RoomsOK([rs EXCEPT ![r] = room_allow_peer(rs[r], p)])
    BY <1>1, <2>2, UpdateOK
  <2> QED
    BY <1>1, <2>3 DEF allow_peer, OnRoom
<1>2. CASE r \notin DOMAIN rs
  BY <1>2 DEF allow_peer, OnRoom
<1> QED
  BY <1>1, <1>2

\* Re-seeding a token keeps the map sound.
LEMMA ReregisterOK ==
  ASSUME NEW rs, RoomsOK(rs), NEW r \in RoomId, NEW t \in Token
  PROVE  RoomsOK(reregister_invite_token(rs, r, t))
<1>1. CASE r \in DOMAIN rs
  <2> DEFINE rm == room_reregister_invite_token(rs[r], t)
  <2>1. RoomOK(rs[r])
    BY <1>1 DEF RoomsOK
  <2>2. [uses |-> 0, max_uses |-> 0] \in InviteToken
    BY DEF InviteToken
  <2>3. RoomOK(rm) /\ (IdleMarked(rs[r]) => IdleMarked(rm))
    BY <2>1, <2>2, SetTokenOK DEF room_reregister_invite_token
  <2>4. RoomsOK([rs EXCEPT ![r] = rm])
    BY <1>1, <2>3, UpdateOK
  <2> QED
    BY <1>1, <2>4 DEF reregister_invite_token, OnRoom
<1>2. CASE r \notin DOMAIN rs
  BY <1>2 DEF reregister_invite_token, OnRoom
<1> QED
  BY <1>1, <1>2

\* Minting a token keeps the map sound.
LEMMA GenerateOK ==
  ASSUME NEW rs, RoomsOK(rs), NEW r \in RoomId, NEW t \in Token
  PROVE  RoomsOK(generate_invite_token(rs, r, t))
<1>1. CASE r \in DOMAIN rs
  <2> DEFINE rm == room_generate_invite_token(rs[r], t)
  <2>1. RoomOK(rs[r])
    BY <1>1 DEF RoomsOK
  <2>2. [uses |-> 0, max_uses |-> 1] \in InviteToken
    BY DEF InviteToken
  <2>3. RoomOK(rm) /\ (IdleMarked(rs[r]) => IdleMarked(rm))
    BY <2>1, <2>2, SetTokenOK DEF room_generate_invite_token
  <2>4. RoomsOK([rs EXCEPT ![r] = rm])
    BY <1>1, <2>3, UpdateOK
  <2> QED
    BY <1>1, <2>4 DEF generate_invite_token, OnRoom
<1>2. CASE r \notin DOMAIN rs
  BY <1>2 DEF generate_invite_token, OnRoom
<1> QED
  BY <1>1, <1>2

\* Presenting a token keeps the map sound.
LEMMA ValidateOK ==
  ASSUME NEW rs, RoomsOK(rs), NEW r \in RoomId, NEW t \in Token, NEW p \in PeerId
  PROVE  RoomsOK(validate_room_invite(rs, r, t, p))
<1>1. CASE r \in DOMAIN rs
  <2> DEFINE rm == validate_and_consume_token(rs[r], t, p)
  <2>1. RoomOK(rs[r])
    BY <1>1 DEF RoomsOK
  <2>2. RoomOK(rm) /\ (IdleMarked(rs[r]) => IdleMarked(rm))
    BY <2>1, ConsumeOK
  <2>3. RoomsOK([rs EXCEPT ![r] = rm])
    BY <1>1, <2>2, UpdateOK
  <2> QED
    BY <1>1, <2>3 DEF validate_room_invite, OnRoom
<1>2. CASE r \notin DOMAIN rs
  BY <1>2 DEF validate_room_invite, OnRoom
<1> QED
  BY <1>1, <1>2

\* A join keeps the map sound: only an allowed peer becomes participant.
LEMMA JoinOK ==
  ASSUME NEW rs, RoomsOK(rs), NEW r \in RoomId, NEW p \in PeerId
  PROVE  RoomsOK(join_room(rs, r, p))
<1>1. CASE r \in DOMAIN rs /\ is_peer_allowed(rs[r], p)
  <2> DEFINE rm == add_participant(rs[r], p)
  <2>1. RoomOK(rs[r])
    BY <1>1 DEF RoomsOK
  <2>2. RoomOK(rm) /\ (IdleMarked(rs[r]) => IdleMarked(rm))
    BY <1>1, <2>1, AddParticipantOK
  <2>3. RoomsOK([rs EXCEPT ![r] = rm])
    BY <1>1, <2>2, UpdateOK
  <2> QED
    BY <1>1, <2>3 DEF join_room, OnRoom
<1>2. CASE r \in DOMAIN rs /\ ~is_peer_allowed(rs[r], p)
  <2>1. RoomsOK([rs EXCEPT ![r] = rs[r]])
    BY <1>2, UpdateOK DEF RoomsOK
  <2> QED
    BY <1>2, <2>1 DEF join_room, OnRoom
<1>3. CASE r \notin DOMAIN rs
  BY <1>3 DEF join_room, OnRoom
<1> QED
  BY <1>1, <1>2, <1>3

\* Binding the Space owner to a room without a creator keeps the map sound.
LEMMA AdoptOK ==
  ASSUME NEW rs, RoomsOK(rs), NEW r \in RoomId, NEW owner \in PeerId \cup {NoPeer}
  PROVE  RoomsOK(adopt_creator_if_empty(rs, r, owner))
<1>1. CASE r \in DOMAIN rs /\ rs[r].creator_id = NoPeer
  <2> DEFINE rm == [rs[r] EXCEPT !.creator_id = owner]
  <2>1. RoomOK(rs[r]) /\ rs[r] \in SFURoom
    BY <1>1 DEF RoomsOK, RoomOK
  <2>2. /\ rm \in SFURoom
        /\ rm.participants = rs[r].participants /\ rm.subscribers = rs[r].subscribers
        /\ rm.allowed = rs[r].allowed /\ rm.empty_for = rs[r].empty_for
        /\ rm.room_type = rs[r].room_type
    BY <2>1 DEF SFURoom
  <2>3. NoPeer \notin rs[r].participants \cup rs[r].subscribers
    BY <2>1, PeerAssumption DEF SFURoom
  <2>4. RoomOK(rm) /\ (IdleMarked(rs[r]) => IdleMarked(rm))
    BY <1>1, <2>1, <2>2, <2>3 DEF RoomOK, IdleMarked, is_unused
  <2>5. RoomsOK([rs EXCEPT ![r] = rm])
    BY <1>1, <2>4, UpdateOK
  <2> QED
    BY <1>1, <2>5 DEF adopt_creator_if_empty, OnRoom
<1>2. CASE r \in DOMAIN rs /\ rs[r].creator_id # NoPeer
  <2>1. RoomsOK([rs EXCEPT ![r] = rs[r]])
    BY <1>2, UpdateOK DEF RoomsOK
  <2> QED
    BY <1>2, <2>1 DEF adopt_creator_if_empty, OnRoom
<1>3. CASE r \notin DOMAIN rs
  BY <1>3 DEF adopt_creator_if_empty, OnRoom
<1> QED
  BY <1>1, <1>2, <1>3

\* A leave keeps the map sound.
LEMMA LeaveOK ==
  ASSUME NEW rs, RoomsOK(rs), NEW r \in RoomId, NEW p \in PeerId
  PROVE  RoomsOK(leave_room(rs, r, p))
<1> DEFINE Departed(rm) == mark_unused_if_empty(remove_participant(rm, p))
           departed == OnRoom(rs, r, Departed)
<1>1. RoomsOK(departed)
  <2>1. CASE r \in DOMAIN rs
    <3> DEFINE rm == mark_unused_if_empty(remove_participant(rs[r], p))
    <3>1. RoomOK(rs[r])
      BY <2>1 DEF RoomsOK
    <3>2. RoomOK(remove_participant(rs[r], p))
      BY <3>1, RemoveParticipantOK
    <3>3. RoomOK(rm) /\ IdleMarked(rm)
      BY <3>2, MarkUnusedOK
    <3>4. RoomsOK([rs EXCEPT ![r] = rm])
      BY <2>1, <3>3, UpdateOK
    <3> QED
      BY <2>1, <3>4 DEF OnRoom
  <2>2. CASE r \notin DOMAIN rs
    BY <2>2 DEF OnRoom
  <2> QED
    BY <2>1, <2>2
<1>2. DEFAULT_ROOM_ID \notin Orphaned(departed, {r})
  BY DEF Orphaned
<1>3. RoomsOK(Without(departed, Orphaned(departed, {r})))
  BY <1>1, <1>2, DropOK
<1> QED
  BY <1>3 DEF leave_room

\* The removal on disconnect keeps the map sound.
LEMMA RemoveFromAllOK ==
  ASSUME NEW rs, RoomsOK(rs), NEW p \in PeerId
  PROVE  RoomsOK(remove_peer_from_all(rs, p))
<1> DEFINE departed == [r \in DOMAIN rs |->
                      IF r \in RoomsOf(rs, p) THEN remove_peer_entirely(rs[r], p) ELSE rs[r]]
<1>1. \A r \in DOMAIN rs : /\ RoomOK(departed[r])
                           /\ IdleMarked(rs[r]) => IdleMarked(departed[r])
  BY RemoveEntirelyOK DEF RoomsOK
<1>2. PICK D \in SUBSET RoomId : rs \in [D -> SFURoom]
  BY DEF RoomsOK, HashMap
<1>3. departed \in [D -> SFURoom]
  BY <1>1, <1>2 DEF RoomOK
<1>4. departed \in HashMap(RoomId, SFURoom) /\ DOMAIN departed = DOMAIN rs
  BY <1>2, <1>3 DEF HashMap
<1>5. RoomsOK(departed)
  BY <1>1, <1>4 DEF RoomsOK
<1>6. DEFAULT_ROOM_ID \notin Orphaned(departed, RoomsOf(rs, p))
  BY DEF Orphaned
<1>7. RoomsOK(Without(departed, Orphaned(departed, RoomsOf(rs, p))))
  BY <1>5, <1>6, DropOK
<1> QED
  BY <1>7 DEF remove_peer_from_all

\* Space admission keeps the map sound.
LEMMA SpaceAdmissionOK ==
  ASSUME NEW rs, RoomsOK(rs), NEW p \in PeerId, NEW r \in RoomId,
         NEW proof \in Proofs \cup {NoProof}
  PROVE  RoomsOK(try_space_admission(rs, p, r, proof))
<1>1. CASE proof = NoProof
  BY <1>1 DEF try_space_admission
<1>2. CASE proof # NoProof
  <2>1. proof \in SpaceProof
    BY <1>2, ProofAssumption
  <2>2. /\ proof.node_type \in RoomType
        /\ proof.invite_policy \in InvitePolicy
        /\ proof.owner_pub \in PeerId \cup {NoPeer}
    BY <2>1 DEF SpaceProof, Canonical
  <2> DEFINE made == create_room_with_policy(rs, r, proof.node_type, NoPeer, proof.invite_policy)
             there == adopt_creator_if_empty(made, r, proof.owner_pub)
  <2>3. RoomsOK(made)
    BY <2>2, CreateOK
  <2>4. RoomsOK(there)
    BY <2>2, <2>3, AdoptOK
  <2>5. RoomsOK(allow_peer(there, r, p))
    BY <2>4, AllowPeerOK
  <2> QED
    BY <1>2, <2>4, <2>5 DEF try_space_admission
<1> QED
  BY <1>1, <1>2

-----------------------------------------------------------------------------
(* The specification.                                                      *)

\* Every handler and timer keeps the map sound.
LEMMA NextOK ==
  ASSUME RoomsOK(rooms), [Next]_vars
  PROVE  RoomsOK(rooms')
<1>1. CASE UNCHANGED vars
  BY <1>1 DEF vars
<1>2. CASE JoinNext
  <2>1. PICK p \in PeerId, r \in RoomId, t \in Token \cup {NoToken},
             proof \in Proofs \cup {NoProof} : HandleSfuJoin(p, r, t, proof)
    BY <1>2 DEF JoinNext
  <2> DEFINE proven  == try_space_admission(rooms, p, r, proof)
             granted == TokenOnJoin(proven, p, r, t)
  <2>2. RoomsOK(proven)
    BY SpaceAdmissionOK
  <2>3. RoomsOK(granted)
    <3>1. CASE t = NoToken
      BY <2>2, <3>1 DEF TokenOnJoin
    <3>2. CASE t \in Token
      <4>1. RoomsOK(reregister_invite_token(proven, r, t))
        BY <2>2, <3>2, ReregisterOK
      <4>2. RoomsOK(allow_peer(reregister_invite_token(proven, r, t), r, p))
        BY <4>1, AllowPeerOK
      <4> QED
        BY <2>2, <4>2 DEF TokenOnJoin
    <3> QED
      BY <3>1, <3>2
  <2>4. RoomsOK(join_room(granted, r, p))
    BY <2>3, JoinOK
  <2> QED
    BY <2>1, <2>4 DEF HandleSfuJoin
<1>3. CASE InviteNext
  <2>1. PICK p \in PeerId, r \in RoomId, t \in Token \cup {NoToken},
             proof \in Proofs \cup {NoProof} : HandleSfuRoomInvite(p, r, t, proof)
    BY <1>3 DEF InviteNext
  <2> DEFINE proven == try_space_admission(rooms, p, r, proof)
  <2>2. RoomsOK(proven)
    BY SpaceAdmissionOK
  <2>3. t # NoToken =>
          RoomsOK(validate_room_invite(reregister_invite_token(proven, r, t), r, t, p))
    <3>1. SUFFICES ASSUME t \in Token
                   PROVE  RoomsOK(validate_room_invite(
                                    reregister_invite_token(proven, r, t), r, t, p))
      OBVIOUS
    <3>2. RoomsOK(reregister_invite_token(proven, r, t))
      BY <2>2, <3>1, ReregisterOK
    <3> QED
      BY <3>1, <3>2, ValidateOK
  <2> QED
    BY <2>1, <2>2, <2>3 DEF HandleSfuRoomInvite
<1>4. CASE CreateNext
  <2>1. PICK p \in PeerId, r \in RoomId, type \in RoomType, claimed \in PeerId \cup {NoPeer},
             policy \in InvitePolicy, t \in Token \cup {NoToken}, fresh \in Token :
               HandleSfuRoomCreate(p, r, type, claimed, policy, t, fresh)
    BY <1>4 DEF CreateNext
  <2> DEFINE creator == IF claimed = NoPeer THEN p ELSE claimed
             made    == create_room_with_policy(rooms, r, type, creator, policy)
             in      == allow_peer(made, r, p)
  <2>2. creator \in PeerId \cup {NoPeer}
    OBVIOUS
  <2>3. RoomsOK(made)
    BY <2>2, CreateOK
  <2>4. RoomsOK(in)
    BY <2>3, AllowPeerOK
  <2>5. RoomsOK(generate_invite_token(in, r, fresh))
    BY <2>4, GenerateOK
  <2>6. t # NoToken => RoomsOK(allow_peer(reregister_invite_token(made, r, t), r, p))
    <3>1. SUFFICES ASSUME t \in Token
                   PROVE  RoomsOK(allow_peer(reregister_invite_token(made, r, t), r, p))
      OBVIOUS
    <3>2. RoomsOK(reregister_invite_token(made, r, t))
      BY <2>3, <3>1, ReregisterOK
    <3> QED
      BY <3>2, AllowPeerOK
  <2> QED
    BY <2>1, <2>3, <2>4, <2>5, <2>6 DEF HandleSfuRoomCreate
<1>5. CASE MemberNext
  <2>1. PICK p \in PeerId, r \in RoomId :
               \/ HandleSfuLeave(p, r)
               \/ HandleSfuSubscribe(p, r)
               \/ HandleSfuUnsubscribe(p, r)
               \/ \E fresh \in Token : HandleSfuInviteGenerate(p, r, fresh)
    BY <1>5 DEF MemberNext
  <2>2. CASE HandleSfuLeave(p, r)
    BY <2>2, LeaveOK DEF HandleSfuLeave
  <2>3. CASE HandleSfuSubscribe(p, r)
    <3> DEFINE rm == room_subscribe(rooms[r], p)
    <3>1. r \in DOMAIN rooms /\ is_peer_allowed(rooms[r], p) /\ RoomOK(rooms[r])
      BY <2>3 DEF HandleSfuSubscribe, RoomsOK
    <3>2. RoomOK(rm) /\ (IdleMarked(rooms[r]) => IdleMarked(rm))
      BY <3>1, SubscribeOK
    <3>3. RoomsOK([rooms EXCEPT ![r] = rm])
      BY <3>1, <3>2, UpdateOK
    <3> QED
      BY <2>3, <3>3 DEF HandleSfuSubscribe
  <2>4. CASE HandleSfuUnsubscribe(p, r)
    <3> DEFINE rm == room_unsubscribe(rooms[r], p)
    <3>1. r \in DOMAIN rooms /\ RoomOK(rooms[r])
      BY <2>4 DEF HandleSfuUnsubscribe, RoomsOK
    <3>2. RoomOK(rm) /\ (IdleMarked(rooms[r]) => IdleMarked(rm))
      BY <3>1, UnsubscribeOK
    <3>3. RoomsOK([rooms EXCEPT ![r] = rm])
      BY <3>1, <3>2, UpdateOK
    <3> QED
      BY <2>4, <3>3 DEF HandleSfuUnsubscribe
  <2>5. CASE \E fresh \in Token : HandleSfuInviteGenerate(p, r, fresh)
    BY <2>5, GenerateOK DEF HandleSfuInviteGenerate
  <2> QED
    BY <2>1, <2>2, <2>3, <2>4, <2>5
<1>6. CASE RosterNext
  BY <1>6, CreateOK DEF RosterNext, ApplyRoomRoster
<1>7. CASE \E p \in PeerId : OnPeerDisconnected(p)
  BY <1>7, RemoveFromAllOK DEF OnPeerDisconnected
<1>8. CASE GcIdleRooms
  <2>1. DEFAULT_ROOM_ID \notin Collectable(rooms)
    BY DEF Collectable
  <2> QED
    BY <1>8, <2>1, DropOK DEF GcIdleRooms
<1>9. CASE Tick
  <2>1. \A r \in DOMAIN rooms :
          /\ RoomOK(rooms'[r])
          /\ IdleMarked(rooms[r]) => IdleMarked(rooms'[r])
    <3>1. SUFFICES ASSUME NEW r \in DOMAIN rooms
                   PROVE  /\ RoomOK(rooms'[r])
                          /\ IdleMarked(rooms[r]) => IdleMarked(rooms'[r])
      OBVIOUS
    <3>2. RoomOK(rooms[r]) /\ rooms[r] \in SFURoom
      BY DEF RoomsOK, RoomOK
    <3>3. CASE rooms[r].empty_for \in 0 .. IdleSecs - 1
      <4> DEFINE rm == [rooms[r] EXCEPT !.empty_for = @ + 1]
      <4>1. rooms'[r] = rm
        BY <1>9, <3>3 DEF Tick
      <4>2. rooms[r].empty_for \in Nat /\ rooms[r].empty_for + 1 \in 0 .. IdleSecs
        BY <3>3, LimitAssumption
      <4>3. /\ rm \in SFURoom
            /\ rm.empty_for = rooms[r].empty_for + 1
            /\ rm.participants = rooms[r].participants
            /\ rm.subscribers = rooms[r].subscribers
            /\ rm.allowed = rooms[r].allowed /\ rm.room_type = rooms[r].room_type
            /\ rm.creator_id = rooms[r].creator_id
        BY <3>2, <4>2 DEF SFURoom
      <4>4. rm.empty_for # InUse /\ rooms[r].empty_for # InUse
        BY <4>2, <4>3 DEF InUse
      <4>5. RoomOK(rm) /\ IdleMarked(rm)
        BY <3>2, <4>3, <4>4 DEF RoomOK, IdleMarked, is_unused
      <4> QED
        BY <4>1, <4>5
    <3>4. CASE rooms[r].empty_for \notin 0 .. IdleSecs - 1
      BY <1>9, <3>2, <3>4 DEF Tick
    <3> QED
      BY <3>3, <3>4
  <2>2. PICK D \in SUBSET RoomId : rooms \in [D -> SFURoom]
    BY DEF RoomsOK, HashMap
  <2>3. DOMAIN rooms' = D /\ rooms' = [r \in D |-> rooms'[r]]
    BY <1>9, <2>2 DEF Tick
  <2>4. \A r \in D : rooms'[r] \in SFURoom
    BY <2>1, <2>2 DEF RoomOK
  <2>5. rooms' \in [D -> SFURoom]
    BY <2>3, <2>4
  <2>6. rooms' \in HashMap(RoomId, SFURoom)
    BY <2>5 DEF HashMap
  <2> QED
    BY <2>1, <2>2, <2>3, <2>6 DEF RoomsOK
<1> QED
  BY <1>1, <1>2, <1>3, <1>4, <1>5, <1>6, <1>7, <1>8, <1>9 DEF Next

\* The lobby-only map the manager starts with is sound.
LEMMA InitOK ==
  ASSUME Init
  PROVE  RoomsOK(rooms)
<1> DEFINE lobby == NewRoom("public", NoPeer, "owner")
<1>1. RoomOK(lobby)
  BY NewRoomOK DEF RoomType, InvitePolicy
<1>2. lobby \in SFURoom
  BY <1>1 DEF RoomOK
<1>3. rooms \in [{DEFAULT_ROOM_ID} -> SFURoom] /\ rooms[DEFAULT_ROOM_ID] = lobby
  BY <1>2 DEF Init
<1>4. {DEFAULT_ROOM_ID} \in SUBSET RoomId
  BY RoomAssumption
<1>5. rooms \in HashMap(RoomId, SFURoom)
  BY <1>3, <1>4 DEF HashMap
<1> QED
  BY <1>1, <1>3, <1>5 DEF RoomsOK

\* The sound-map invariant implies each property TLC checks.
LEMMA RoomsOKImplies ==
  ASSUME RoomsOK(rooms)
  PROVE  /\ TypeOK /\ VoiceAndChatDisjoint /\ RoomNeverOverfull
         /\ MembersCanonical /\ PrivateMembersAdmitted /\ IdleAgeMatchesUse
<1>1. PICK D \in SUBSET RoomId : rooms \in [D -> SFURoom]
  BY DEF RoomsOK, HashMap
<1>2. TypeOK
  BY <1>1 DEF RoomsOK, RoomOK, TypeOK
<1> QED
  BY <1>2 DEF RoomsOK, RoomOK, IdleMarked, VoiceAndChatDisjoint, RoomNeverOverfull,
              MembersCanonical, PrivateMembersAdmitted, IdleAgeMatchesUse

\* The room map is always sound.
THEOREM SfuInvariant == Spec => []RoomsOK(rooms)
<1>1. Init => RoomsOK(rooms)
  BY InitOK
<1>2. RoomsOK(rooms) /\ [Next]_vars => RoomsOK(rooms)'
  BY NextOK
<1> QED
  BY <1>1, <1>2, PTL DEF Spec

\* Types: every room in the map is well formed and the lobby never goes away.
THEOREM SfuTypeCorrect == Spec => []TypeOK
<1>1. RoomsOK(rooms) => TypeOK
  BY RoomsOKImplies
<1> QED
  BY <1>1, SfuInvariant, PTL

\* No private room ever holds a peer that its ACL and creator do not cover,
\* for any number of peers, rooms, tokens and proofs.
THEOREM SfuPrivateMembersAdmitted == Spec => []PrivateMembersAdmitted
<1>1. RoomsOK(rooms) => PrivateMembersAdmitted
  BY RoomsOKImplies
<1> QED
  BY <1>1, SfuInvariant, PTL

\* The idle mark is exact, so gc_idle_rooms never drops an occupied room.
THEOREM SfuIdleAgeMatchesUse == Spec => []IdleAgeMatchesUse
<1>1. RoomsOK(rooms) => IdleAgeMatchesUse
  BY RoomsOKImplies
<1> QED
  BY <1>1, SfuInvariant, PTL

\* Nobody is on the voice list and the chat list of one room.
THEOREM SfuVoiceAndChatDisjoint == Spec => []VoiceAndChatDisjoint
<1>1. RoomsOK(rooms) => VoiceAndChatDisjoint
  BY RoomsOKImplies
<1> QED
  BY <1>1, SfuInvariant, PTL

\* No join, on whichever path, fills a room past MAX_ROOM_SIZE.
THEOREM SfuRoomNeverOverfull == Spec => []RoomNeverOverfull
<1>1. RoomsOK(rooms) => RoomNeverOverfull
  BY RoomsOKImplies
<1> QED
  BY <1>1, SfuInvariant, PTL

\* However identities are spelled on the wire, rooms hold canonical ids only.
THEOREM SfuMembersCanonical == Spec => []MembersCanonical
<1>1. RoomsOK(rooms) => MembersCanonical
  BY RoomsOKImplies
<1> QED
  BY <1>1, SfuInvariant, PTL

-----------------------------------------------------------------------------
(* Admissions.  Every method hands a room's type, ACL and creator on, and   *)
(* a sound private room holds nobody outside ACL and creator; so a member   *)
(* that leaves is still admitted by what the room keeps.                    *)

\* What a room keeps of itself: its type, its ACL and its creator if it has one.
Inherits(rm, new) ==
  /\ new.room_type = rm.room_type
  /\ rm.allowed \subseteq new.allowed
  /\ rm.creator_id # NoPeer => new.creator_id = rm.creator_id

\* The map loses no room, and every room inherits.
Grows(rs, new) ==
  /\ DOMAIN rs \subseteq DOMAIN new
  /\ \A r \in DOMAIN rs : Inherits(rs[r], new[r])

\* Rooms that survive inherit; rooms that go held nobody outside `leaving'.
Sheds(rs, new, leaving) ==
  /\ \A r \in DOMAIN rs \cap DOMAIN new : Inherits(rs[r], new[r])
  /\ \A r \in DOMAIN rs \ DOMAIN new :
       rs[r].participants \cup rs[r].subscribers \subseteq leaving

\* Between two sound rooms that inherit, no admission is lost.
LEMMA InheritsAdmits ==
  ASSUME NEW rm, RoomOK(rm), NEW new, Inherits(rm, new), NEW p \in PeerId,
         is_peer_allowed(rm, p)
  PROVE  is_peer_allowed(new, p)
<1> DEFINE id == normalize_peer_id[p]
<1>1. id \in PeerId /\ id # NoPeer
  BY PeerAssumption
<1>2. CASE rm.room_type = "public"
  BY <1>2 DEF Inherits, is_peer_allowed
<1>3. CASE rm.room_type # "public"
  <2>1. rm.room_type = "private"
    BY <1>3 DEF RoomOK, SFURoom, RoomType
  <2>2. id \in rm.allowed \cup {rm.creator_id}
    BY <1>3, <2>1 DEF RoomOK, is_peer_allowed
  <2> QED
    BY <1>1, <2>2 DEF Inherits, is_peer_allowed
<1> QED
  BY <1>2, <1>3

\* The methods that change the membership leave type, ACL and creator alone.
LEMMA MembershipInherits ==
  ASSUME NEW rm \in SFURoom, NEW p \in PeerId
  PROVE  /\ Inherits(rm, mark_unused_if_empty(rm))
         /\ Inherits(rm, add_participant(rm, p))
         /\ Inherits(rm, remove_participant(rm, p))
         /\ Inherits(rm, mark_unused_if_empty(remove_participant(rm, p)))
         /\ Inherits(rm, room_subscribe(rm, p))
         /\ Inherits(rm, room_unsubscribe(rm, p))
         /\ Inherits(rm, remove_peer_entirely(rm, p))
<1> USE DEF Inherits, SFURoom, mark_unused_if_empty, mark_in_use
<1>1. Inherits(rm, mark_unused_if_empty(rm))
  OBVIOUS
<1>2. Inherits(rm, add_participant(rm, p))
  BY DEF add_participant
<1>3. Inherits(rm, remove_participant(rm, p))
  BY DEF remove_participant
<1>4. Inherits(rm, mark_unused_if_empty(remove_participant(rm, p)))
  BY DEF remove_participant
<1>5. Inherits(rm, room_subscribe(rm, p))
  BY DEF room_subscribe
<1>6. Inherits(rm, room_unsubscribe(rm, p))
  BY DEF room_unsubscribe
<1>7. Inherits(rm, remove_peer_entirely(rm, p))
  BY DEF remove_peer_entirely
<1> QED
  BY <1>1, <1>2, <1>3, <1>4, <1>5, <1>6, <1>7

\* The methods on ACL and tokens at most add to the ACL.
LEMMA AdmissionInherits ==
  ASSUME NEW rm \in SFURoom, NEW p \in PeerId, NEW t
  PROVE  /\ Inherits(rm, room_allow_peer(rm, p))
         /\ Inherits(rm, room_generate_invite_token(rm, t))
         /\ Inherits(rm, room_reregister_invite_token(rm, t))
         /\ Inherits(rm, validate_and_consume_token(rm, t, p))
<1> USE DEF Inherits, SFURoom, SetToken
<1>1. Inherits(rm, room_allow_peer(rm, p))
  BY DEF room_allow_peer
<1>2. Inherits(rm, room_generate_invite_token(rm, t))
  BY DEF room_generate_invite_token
<1>3. Inherits(rm, room_reregister_invite_token(rm, t))
  BY DEF room_reregister_invite_token
<1>4. Inherits(rm, validate_and_consume_token(rm, t, p))
  BY DEF validate_and_consume_token, room_allow_peer
<1> QED
  BY <1>1, <1>2, <1>3, <1>4

\* Growth composes.
LEMMA GrowsTrans ==
  ASSUME NEW a, NEW b, NEW c, Grows(a, b), Grows(b, c)
  PROVE  Grows(a, c)
<1>1. DOMAIN a \subseteq DOMAIN c
  BY DEF Grows
<1>2. ASSUME NEW r \in DOMAIN a
      PROVE  Inherits(a[r], c[r])
  <2>1. Inherits(a[r], b[r]) /\ Inherits(b[r], c[r])
    BY DEF Grows
  <2> QED
    BY <2>1 DEF Inherits
<1> QED
  BY <1>1, <1>2 DEF Grows

\* A map grows into itself.
LEMMA GrowsSelf ==
  ASSUME NEW rs
  PROVE  Grows(rs, rs)
BY DEF Grows, Inherits

\* Replacing a room by one that inherits grows the map.
LEMMA UpdateGrows ==
  ASSUME NEW rs, NEW r \in DOMAIN rs, NEW rm, Inherits(rs[r], rm)
  PROVE  Grows(rs, [rs EXCEPT ![r] = rm])
<1> DEFINE new == [rs EXCEPT ![r] = rm]
<1>1. DOMAIN new = DOMAIN rs
  OBVIOUS
<1>2. ASSUME NEW x \in DOMAIN rs
      PROVE  Inherits(rs[x], new[x])
  BY DEF Inherits
<1> QED
  BY <1>1, <1>2 DEF Grows

\* Materializing a room grows the map.
LEMMA CreateGrows ==
  ASSUME NEW rs, NEW r, NEW type, NEW c, NEW pol
  PROVE  Grows(rs, create_room_with_policy(rs, r, type, c, pol))
<1>1. CASE r \in DOMAIN rs
  BY <1>1, GrowsSelf DEF create_room_with_policy
<1>2. CASE r \notin DOMAIN rs
  <2> DEFINE rm == mark_unused_if_empty(NewRoom(type, c, pol))
  <2>1. \A x \in DOMAIN rs : x \in DOMAIN Put(rs, r, rm) /\ Put(rs, r, rm)[x] = rs[x]
    BY <1>2 DEF Put
  <2>2. Grows(rs, Put(rs, r, rm))
    BY <2>1 DEF Grows, Inherits
  <2> QED
    BY <1>2, <2>2 DEF create_room_with_policy
<1> QED
  BY <1>1, <1>2

\* Rooms of a sound map are rooms.
LEMMA RoomTyped ==
  ASSUME NEW rs, RoomsOK(rs), NEW r \in DOMAIN rs
  PROVE  RoomOK(rs[r]) /\ rs[r] \in SFURoom
BY DEF RoomsOK, RoomOK

\* The manager's methods on one room grow the map.
LEMMA OnRoomGrows ==
  ASSUME NEW rs, RoomsOK(rs), NEW r, NEW p \in PeerId, NEW t,
         NEW owner
  PROVE  /\ Grows(rs, allow_peer(rs, r, p))
         /\ Grows(rs, reregister_invite_token(rs, r, t))
         /\ Grows(rs, generate_invite_token(rs, r, t))
         /\ Grows(rs, validate_room_invite(rs, r, t, p))
         /\ Grows(rs, join_room(rs, r, p))
         /\ Grows(rs, adopt_creator_if_empty(rs, r, owner))
<1> USE DEF allow_peer, reregister_invite_token, generate_invite_token,
            validate_room_invite, join_room, adopt_creator_if_empty, OnRoom
<1>1. CASE r \notin DOMAIN rs
  BY <1>1, GrowsSelf
<1>2. CASE r \in DOMAIN rs
  <2> DEFINE rm == rs[r]
             joined == IF is_peer_allowed(rm, p) THEN add_participant(rm, p) ELSE rm
             adopted == IF rm.creator_id = NoPeer THEN [rm EXCEPT !.creator_id = owner]
                                                  ELSE rm
  <2>1. rm \in SFURoom
    BY <1>2, RoomTyped
  <2>2. Inherits(rm, joined)
    <3>1. Inherits(rm, add_participant(rm, p)) /\ Inherits(rm, rm)
      BY <2>1, MembershipInherits DEF Inherits
    <3> QED
      BY <3>1
  <2>3. Inherits(rm, adopted)
    BY <2>1 DEF Inherits, SFURoom
  <2>4. Inherits(rm, room_allow_peer(rm, p))
    BY <2>1, AdmissionInherits
  <2>5. Inherits(rm, room_reregister_invite_token(rm, t))
    BY <2>1, AdmissionInherits
  <2>6. Inherits(rm, room_generate_invite_token(rm, t))
    BY <2>1, AdmissionInherits
  <2>7. Inherits(rm, validate_and_consume_token(rm, t, p))
    BY <2>1, AdmissionInherits
  <2>8. Grows(rs, [rs EXCEPT ![r] = joined])
    BY <1>2, <2>2, UpdateGrows
  <2>9. Grows(rs, [rs EXCEPT ![r] = adopted])
    BY <1>2, <2>3, UpdateGrows
  <2>10. Grows(rs, [rs EXCEPT ![r] = room_allow_peer(rm, p)])
    BY <1>2, <2>4, UpdateGrows
  <2>11. Grows(rs, [rs EXCEPT ![r] = room_reregister_invite_token(rm, t)])
    BY <1>2, <2>5, UpdateGrows
  <2>12. Grows(rs, [rs EXCEPT ![r] = room_generate_invite_token(rm, t)])
    BY <1>2, <2>6, UpdateGrows
  <2>13. Grows(rs, [rs EXCEPT ![r] = validate_and_consume_token(rm, t, p)])
    BY <1>2, <2>7, UpdateGrows
  <2> QED
    BY <1>2, <2>8, <2>9, <2>10, <2>11, <2>12, <2>13
<1> QED
  BY <1>1, <1>2

\* Space admission grows the map.
LEMMA SpaceAdmissionGrows ==
  ASSUME NEW rs, RoomsOK(rs), NEW p \in PeerId, NEW r \in RoomId,
         NEW proof \in Proofs \cup {NoProof}
  PROVE  Grows(rs, try_space_admission(rs, p, r, proof))
<1>1. CASE proof = NoProof
  BY <1>1, GrowsSelf DEF try_space_admission
<1>2. CASE proof # NoProof
  <2>1. proof \in SpaceProof
    BY <1>2, ProofAssumption
  <2>2. /\ proof.node_type \in RoomType
        /\ proof.invite_policy \in InvitePolicy
        /\ proof.owner_pub \in PeerId \cup {NoPeer}
    BY <2>1 DEF SpaceProof, Canonical
  <2> DEFINE made == create_room_with_policy(rs, r, proof.node_type, NoPeer, proof.invite_policy)
             there == adopt_creator_if_empty(made, r, proof.owner_pub)
  <2>3. RoomsOK(made) /\ Grows(rs, made)
    BY <2>2, CreateOK, CreateGrows
  <2>4. RoomsOK(there) /\ Grows(made, there)
    BY <2>2, <2>3, AdoptOK, OnRoomGrows
  <2>5. Grows(there, allow_peer(there, r, p))
    BY <2>4, OnRoomGrows
  <2> HIDE DEF made, there
  <2>6. Grows(rs, there)
    BY <2>3, <2>4, GrowsTrans
  <2>7. Grows(rs, allow_peer(there, r, p))
    BY <2>5, <2>6, GrowsTrans
  <2> QED
    BY <1>2, <2>6, <2>7 DEF try_space_admission, made, there
<1> QED
  BY <1>1, <1>2

\* A growing map sheds nothing.
LEMMA GrowsSheds ==
  ASSUME NEW rs, NEW new, Grows(rs, new)
  PROVE  Sheds(rs, new, {})
BY DEF Grows, Sheds

\* A leave drops at most the room that is left, with its last member.
LEMMA LeaveSheds ==
  ASSUME NEW rs, RoomsOK(rs), NEW r \in RoomId, NEW p \in PeerId
  PROVE  /\ Sheds(rs, leave_room(rs, r, p), {normalize_peer_id[p]})
         /\ DOMAIN rs \ DOMAIN leave_room(rs, r, p) \subseteq {r}
<1> DEFINE Departed(rm) == mark_unused_if_empty(remove_participant(rm, p))
           departed == OnRoom(rs, r, Departed)
           gone == Orphaned(departed, {r})
<1>1. leave_room(rs, r, p) = Without(departed, gone)
  BY DEF leave_room
<1>2. Grows(rs, departed)
  <2>1. CASE r \in DOMAIN rs
    <3>1. Inherits(rs[r], mark_unused_if_empty(remove_participant(rs[r], p)))
      BY <2>1, RoomTyped, MembershipInherits
    <3>2. Grows(rs, [rs EXCEPT ![r] = mark_unused_if_empty(remove_participant(rs[r], p))])
      BY <2>1, <3>1, UpdateGrows
    <3> QED
      BY <2>1, <3>2 DEF OnRoom
  <2>2. CASE r \notin DOMAIN rs
    BY <2>2, GrowsSelf DEF OnRoom
  <2> QED
    BY <2>1, <2>2
<1>3. ASSUME NEW x \in gone, x \in DOMAIN rs
      PROVE  rs[x].participants \cup rs[x].subscribers \subseteq {normalize_peer_id[p]}
  <2>1. x = r /\ is_unused(departed[r])
    BY <1>3 DEF Orphaned
  <2>2. departed[r] = mark_unused_if_empty(remove_participant(rs[r], p))
    <3>1. \E D \in SUBSET RoomId : rs \in [D -> SFURoom]
      BY DEF RoomsOK, HashMap
    <3> QED
      BY <1>3, <2>1, <3>1 DEF OnRoom
  <2>3. rs[r] \in SFURoom
    BY <1>3, <2>1, RoomTyped
  <2>4. /\ rs[r].participants \ {normalize_peer_id[p]} \subseteq departed[r].participants
        /\ rs[r].subscribers = departed[r].subscribers
    BY <2>2, <2>3 DEF mark_unused_if_empty, remove_participant, SFURoom
  <2>5. rs[r].participants \cup rs[r].subscribers \subseteq {normalize_peer_id[p]}
    BY <2>1, <2>4 DEF is_unused
  <2> QED
    BY <2>1, <2>5
<1>5. gone \subseteq {r}
  BY DEF Orphaned
<1> HIDE DEF departed, gone
<1>4. /\ Sheds(rs, Without(departed, gone), {normalize_peer_id[p]})
      /\ DOMAIN rs \ DOMAIN Without(departed, gone) \subseteq {r}
  <2>1. /\ DOMAIN Without(departed, gone) = DOMAIN departed \ gone
        /\ \A x \in DOMAIN departed \ gone : Without(departed, gone)[x] = departed[x]
    BY DEF Without
  <2> QED
    BY <1>2, <1>3, <1>5, <2>1 DEF Sheds, Grows
<1> QED
  BY <1>1, <1>4

\* The removal on disconnect drops a room at most with its last member.
LEMMA RemoveFromAllSheds ==
  ASSUME NEW rs, RoomsOK(rs), NEW p \in PeerId
  PROVE  Sheds(rs, remove_peer_from_all(rs, p), {normalize_peer_id[p]})
<1> DEFINE departed == [r \in DOMAIN rs |->
                      IF r \in RoomsOf(rs, p) THEN remove_peer_entirely(rs[r], p) ELSE rs[r]]
           gone == Orphaned(departed, RoomsOf(rs, p))
<1>1. remove_peer_from_all(rs, p) = Without(departed, gone)
  BY DEF remove_peer_from_all
<1>2. Grows(rs, departed)
  <2>1. ASSUME NEW r \in DOMAIN rs
        PROVE  Inherits(rs[r], departed[r])
    <3>1. Inherits(rs[r], remove_peer_entirely(rs[r], p)) /\ Inherits(rs[r], rs[r])
      BY RoomTyped, MembershipInherits DEF Inherits
    <3> QED
      BY <3>1
  <2> QED
    BY <2>1 DEF Grows
<1>3. ASSUME NEW x \in gone, x \in DOMAIN rs
      PROVE  rs[x].participants \cup rs[x].subscribers \subseteq {normalize_peer_id[p]}
  <2> DEFINE out == remove_peer_entirely(rs[x], p)
  <2>1. is_unused(out)
    BY <1>3 DEF Orphaned
  <2>2. rs[x] \in SFURoom
    BY <1>3, RoomTyped
  <2>3. /\ rs[x].participants \ {normalize_peer_id[p]} \subseteq out.participants
        /\ rs[x].subscribers \ {normalize_peer_id[p]} \subseteq out.subscribers
    BY <2>2 DEF mark_unused_if_empty, remove_peer_entirely, SFURoom
  <2>4. rs[x].participants \cup rs[x].subscribers \subseteq {normalize_peer_id[p]}
    BY <2>1, <2>3 DEF is_unused
  <2> QED
    BY <2>4
<1> HIDE DEF departed, gone
<1>4. Sheds(rs, Without(departed, gone), {normalize_peer_id[p]})
  <2>1. /\ DOMAIN Without(departed, gone) = DOMAIN departed \ gone
        /\ \A x \in DOMAIN departed \ gone : Without(departed, gone)[x] = departed[x]
    BY DEF Without
  <2> QED
    BY <1>2, <1>3, <2>1 DEF Sheds, Grows
<1> QED
  BY <1>1, <1>4

\* Every handler and timer but the two departures drops only empty rooms, and
\* surviving rooms inherit.
LEMMA NextSheds ==
  ASSUME RoomsOK(rooms), [Next]_vars
  PROVE  \/ Sheds(rooms, rooms', {})
         \/ \E p \in PeerId, r \in RoomId :
              /\ HandleSfuLeave(p, r)
              /\ Sheds(rooms, rooms', {normalize_peer_id[p]})
              /\ DOMAIN rooms \ DOMAIN rooms' \subseteq {r}
         \/ \E p \in PeerId :
              OnPeerDisconnected(p) /\ Sheds(rooms, rooms', {normalize_peer_id[p]})
<1>1. CASE UNCHANGED vars
  BY <1>1, GrowsSelf, GrowsSheds DEF vars
<1>2. CASE JoinNext
  <2>1. PICK p \in PeerId, r \in RoomId, t \in Token \cup {NoToken},
             proof \in Proofs \cup {NoProof} : HandleSfuJoin(p, r, t, proof)
    BY <1>2 DEF JoinNext
  <2> DEFINE proven  == try_space_admission(rooms, p, r, proof)
             seeded  == reregister_invite_token(proven, r, t)
             granted == TokenOnJoin(proven, p, r, t)
  <2>2. RoomsOK(proven) /\ Grows(rooms, proven)
    BY SpaceAdmissionOK, SpaceAdmissionGrows
  <2> HIDE DEF proven
  <2>3. RoomsOK(granted) /\ Grows(proven, granted)
    <3>1. CASE t = NoToken
      BY <2>2, <3>1, GrowsSelf DEF TokenOnJoin
    <3>2. CASE t # NoToken
      <4>1. RoomsOK(seeded) /\ Grows(proven, seeded)
        BY <2>2, <3>2, ReregisterOK, OnRoomGrows
      <4> HIDE DEF seeded
      <4>2. RoomsOK(allow_peer(seeded, r, p)) /\ Grows(seeded, allow_peer(seeded, r, p))
        BY <4>1, AllowPeerOK, OnRoomGrows
      <4>3. Grows(proven, allow_peer(seeded, r, p))
        BY <4>1, <4>2, GrowsTrans
      <4> QED
        BY <3>2, <4>2, <4>3 DEF TokenOnJoin, seeded
    <3> QED
      BY <3>1, <3>2
  <2> HIDE DEF granted
  <2>4. Grows(granted, join_room(granted, r, p))
    BY <2>3, OnRoomGrows
  <2>5. Grows(rooms, join_room(granted, r, p))
    <3>1. Grows(rooms, granted)
      BY <2>2, <2>3, GrowsTrans
    <3> QED
      BY <3>1, <2>4, GrowsTrans
  <2> QED
    BY <2>1, <2>5, GrowsSheds DEF HandleSfuJoin, granted, proven
<1>3. CASE InviteNext
  <2>1. PICK p \in PeerId, r \in RoomId, t \in Token \cup {NoToken},
             proof \in Proofs \cup {NoProof} : HandleSfuRoomInvite(p, r, t, proof)
    BY <1>3 DEF InviteNext
  <2> DEFINE proven == try_space_admission(rooms, p, r, proof)
             seeded == reregister_invite_token(proven, r, t)
  <2>2. RoomsOK(proven) /\ Grows(rooms, proven)
    BY SpaceAdmissionOK, SpaceAdmissionGrows
  <2> HIDE DEF proven
  <2>3. ASSUME t # NoToken
        PROVE  Grows(rooms, validate_room_invite(seeded, r, t, p))
    <3>1. RoomsOK(seeded) /\ Grows(proven, seeded)
      BY <2>2, <2>3, ReregisterOK, OnRoomGrows
    <3> HIDE DEF seeded
    <3>2. Grows(seeded, validate_room_invite(seeded, r, t, p))
      BY <3>1, OnRoomGrows
    <3>3. Grows(rooms, seeded)
      BY <2>2, <3>1, GrowsTrans
    <3> QED
      BY <3>2, <3>3, GrowsTrans
  <2>4. \/ rooms' = proven
        \/ t # NoToken /\ rooms' = validate_room_invite(seeded, r, t, p)
    BY <2>1 DEF HandleSfuRoomInvite, proven
  <2> HIDE DEF seeded
  <2>5. Grows(rooms, rooms')
    BY <2>2, <2>3, <2>4
  <2> QED
    BY <2>5, GrowsSheds
<1>4. CASE CreateNext
  <2>1. PICK p \in PeerId, r \in RoomId, type \in RoomType, claimed \in PeerId \cup {NoPeer},
             policy \in InvitePolicy, t \in Token \cup {NoToken}, fresh \in Token :
               HandleSfuRoomCreate(p, r, type, claimed, policy, t, fresh)
    BY <1>4 DEF CreateNext
  <2> DEFINE creator == IF claimed = NoPeer THEN p ELSE claimed
             made    == create_room_with_policy(rooms, r, type, creator, policy)
             in      == allow_peer(made, r, p)
             minted  == generate_invite_token(in, r, fresh)
             seeded  == reregister_invite_token(made, r, t)
             back    == allow_peer(seeded, r, p)
  <2>2. creator \in PeerId \cup {NoPeer}
    OBVIOUS
  <2>3. \/ rooms' = made \/ rooms' = in \/ rooms' = minted
        \/ t # NoToken /\ rooms' = back
    BY <2>1 DEF HandleSfuRoomCreate
  <2> HIDE DEF creator
  <2>4. RoomsOK(made) /\ Grows(rooms, made)
    BY <2>2, CreateOK, CreateGrows
  <2> HIDE DEF made
  <2>5. RoomsOK(in) /\ Grows(made, in)
    BY <2>4, AllowPeerOK, OnRoomGrows
  <2>6. Grows(rooms, in)
    BY <2>4, <2>5, GrowsTrans
  <2> HIDE DEF in
  <2>7. Grows(in, minted)
    BY <2>5, OnRoomGrows
  <2>8. Grows(rooms, minted)
    BY <2>6, <2>7, GrowsTrans
  <2>9. ASSUME t # NoToken
        PROVE  Grows(rooms, back)
    <3>1. RoomsOK(seeded) /\ Grows(made, seeded)
      BY <2>4, <2>9, ReregisterOK, OnRoomGrows
    <3> HIDE DEF seeded
    <3>2. Grows(seeded, back)
      BY <3>1, OnRoomGrows
    <3>3. Grows(rooms, seeded)
      BY <2>4, <3>1, GrowsTrans
    <3> HIDE DEF back
    <3> QED
      BY <3>2, <3>3, GrowsTrans
  <2> HIDE DEF minted, back
  <2>10. Grows(rooms, rooms')
    BY <2>3, <2>4, <2>6, <2>8, <2>9
  <2> QED
    BY <2>10, GrowsSheds
<1>5. CASE MemberNext
  <2>1. PICK p \in PeerId, r \in RoomId :
               \/ HandleSfuLeave(p, r)
               \/ HandleSfuSubscribe(p, r)
               \/ HandleSfuUnsubscribe(p, r)
               \/ \E fresh \in Token : HandleSfuInviteGenerate(p, r, fresh)
    BY <1>5 DEF MemberNext
  <2>2. CASE HandleSfuLeave(p, r)
    BY <2>2, LeaveSheds DEF HandleSfuLeave
  <2>3. CASE HandleSfuSubscribe(p, r)
    <3>1. r \in DOMAIN rooms /\ rooms' = [rooms EXCEPT ![r] = room_subscribe(rooms[r], p)]
      BY <2>3 DEF HandleSfuSubscribe
    <3>2. Inherits(rooms[r], room_subscribe(rooms[r], p))
      BY <3>1, RoomTyped, MembershipInherits
    <3>3. Grows(rooms, rooms')
      BY <3>1, <3>2, UpdateGrows
    <3> QED
      BY <3>3, GrowsSheds
  <2>4. CASE HandleSfuUnsubscribe(p, r)
    <3>1. r \in DOMAIN rooms /\ rooms' = [rooms EXCEPT ![r] = room_unsubscribe(rooms[r], p)]
      BY <2>4 DEF HandleSfuUnsubscribe
    <3>2. Inherits(rooms[r], room_unsubscribe(rooms[r], p))
      BY <3>1, RoomTyped, MembershipInherits
    <3>3. Grows(rooms, rooms')
      BY <3>1, <3>2, UpdateGrows
    <3> QED
      BY <3>3, GrowsSheds
  <2>5. CASE \E fresh \in Token : HandleSfuInviteGenerate(p, r, fresh)
    <3>1. PICK fresh \in Token : rooms' = generate_invite_token(rooms, r, fresh)
      BY <2>5 DEF HandleSfuInviteGenerate
    <3>2. Grows(rooms, rooms')
      BY <3>1, OnRoomGrows
    <3> QED
      BY <3>2, GrowsSheds
  <2> QED
    BY <2>1, <2>2, <2>3, <2>4, <2>5
<1>6. CASE RosterNext
  <2>1. Grows(rooms, rooms')
    BY <1>6, CreateGrows DEF RosterNext, ApplyRoomRoster
  <2> QED
    BY <2>1, GrowsSheds
<1>7. CASE \E p \in PeerId : OnPeerDisconnected(p)
  BY <1>7, RemoveFromAllSheds DEF OnPeerDisconnected
<1>8. CASE GcIdleRooms
  <2>1. /\ DOMAIN rooms' = DOMAIN rooms \ Collectable(rooms)
        /\ \A r \in DOMAIN rooms' : rooms'[r] = rooms[r]
    BY <1>8 DEF GcIdleRooms, Without
  <2>2. ASSUME NEW r \in DOMAIN rooms, r \in Collectable(rooms)
        PROVE  rooms[r].participants \cup rooms[r].subscribers = {}
    <3>1. RoomOK(rooms[r]) /\ rooms[r] \in SFURoom
      BY RoomTyped
    <3>2. rooms[r].empty_for # InUse /\ rooms[r].creator_id \in PeerId
      BY <2>2, <3>1, LimitAssumption DEF Collectable, SFURoom, InUse
    <3>3. rooms[r].participants = {} /\ rooms[r].subscribers = {}
      BY <3>1, <3>2 DEF RoomOK, is_unused
    <3> QED
      BY <3>2, <3>3
  <2> QED
    BY <2>1, <2>2 DEF Sheds, Inherits
<1>9. CASE Tick
  <2>1. DOMAIN rooms' = DOMAIN rooms
    BY <1>9 DEF Tick
  <2>2. ASSUME NEW r \in DOMAIN rooms
        PROVE  Inherits(rooms[r], rooms'[r])
    <3>1. rooms[r] \in SFURoom
      BY RoomTyped
    <3>2. \/ rooms'[r] = rooms[r]
          \/ rooms'[r] = [rooms[r] EXCEPT !.empty_for = @ + 1]
      BY <1>9 DEF Tick
    <3> QED
      BY <3>1, <3>2 DEF Inherits, SFURoom
  <2> QED
    BY <2>1, <2>2 DEF Sheds
<1> QED
  BY <1>1, <1>2, <1>3, <1>4, <1>5, <1>6, <1>7, <1>8, <1>9 DEF Next

\* Once admitted to a room, a peer may enter it for as long as the room lives.
THEOREM SfuNoAdmissionLost == Spec => NoAdmissionLost
<1> DEFINE Kept == \A r \in DOMAIN rooms \cap DOMAIN rooms', p \in PeerId :
                     is_peer_allowed(rooms[r], p) => is_peer_allowed(rooms'[r], p)
<1>1. RoomsOK(rooms) /\ [Next]_vars => [Kept]_vars
  <2>1. SUFFICES ASSUME RoomsOK(rooms), [Next]_vars
                 PROVE  Kept
    OBVIOUS
  <2>2. \A r \in DOMAIN rooms \cap DOMAIN rooms' : Inherits(rooms[r], rooms'[r])
    BY <2>1, NextSheds DEF Sheds
  <2>3. ASSUME NEW r \in DOMAIN rooms \cap DOMAIN rooms', NEW p \in PeerId,
               is_peer_allowed(rooms[r], p)
        PROVE  is_peer_allowed(rooms'[r], p)
    <3>1. RoomOK(rooms[r])
      BY <2>1, RoomTyped
    <3>2. Inherits(rooms[r], rooms'[r])
      BY <2>2
    <3> QED
      BY <2>3, <3>1, <3>2, InheritsAdmits
  <2> QED
    BY <2>3
<1> QED
  BY <1>1, SfuInvariant, PTL DEF Spec, NoAdmissionLost

\* A room goes only when nobody is in it, or in the step in which its last
\* member leaves it or disconnects.
THEOREM SfuRoomsOutliveMembers == Spec => RoomsOutliveMembers
<1> DEFINE Last == \A r \in DOMAIN rooms \ DOMAIN rooms' :
                     is_unused(rooms[r]) \/ LastMemberGoes(r)
<1>1. RoomsOK(rooms) /\ [Next]_vars => [Last]_vars
  <2>1. SUFFICES ASSUME RoomsOK(rooms), [Next]_vars, NEW r \in DOMAIN rooms \ DOMAIN rooms',
                        ~is_unused(rooms[r])
                 PROVE  LastMemberGoes(r)
    OBVIOUS
  <2>2. rooms[r].participants \cup rooms[r].subscribers # {}
    BY <2>1 DEF is_unused
  <2>3. CASE Sheds(rooms, rooms', {})
    BY <2>1, <2>2, <2>3 DEF Sheds
  <2>4. ASSUME NEW p \in PeerId, NEW x \in RoomId,
               HandleSfuLeave(p, x),
               Sheds(rooms, rooms', {normalize_peer_id[p]}),
               DOMAIN rooms \ DOMAIN rooms' \subseteq {x}
        PROVE  LastMemberGoes(r)
    <3>1. x = r
      BY <2>1, <2>4
    <3>2. rooms[r].participants \cup rooms[r].subscribers = {normalize_peer_id[p]}
      BY <2>1, <2>2, <2>4 DEF Sheds
    <3> QED
      BY <2>4, <3>1, <3>2 DEF LastMemberGoes
  <2>5. ASSUME NEW p \in PeerId, OnPeerDisconnected(p),
               Sheds(rooms, rooms', {normalize_peer_id[p]})
        PROVE  LastMemberGoes(r)
    <3>1. rooms[r].participants \cup rooms[r].subscribers = {normalize_peer_id[p]}
      BY <2>1, <2>2, <2>5 DEF Sheds
    <3> QED
      BY <2>5, <3>1 DEF LastMemberGoes
  <2> QED
    BY <2>1, <2>3, <2>4, <2>5, NextSheds
<1> QED
  BY <1>1, SfuInvariant, PTL DEF Spec, RoomsOutliveMembers

-----------------------------------------------------------------------------
(* The client's rooms.  Between its handlers the manager remembers a room in *)
(* several places; what makes a resumed room safe is that no node is armed   *)
(* for it any more, and that every handler that could arm one again takes    *)
(* the room for lost.                                                        *)

SeatOrNone == [sn : Node \cup {None}, room : Room \cup {None}]

RoomMessage == [type : {"SfuJoin", "SfuLeave"}, room : Room]

\* The events of a supernode's session.
LinkEvent   == [type : {"WsConnected", "WsDisconnected"}]
MembersEvent == [type : {"SfuMembers"}, room : Room]
DenialEvent == [type : {"SfuJoinResult"}, room : Room, reason : {"room_absent", "not_allowed"}]
NodeEvent   == LinkEvent \cup MembersEvent \cup DenialEvent

RoomCommand == [type : {"JoinRoom", "LeaveRoom"}, sn : Node, room : Room]
NodeCommand == [type : {"RemoveSupernode"}, sn : Node, room : {None}]
UiCommand   == RoomCommand \cup NodeCommand

CmState ==
  [supernodes                : [Node -> {"none", "down", "up"}],
   chan                      : [Node -> Seq(RoomMessage)],
   current                   : SeatOrNone,
   failover_in_progress      : SUBSET Node,
   failover_pending_room     : Room \cup {None},
   pending_failover_rejoin   : HashMap(Node, Room),
   pending_room_join_retries : HashMap(Node \X Room, Nat)]

FailoverTypes ==
  /\ cm \in CmState
  /\ cmds \in Seq(UiCommand)
  /\ inbox \in [Node -> Seq(NodeEvent)]
  /\ voice \in {Nobody} \cup [sn : Node, room : Room]
  /\ resumed \in BOOLEAN

\* m has room r for its own and no node is armed for it.
Settles(m, r) ==
  /\ m.current.room = r
  /\ \A x \in DOMAIN m.pending_failover_rejoin : m.pending_failover_rejoin[x] # r

\* A resumed room is the one the user is in, with no command about to change
\* that, and no node is armed for it.
ResumedIsSafe == resumed => cmds = <<>> /\ voice.room # None /\ Settles(cm, voice.room)

FailoverInv == FailoverTypes /\ ResumedIsSafe

\* What a step of the manager keeps of its current room and its armed nodes.
KeepsRoom(m, new) ==
  /\ new.current = m.current
  /\ \A x \in DOMAIN new.pending_failover_rejoin :
       /\ x \in DOMAIN m.pending_failover_rejoin
       /\ new.pending_failover_rejoin[x] = m.pending_failover_rejoin[x]

LEMMA KeepsSettled ==
  ASSUME NEW m, NEW new, NEW r, KeepsRoom(m, new), Settles(m, r)
  PROVE  Settles(new, r)
BY DEF KeepsRoom, Settles

LEMMA FailoverNone == None \notin Node /\ None \notin Room
BY FailoverAssumption

\* Sending touches the channel only.
LEMMA SendKeeps ==
  ASSUME NEW m \in CmState, NEW n \in Node, NEW msg \in RoomMessage
  PROVE  Send(m, n, msg) \in CmState /\ KeepsRoom(m, Send(m, n, msg))
<1>1. Append(m.chan[n], msg) \in Seq(RoomMessage)
  BY DEF CmState
<1>2. CASE m.supernodes[n] = "up" /\ Len(m.chan[n]) < SendQueue
  <2> DEFINE c == [m.chan EXCEPT ![n] = Append(m.chan[n], msg)]
  <2>1. Send(m, n, msg) = [m EXCEPT !.chan = c]
    BY <1>2 DEF Send
  <2>2. c \in [Node -> Seq(RoomMessage)]
    BY <1>1 DEF CmState
  <2> HIDE DEF c
  <2> QED
    BY <2>1, <2>2 DEF CmState, KeepsRoom
<1>3. CASE ~ (m.supernodes[n] = "up" /\ Len(m.chan[n]) < SendQueue)
  BY <1>3 DEF Send, KeepsRoom
<1> QED
  BY <1>2, <1>3

\* Dropping retries, disarming and forgetting the fan-out keep the room.
LEMMA DropRetriesKeeps ==
  ASSUME NEW m \in CmState, NEW r
  PROVE  DropRetries(m, r) \in CmState /\ KeepsRoom(m, DropRetries(m, r))
<1> DEFINE f == m.pending_room_join_retries
           S == {k \in DOMAIN f : k[2] = r}
<1>1. f \in HashMap(Node \X Room, Nat)
  BY DEF CmState
<1>2. Without(f, S) \in HashMap(Node \X Room, Nat)
  BY <1>1, WithoutType
<1>3. DropRetries(m, r) = [m EXCEPT !.pending_room_join_retries = Without(f, S)]
  BY DEF DropRetries
<1> HIDE DEF f, S
<1> QED
  BY <1>2, <1>3 DEF CmState, KeepsRoom

LEMMA DisarmKeeps ==
  ASSUME NEW m \in CmState, NEW r
  PROVE  /\ Disarm(m, r) \in CmState /\ KeepsRoom(m, Disarm(m, r))
         /\ \A x \in DOMAIN Disarm(m, r).pending_failover_rejoin :
              Disarm(m, r).pending_failover_rejoin[x] # r
<1> DEFINE f == m.pending_failover_rejoin
           S == {n \in DOMAIN f : f[n] = r}
           g == Without(f, S)
<1>1. f \in HashMap(Node, Room)
  BY DEF CmState
<1>2. g \in HashMap(Node, Room) /\ DOMAIN g = DOMAIN f \ S /\ \A x \in DOMAIN f \ S : g[x] = f[x]
  <2> HIDE DEF f, S
  <2>1. g \in HashMap(Node, Room)
    BY <1>1, WithoutType
  <2> QED
    BY <2>1 DEF Without
<1>3. \A x \in DOMAIN g : x \in DOMAIN f /\ g[x] = f[x] /\ g[x] # r
  BY <1>2
<1>4. Disarm(m, r) = [m EXCEPT !.pending_failover_rejoin = g]
  BY DEF Disarm
<1>5. m.pending_failover_rejoin = f
  OBVIOUS
<1> HIDE DEF f, S, g
<1>6. Disarm(m, r) \in CmState
  BY <1>2, <1>4 DEF CmState
<1>7. Disarm(m, r).current = m.current /\ Disarm(m, r).pending_failover_rejoin = g
  BY <1>4 DEF CmState
<1> QED
  BY <1>3, <1>5, <1>6, <1>7 DEF KeepsRoom

LEMMA NotPendingKeeps ==
  ASSUME NEW m \in CmState, NEW r
  PROVE  /\ NotPending(m, r) \in CmState /\ KeepsRoom(m, NotPending(m, r))
         /\ NotPending(m, r).pending_failover_rejoin = m.pending_failover_rejoin
BY DEF NotPending, CmState, KeepsRoom

LEMMA RoutesType ==
  ASSUME NEW m, NEW n \in Node
  PROVE  Routes(m, n) \subseteq Node
BY DEF Routes, Live

\* A join turns the manager to its room only if it has no other.
LEMMA JoinKeeps ==
  ASSUME NEW m \in CmState, NEW n \in Node, NEW r \in Room
  PROVE  /\ send_room_join(m, n, r) \in CmState
         /\ m.current.room \in {r, None} => send_room_join(m, n, r).current = [sn |-> n, room |-> r]
         /\ m.current.room \notin {r, None} => send_room_join(m, n, r).current = m.current
         /\ send_room_join(m, n, r).pending_failover_rejoin = m.pending_failover_rejoin
<1> DEFINE t == IF m.current.room \in {r, None}
                THEN [m EXCEPT !.current = [sn |-> n, room |-> r]] ELSE m
<1>1. /\ t \in CmState /\ t.pending_failover_rejoin = m.pending_failover_rejoin
      /\ m.current.room \in {r, None} => t.current = [sn |-> n, room |-> r]
      /\ m.current.room \notin {r, None} => t.current = m.current
  BY DEF CmState, SeatOrNone
<1>2. Join(r) \in RoomMessage
  BY DEF Join, RoomMessage
<1>3. send_room_join(m, n, r) = Send(t, n, Join(r))
  BY DEF send_room_join
<1> HIDE DEF t
<1>4. Send(t, n, Join(r)) \in CmState /\ Send(t, n, Join(r)).current = t.current
  BY <1>1, <1>2, SendKeeps DEF KeepsRoom
<1>5. Send(t, n, Join(r)).pending_failover_rejoin = t.pending_failover_rejoin
  BY <1>1 DEF Send, CmState
<1> QED
  BY <1>1, <1>3, <1>4, <1>5

\* A failover ends in a manager's state; with no room to move it does nothing.
LEMMA FailoverKeeps ==
  ASSUME NEW m \in CmState, NEW n \in Node, NEW r \in Room \cup {None},
         NEW new \in maybe_failover_to_cluster(m, n, r)
  PROVE  new \in CmState /\ (r = None => new = m)
<1> DEFINE live == Live(m) \ {n}
           cold == (Node \ {n}) \ live
           armed == IF live = {} THEN Node ELSE cold
           f == m.pending_failover_rejoin
           g == [x \in DOMAIN f \cup armed |-> IF x \in armed THEN r ELSE f[x]]
           s == [x \in Node |-> IF x \in cold /\ m.supernodes[x] = "none" THEN "down" ELSE m.supernodes[x]]
           c == [x \in Node |->
                   IF x \in live /\ Len(m.chan[x]) < SendQueue
                   THEN Append(m.chan[x], Join(r)) ELSE m.chan[x]]
           m1 == [m EXCEPT !.failover_in_progress = m.failover_in_progress \cup {n},
                           !.current.room = r,
                           !.failover_pending_room = IF live # {} THEN r ELSE @,
                           !.pending_failover_rejoin = g,
                           !.supernodes = s,
                           !.chan = c]
<1>1. CASE r = None \/ n \in m.failover_in_progress \/ Node = {n}
  BY <1>1 DEF maybe_failover_to_cluster
<1>2. CASE ~ (r = None \/ n \in m.failover_in_progress \/ Node = {n})
  <2>1. r \in Room /\ r # None
    BY <1>2
  <2>2. new = m1 \/ \E x \in live : new = [m1 EXCEPT !.current.sn = x]
    BY <1>2 DEF maybe_failover_to_cluster
  <2>3. g \in HashMap(Node, Room)
    <3>1. PICK D \in SUBSET Node : f \in [D -> Room]
      BY DEF CmState, HashMap
    <3>2. g \in [D \cup armed -> Room] /\ D \cup armed \in SUBSET Node
      BY <2>1, <3>1
    <3> QED
      BY <3>2 DEF HashMap
  <2>4. s \in [Node -> {"none", "down", "up"}]
    BY DEF CmState
  <2>5. c \in [Node -> Seq(RoomMessage)]
    <3>1. Join(r) \in RoomMessage
      BY <2>1 DEF Join, RoomMessage
    <3>2. \A x \in Node : m.chan[x] \in Seq(RoomMessage) /\ Append(m.chan[x], Join(r)) \in Seq(RoomMessage)
      BY <3>1 DEF CmState
    <3> QED
      BY <3>2
  <2>6. live \subseteq Node
    BY DEF Live
  <2> HIDE DEF g, s, c, live
  <2>7. m1 \in CmState
    BY <2>1, <2>3, <2>4, <2>5 DEF CmState, SeatOrNone
  <2> HIDE DEF m1
  <2>8. CASE new = m1
    BY <2>1, <2>7, <2>8, FailoverNone
  <2>9. ASSUME NEW x \in live, new = [m1 EXCEPT !.current.sn = x]
        PROVE  new \in CmState
    <3>1. [m1.current EXCEPT !.sn = x] \in SeatOrNone
      BY <2>6, <2>7, <2>9 DEF CmState, SeatOrNone
    <3> QED
      BY <2>7, <2>9, <3>1 DEF CmState
  <2> QED
    BY <2>1, <2>2, <2>8, <2>9
<1> QED
  BY <1>1, <1>2

-----------------------------------------------------------------------------
(* The steps.                                                              *)

LEMMA FailoverInitInv == FailoverInit => FailoverInv
<1> SUFFICES ASSUME FailoverInit PROVE FailoverInv
  OBVIOUS
<1>1. PICK n \in KnownNode, r \in Room :
        /\ cm = CmInit(n, r) /\ cmds = <<>> /\ inbox = [x \in Node |-> <<>>]
        /\ voice = [sn |-> n, room |-> r] /\ resumed = FALSE
  BY DEF FailoverInit
<1>2. n \in Node
  BY FailoverAssumption
<1>3. EmptyMap \in HashMap(Node, Room) /\ EmptyMap \in HashMap(Node \X Room, Nat)
  <2>1. EmptyMap \in [{} -> Room] /\ EmptyMap \in [{} -> Nat]
    BY DEF EmptyMap
  <2> QED
    BY <2>1 DEF HashMap
<1>4. cm \in CmState
  BY <1>1, <1>2, <1>3 DEF CmState, CmInit, SeatOrNone
<1>5. cmds \in Seq(UiCommand) /\ inbox \in [Node -> Seq(NodeEvent)]
  BY <1>1
<1>6. voice \in [sn : Node, room : Room]
  BY <1>1, <1>2
<1> QED
  BY <1>1, <1>4, <1>5, <1>6 DEF FailoverInv, FailoverTypes, ResumedIsSafe

\* What an event says by its type.
LEMMA EventType ==
  ASSUME FailoverTypes, NEW n \in Node, inbox[n] # <<>>
  PROVE  /\ Taken(n) \in [Node -> Seq(NodeEvent)]
         /\ Head(inbox[n]).type \in {"SfuMembers", "SfuJoinResult"} => Head(inbox[n]).room \in Room
<1>1. inbox[n] \in Seq(NodeEvent)
  BY DEF FailoverTypes
<1>2. Head(inbox[n]) \in NodeEvent /\ Tail(inbox[n]) \in Seq(NodeEvent)
  BY <1>1
<1>3. Taken(n) \in [Node -> Seq(NodeEvent)]
  BY <1>2 DEF Taken, FailoverTypes
<1> QED
  BY <1>2, <1>3 DEF NodeEvent, LinkEvent, MembersEvent, DenialEvent

\* While the room stays resumed, steps that keep it keep it safe.
LEMMA SafeWhileKept ==
  ASSUME FailoverInv, FailoverTypes',
         resumed' => resumed /\ cmds' = cmds /\ voice' = voice /\ KeepsRoom(cm, cm')
  PROVE  FailoverInv'
<1>1. ASSUME resumed' PROVE cmds' = <<>> /\ voice'.room # None /\ Settles(cm', voice'.room)
  <2>1. cmds = <<>> /\ voice.room # None /\ Settles(cm, voice.room)
    BY <1>1 DEF FailoverInv, ResumedIsSafe
  <2>2. Settles(cm', voice.room)
    BY <1>1, <2>1, KeepsSettled
  <2> QED
    BY <1>1, <2>1, <2>2
<1>2. ResumedIsSafe'
  BY <1>1 DEF ResumedIsSafe, Settles
<1> QED
  BY <1>2 DEF FailoverInv

\* Commands of the UI end what was resumed.
LEMMA UserStep ==
  ASSUME FailoverInv,
         \/ UserLeave
         \/ \E n \in Node : UserRemove(n) \/ \E r \in Room : UserJoin(n, r)
  PROVE  FailoverInv'
<1> USE DEF FailoverInv, FailoverTypes
<1>1. resumed' = FALSE /\ cm' = cm /\ inbox' = inbox
  BY DEF UserLeave, UserRemove, UserJoin
<1>2. voice.room # None => voice.sn \in Node /\ voice.room \in Room
  BY DEF Nobody
<1>3. \A n \in Node, r \in Room :
        /\ Command("JoinRoom", n, r) \in UiCommand
        /\ Command("LeaveRoom", n, r) \in UiCommand
        /\ Command("RemoveSupernode", n, None) \in UiCommand
  BY DEF Command, UiCommand, RoomCommand, NodeCommand
<1>4. cmds' \in Seq(UiCommand) /\ voice' \in {Nobody} \cup [sn : Node, room : Room]
  <2>1. CASE UserLeave
    BY <1>2, <1>3, <2>1 DEF UserLeave
  <2>2. ASSUME NEW n \in Node, UserRemove(n)
        PROVE  cmds' \in Seq(UiCommand) /\ voice' \in {Nobody} \cup [sn : Node, room : Room]
    <3> DEFINE first == IF voice.sn = n THEN <<Command("LeaveRoom", n, voice.room)>> ELSE <<>>
    <3>1. voice.sn = n => voice.room \in Room
      BY FailoverNone DEF Nobody
    <3>2. first \in Seq(UiCommand)
      BY <1>3, <3>1
    <3>3. <<Command("RemoveSupernode", n, None)>> \in Seq(UiCommand)
      <4>1. Command("RemoveSupernode", n, None) \in UiCommand
        BY DEF Command, UiCommand, NodeCommand
      <4> QED
        BY <4>1
    <3>4. cmds' = cmds \o first \o <<Command("RemoveSupernode", n, None)>>
      BY <2>2 DEF UserRemove
    <3> HIDE DEF first
    <3>5. cmds' \in Seq(UiCommand)
      BY <3>2, <3>3, <3>4
    <3> QED
      BY <2>2, <3>5 DEF UserRemove
  <2>3. ASSUME NEW n \in Node, NEW r \in Room, UserJoin(n, r)
        PROVE  cmds' \in Seq(UiCommand) /\ voice' \in {Nobody} \cup [sn : Node, room : Room]
    <3> DEFINE first == IF voice.room # None /\ voice # [sn |-> n, room |-> r]
                        THEN <<Command("LeaveRoom", voice.sn, voice.room)>> ELSE <<>>
    <3>1. first \in Seq(UiCommand)
      BY <1>2, <1>3
    <3>2. cmds' = cmds \o first \o <<Command("JoinRoom", n, r)>>
      BY <2>3 DEF UserJoin
    <3>3. <<Command("JoinRoom", n, r)>> \in Seq(UiCommand)
      BY <1>3
    <3> HIDE DEF first
    <3>4. cmds' \in Seq(UiCommand)
      BY <3>1, <3>2, <3>3
    <3> QED
      BY <2>3, <3>4 DEF UserJoin
  <2> QED
    BY <2>1, <2>2, <2>3
<1>5. FailoverTypes'
  BY <1>1, <1>4
<1> QED
  BY <1>1, <1>5 DEF ResumedIsSafe

\* The manager takes a command, which a resumed room has none of.
LEMMA CommandStep ==
  ASSUME FailoverInv, JoinRoom \/ LeaveRoom \/ RemoveSupernode
  PROVE  FailoverInv'
<1> DEFINE cmd == Head(cmds)
<1>1. /\ cmds # <<>> /\ cmds' = Tail(cmds) /\ resumed' = resumed
      /\ voice' = voice /\ inbox' = inbox
  BY DEF JoinRoom, LeaveRoom, RemoveSupernode, hist
<1>2. cmd \in UiCommand /\ cmds' \in Seq(UiCommand)
  BY <1>1 DEF FailoverInv, FailoverTypes
<1>3. cmd.sn \in Node /\ (cmd.type \in {"JoinRoom", "LeaveRoom"} => cmd.room \in Room)
  BY <1>2 DEF UiCommand, RoomCommand, NodeCommand
<1>4. cm \in CmState
  BY DEF FailoverInv, FailoverTypes
<1> HIDE DEF cmd
<1>5. ASSUME JoinRoom PROVE cm' \in CmState
  <2> DEFINE m == [cm EXCEPT !.current = [sn |-> cmd.sn, room |-> cmd.room]]
  <2>1. cmd.room \in Room
    BY <1>3, <1>5 DEF JoinRoom, cmd
  <2>2. m \in CmState
    BY <1>3, <1>4, <2>1 DEF CmState, SeatOrNone
  <2>3. PICK route \in Routes(m, cmd.sn) : cm' = send_room_join(m, route, cmd.room)
    BY <1>5 DEF JoinRoom, cmd
  <2>4. route \in Node
    BY <1>3, <2>3, RoutesType
  <2> HIDE DEF m
  <2> QED
    BY <2>1, <2>2, <2>3, <2>4, JoinKeeps
<1>6. ASSUME LeaveRoom PROVE cm' \in CmState
  <2> DEFINE cur == IF cm.current = [sn |-> cmd.sn, room |-> cmd.room] THEN Nobody ELSE cm.current
             m0 == [cm EXCEPT !.current = cur]
             m == DropRetries(m0, cmd.room)
  <2>1. cmd.room \in Room
    BY <1>3, <1>6 DEF LeaveRoom, cmd
  <2>2. cur \in SeatOrNone
    BY <1>4 DEF CmState, SeatOrNone, Nobody
  <2>3. m0 \in CmState
    <3> HIDE DEF cur
    <3> QED
      BY <1>4, <2>2 DEF CmState
  <2>4. PICK route \in Routes(m, cmd.sn) : cm' = Send(m, route, Leave(cmd.room))
    BY <1>6 DEF LeaveRoom, cmd
  <2>5. route \in Node
    BY <1>3, <2>4, RoutesType
  <2>6. Leave(cmd.room) \in RoomMessage
    BY <2>1 DEF Leave, RoomMessage
  <2> HIDE DEF m0
  <2>7. m \in CmState
    BY <2>3, DropRetriesKeeps
  <2> HIDE DEF m
  <2> QED
    BY <2>4, <2>5, <2>6, <2>7, SendKeeps
<1>7. ASSUME RemoveSupernode PROVE cm' \in CmState
  <2> DEFINE hosting == cm.current.sn = cmd.sn
             m == IF hosting THEN [cm EXCEPT !.current = Nobody] ELSE cm
  <2>1. m \in CmState
    BY <1>4 DEF CmState, SeatOrNone, Nobody
  <2>2. PICK route \in Routes(m, cmd.sn) :
          cm' = [IF hosting /\ cm.current.room # None THEN Send(m, route, Leave(cm.current.room)) ELSE m
                 EXCEPT !.supernodes[cmd.sn] = "none", !.chan[cmd.sn] = <<>>]
    BY <1>7 DEF RemoveSupernode, cmd
  <2> DEFINE t == IF hosting /\ cm.current.room # None THEN Send(m, route, Leave(cm.current.room)) ELSE m
  <2>3. route \in Node
    BY <1>3, <2>2, RoutesType
  <2>4. cm.current.room # None => Leave(cm.current.room) \in RoomMessage
    BY <1>4 DEF CmState, SeatOrNone, Leave, RoomMessage
  <2> HIDE DEF m
  <2>5. t \in CmState
    BY <2>1, <2>3, <2>4, SendKeeps
  <2>6. cm' = [t EXCEPT !.supernodes[cmd.sn] = "none", !.chan[cmd.sn] = <<>>]
    BY <2>2
  <2> HIDE DEF t
  <2>7. /\ [t.supernodes EXCEPT ![cmd.sn] = "none"] \in [Node -> {"none", "down", "up"}]
        /\ [t.chan EXCEPT ![cmd.sn] = <<>>] \in [Node -> Seq(RoomMessage)]
    BY <1>3, <2>5 DEF CmState
  <2> QED
    BY <2>5, <2>6, <2>7 DEF CmState
<1>8. cm' \in CmState
  BY <1>5, <1>6, <1>7
<1>9. FailoverTypes'
  BY <1>1, <1>2, <1>8 DEF FailoverInv, FailoverTypes
<1>10. ~ resumed
  BY <1>1 DEF FailoverInv, ResumedIsSafe
<1> QED
  BY <1>1, <1>9, <1>10 DEF FailoverInv, ResumedIsSafe

\* An armed node that comes back takes another room than the resumed one.
LEMMA ConnectedStep ==
  ASSUME FailoverInv, NEW n \in Node, WsConnected(n)
  PROVE  /\ FailoverInv'
         /\ resumed /\ SameRoom => cm'.current = cm.current
<1> DEFINE sess == [cm.supernodes EXCEPT ![n] = IF @ = "none" THEN @ ELSE "up"]
           m0 == [cm EXCEPT !.supernodes = sess, !.failover_in_progress = @ \ {n}]
           rejoin == m0.pending_failover_rejoin
           r == rejoin[n]
           m == [NotPending(Disarm(m0, r), r) EXCEPT !.current = [sn |-> n, room |-> r]]
<1>1. cm \in CmState
  BY DEF FailoverInv, FailoverTypes
<1>2. sess \in [Node -> {"none", "down", "up"}]
  BY <1>1 DEF CmState
<1>3. /\ m0 \in CmState /\ m0.current = cm.current
      /\ m0.pending_failover_rejoin = cm.pending_failover_rejoin
  <2> HIDE DEF sess
  <2> QED
    BY <1>1, <1>2 DEF CmState
<1>4. inbox' = Taken(n) /\ cmds' = cmds /\ inbox[n] # <<>>
  BY DEF WsConnected, Event
<1>5. inbox' \in [Node -> Seq(NodeEvent)]
  BY <1>4, EventType DEF FailoverInv
<1>6. CASE n \notin DOMAIN rejoin
  <2>1. cm' = m0 /\ voice' = voice /\ resumed' = resumed
    BY <1>6 DEF WsConnected
  <2>2. FailoverTypes'
    BY <1>3, <1>4, <1>5, <2>1 DEF FailoverInv, FailoverTypes
  <2> HIDE DEF m0
  <2>3. KeepsRoom(cm, cm')
    BY <1>3, <2>1 DEF KeepsRoom
  <2> QED
    BY <1>3, <1>4, <2>1, <2>2, <2>3, SafeWhileKept
<1>7. CASE n \in DOMAIN rejoin
  <2>1. /\ cm' = send_room_join(m, n, r)
        /\ voice' = RoomFailedOver(voice, n, r)
        /\ resumed' = (Settled(r) \/ (resumed /\ SameRoom))
    BY <1>7 DEF WsConnected
  <2> HIDE DEF m0
  <2>2. r \in Room
    <3>1. rejoin \in HashMap(Node, Room)
      BY <1>3 DEF CmState
    <3>2. PICK D \in SUBSET Node : rejoin \in [D -> Room]
      BY <3>1 DEF HashMap
    <3> QED
      BY <1>7, <3>2
  <2> DEFINE d == NotPending(Disarm(m0, r), r)
  <2>3. /\ d \in CmState
        /\ \A x \in DOMAIN d.pending_failover_rejoin : d.pending_failover_rejoin[x] # r
    <3>1. Disarm(m0, r) \in CmState
      BY <1>3, DisarmKeeps
    <3>2. d \in CmState /\ d.pending_failover_rejoin = Disarm(m0, r).pending_failover_rejoin
      BY <3>1, NotPendingKeeps
    <3> QED
      BY <1>3, <3>2, DisarmKeeps
  <2>4. m = [d EXCEPT !.current = [sn |-> n, room |-> r]]
    OBVIOUS
  <2> HIDE DEF d, m
  <2>5. /\ m \in CmState /\ m.current = [sn |-> n, room |-> r]
        /\ m.pending_failover_rejoin = d.pending_failover_rejoin
    BY <2>2, <2>3, <2>4 DEF CmState, SeatOrNone
  <2>6. /\ cm' \in CmState /\ cm'.current = [sn |-> n, room |-> r]
        /\ cm'.pending_failover_rejoin = d.pending_failover_rejoin
    BY <2>1, <2>2, <2>5, JoinKeeps
  <2>7. Settles(cm', r)
    BY <2>3, <2>6 DEF Settles
  <2>8. voice'.room = voice.room /\ voice' \in {Nobody} \cup [sn : Node, room : Room]
    BY <2>1, <2>2, FailoverNone DEF RoomFailedOver, FailoverInv, FailoverTypes, Nobody
  <2>9. resumed => r # cm.current.room
    BY <1>3, <1>7 DEF FailoverInv, ResumedIsSafe, Settles
  <2>10. resumed => ~ SameRoom
    BY <2>6, <2>9 DEF SameRoom
  <2>11. resumed' => Settled(r)
    BY <2>1, <2>10
  <2>12. resumed' \in BOOLEAN
    BY <2>1
  <2>13. FailoverTypes'
    BY <1>4, <1>5, <2>6, <2>8, <2>12 DEF FailoverInv, FailoverTypes
  <2>14. ASSUME resumed'
         PROVE  cmds' = <<>> /\ voice'.room # None /\ Settles(cm', voice'.room)
    BY <1>4, <2>2, <2>7, <2>8, <2>11, <2>14, FailoverNone DEF Settled
  <2>15. ResumedIsSafe'
    BY <2>14 DEF ResumedIsSafe, Settles
  <2> QED
    BY <2>10, <2>13, <2>15 DEF FailoverInv
<1> QED
  BY <1>6, <1>7

\* The loss of the resumed host ends what was resumed; the loss of any other
\* node neither arms anything nor moves the room.
LEMMA DisconnectedStep ==
  ASSUME FailoverInv, NEW n \in Node, WsDisconnected(n)
  PROVE  FailoverInv'
<1> DEFINE lost == IF cm.current.sn = n THEN cm.current.room ELSE None
           sess == [cm.supernodes EXCEPT ![n] = IF @ = "none" THEN @ ELSE "down"]
           cur == IF cm.current.sn = n THEN Nobody ELSE cm.current
           m0 == [cm EXCEPT !.supernodes = sess, !.current = cur]
           uiLeaves == Live(m0) = {} /\ voice.sn = n /\ voice.room # None
<1>1. cm \in CmState /\ cmds \in Seq(UiCommand)
  BY DEF FailoverInv, FailoverTypes
<1>2. sess \in [Node -> {"none", "down", "up"}] /\ cur \in SeatOrNone /\ lost \in Room \cup {None}
  BY <1>1 DEF CmState, SeatOrNone, Nobody
<1>3. /\ m0 \in CmState /\ m0.current = cur
      /\ m0.pending_failover_rejoin = cm.pending_failover_rejoin
  <2> HIDE DEF sess, cur
  <2> QED
    BY <1>1, <1>2 DEF CmState
<1>4. /\ cm' \in maybe_failover_to_cluster(m0, n, lost)
      /\ cmds' = IF uiLeaves THEN Append(cmds, Command("LeaveRoom", n, voice.room)) ELSE cmds
      /\ voice' = IF uiLeaves THEN Nobody ELSE voice
      /\ resumed' = (resumed /\ lost = None /\ ~uiLeaves)
      /\ inbox' = Taken(n) /\ inbox[n] # <<>>
  BY DEF WsDisconnected, Event
<1> HIDE DEF m0
<1>5. cm' \in CmState /\ (lost = None => cm' = m0)
  BY <1>2, <1>3, <1>4, FailoverKeeps
<1>6. uiLeaves => Command("LeaveRoom", n, voice.room) \in UiCommand
  BY DEF FailoverInv, FailoverTypes, Nobody, Command, UiCommand, RoomCommand
<1>7. cmds' \in Seq(UiCommand) /\ voice' \in {Nobody} \cup [sn : Node, room : Room]
  BY <1>1, <1>4, <1>6 DEF FailoverInv, FailoverTypes
<1>8. inbox' \in [Node -> Seq(NodeEvent)]
  BY <1>4, EventType DEF FailoverInv
<1>9. resumed' \in BOOLEAN
  BY <1>4
<1>10. FailoverTypes'
  BY <1>5, <1>7, <1>8, <1>9 DEF FailoverTypes
<1>11. ASSUME resumed'
       PROVE  resumed /\ cmds' = cmds /\ voice' = voice /\ KeepsRoom(cm, cm')
  <2>1. resumed /\ lost = None /\ ~uiLeaves
    BY <1>4, <1>11
  <2>2. cm.current.room # None
    BY <2>1 DEF FailoverInv, ResumedIsSafe, Settles
  <2>3. cm.current.sn # n
    BY <2>1, <2>2
  <2>4. cm'.current = cm.current /\ cm'.pending_failover_rejoin = cm.pending_failover_rejoin
    BY <1>3, <1>5, <2>1, <2>3
  <2> QED
    BY <1>4, <2>1, <2>4 DEF KeepsRoom
<1> QED
  BY <1>10, <1>11, SafeWhileKept

\* The first answer to a fan-out settles the room.
LEMMA MembersStep ==
  ASSUME FailoverInv, NEW n \in Node, SfuMembers(n)
  PROVE  FailoverInv'
<1> DEFINE r == Head(inbox[n]).room
           confirms == cm.failover_pending_room = r
           m == DropRetries(cm, r)
           d == NotPending(Disarm(m, r), r)
<1>1. /\ cm' = IF confirms THEN [d EXCEPT !.current = [sn |-> n, room |-> r]] ELSE m
      /\ voice' = IF confirms THEN RoomFailedOver(voice, n, r) ELSE voice
      /\ resumed' = ((Settled(r) /\ confirms) \/ (resumed /\ SameRoom))
      /\ inbox' = Taken(n) /\ cmds' = cmds
      /\ inbox[n] # <<>> /\ Head(inbox[n]).type = "SfuMembers"
  BY DEF SfuMembers, Event
<1>2. r \in Room /\ inbox' \in [Node -> Seq(NodeEvent)]
  BY <1>1, EventType DEF FailoverInv
<1>3. cm \in CmState
  BY DEF FailoverInv, FailoverTypes
<1> HIDE DEF r
<1>4. m \in CmState /\ KeepsRoom(cm, m)
  BY <1>3, DropRetriesKeeps
<1> HIDE DEF m
<1>5. /\ d \in CmState
      /\ \A x \in DOMAIN d.pending_failover_rejoin : d.pending_failover_rejoin[x] # r
  <2>1. Disarm(m, r) \in CmState
    BY <1>4, DisarmKeeps
  <2>2. d \in CmState /\ d.pending_failover_rejoin = Disarm(m, r).pending_failover_rejoin
    BY <2>1, NotPendingKeeps
  <2> QED
    BY <1>4, <2>2, DisarmKeeps
<1> HIDE DEF d
<1>6. voice' \in {Nobody} \cup [sn : Node, room : Room] /\ voice'.room = voice.room
  BY <1>1, <1>2, FailoverNone DEF RoomFailedOver, FailoverInv, FailoverTypes, Nobody
<1>7. resumed' \in BOOLEAN
  BY <1>1
<1>8. CASE confirms
  <2>1. /\ cm' \in CmState /\ cm'.current = [sn |-> n, room |-> r]
        /\ cm'.pending_failover_rejoin = d.pending_failover_rejoin
    BY <1>1, <1>2, <1>5, <1>8 DEF CmState, SeatOrNone
  <2>2. Settles(cm', r)
    BY <1>5, <2>1 DEF Settles
  <2>3. FailoverTypes'
    BY <1>1, <1>2, <1>6, <1>7, <2>1 DEF FailoverInv, FailoverTypes
  <2>4. ASSUME resumed'
        PROVE  cmds' = <<>> /\ voice'.room # None /\ Settles(cm', voice'.room)
    <3>1. CASE Settled(r)
      BY <1>1, <1>2, <1>6, <2>2, <3>1, FailoverNone DEF Settled
    <3>2. CASE resumed /\ SameRoom
      <4>1. cmds = <<>> /\ voice.room # None /\ voice.room = cm.current.room
        BY <3>2 DEF FailoverInv, ResumedIsSafe, Settles
      <4>2. cm.current.room = r
        BY <2>1, <3>2 DEF SameRoom
      <4> QED
        BY <1>1, <1>6, <2>2, <4>1, <4>2
    <3> QED
      BY <1>1, <2>4, <3>1, <3>2
  <2>5. ResumedIsSafe'
    BY <2>4 DEF ResumedIsSafe, Settles
  <2> QED
    BY <2>3, <2>5 DEF FailoverInv
<1>9. CASE ~ confirms
  <2>1. cm' = m /\ voice' = voice
    BY <1>1, <1>9
  <2>2. resumed' => resumed
    BY <1>1, <1>9
  <2>3. FailoverTypes'
    BY <1>1, <1>2, <1>4, <1>6, <1>7, <2>1 DEF FailoverInv, FailoverTypes
  <2> QED
    BY <1>1, <1>4, <2>1, <2>2, <2>3, SafeWhileKept
<1> QED
  BY <1>8, <1>9

\* A denial of another room than the resumed one leaves the latter alone.
LEMMA DeniedStep ==
  ASSUME FailoverInv, NEW n \in Node, SfuJoinResult(n)
  PROVE  FailoverInv'
<1> DEFINE e == Head(inbox[n])
           r == e.room
           cur == IF cm.current.room = r /\ cm.current.sn \in {n, None} THEN Nobody ELSE cm.current
           m0 == [cm EXCEPT !.current = cur]
           m == NotPending(Disarm(m0, r), r)
           shown == e.reason # "room_absent"
<1>1. /\ cm' = IF shown THEN m
              ELSE [m EXCEPT !.pending_room_join_retries =
                               ArmRetry(m.pending_room_join_retries, <<n, r>>)]
      /\ voice' = IF shown /\ voice = [sn |-> n, room |-> r] THEN Nobody ELSE voice
      /\ resumed' = (resumed /\ voice.room # r)
      /\ inbox' = Taken(n) /\ cmds' = cmds
      /\ inbox[n] # <<>> /\ Head(inbox[n]).type = "SfuJoinResult"
  BY DEF SfuJoinResult, Event, Denied
<1>2. r \in Room /\ inbox' \in [Node -> Seq(NodeEvent)]
  BY <1>1, EventType DEF FailoverInv
<1>3. cm \in CmState
  BY DEF FailoverInv, FailoverTypes
<1> HIDE DEF e
<1>4. cur \in SeatOrNone
  BY <1>3 DEF CmState, SeatOrNone, Nobody
<1>5. cm.current.room # r => cur = cm.current
  OBVIOUS
<1> HIDE DEF cur
<1>6. m0 \in CmState /\ m0.current = cur /\ m0.pending_failover_rejoin = cm.pending_failover_rejoin
  BY <1>3, <1>4 DEF CmState
<1> HIDE DEF m0
<1>7. m \in CmState /\ KeepsRoom(m0, m)
  <2>1. Disarm(m0, r) \in CmState /\ KeepsRoom(m0, Disarm(m0, r))
    BY <1>6, DisarmKeeps
  <2>2. m \in CmState /\ KeepsRoom(Disarm(m0, r), m)
    BY <2>1, NotPendingKeeps
  <2> QED
    BY <2>1, <2>2 DEF KeepsRoom
<1> HIDE DEF m
<1>8. ArmRetry(m.pending_room_join_retries, <<n, r>>) \in HashMap(Node \X Room, Nat)
  <2>1. m.pending_room_join_retries \in HashMap(Node \X Room, Nat)
    BY <1>7 DEF CmState
  <2>2. Put(m.pending_room_join_retries, <<n, r>>, 0) \in HashMap(Node \X Room, Nat)
    BY <1>2, <2>1, PutType
  <2> QED
    BY <2>1, <2>2 DEF ArmRetry
<1>9. /\ cm' \in CmState /\ cm'.current = m.current
      /\ cm'.pending_failover_rejoin = m.pending_failover_rejoin
  BY <1>1, <1>7, <1>8 DEF CmState
<1>10. resumed' \in BOOLEAN /\ voice' \in {Nobody} \cup [sn : Node, room : Room]
  BY <1>1 DEF FailoverInv, FailoverTypes
<1>11. FailoverTypes'
  BY <1>1, <1>2, <1>9, <1>10 DEF FailoverInv, FailoverTypes
<1>12. ASSUME resumed'
       PROVE  resumed /\ cmds' = cmds /\ voice' = voice /\ KeepsRoom(cm, cm')
  <2>1. resumed /\ voice.room # r
    BY <1>1, <1>12
  <2>2. cm.current.room = voice.room
    BY <2>1 DEF FailoverInv, ResumedIsSafe, Settles
  <2>3. KeepsRoom(cm, cm')
    BY <1>5, <1>6, <1>7, <1>9, <2>1, <2>2 DEF KeepsRoom
  <2>4. voice' = voice
    BY <1>1, <2>1
  <2> QED
    BY <1>1, <2>1, <2>3, <2>4
<1> QED
  BY <1>11, <1>12, SafeWhileKept

\* A retry joins its room only for a manager that has no other.
LEMMA RetryStep ==
  ASSUME FailoverInv, NEW n \in Node, NEW r \in Room,
         RetryStale(n, r) \/ RetryGiveUp(n, r) \/ RetrySend(n, r)
  PROVE  FailoverInv'
<1> DEFINE f == cm.pending_room_join_retries
<1>1. cm \in CmState /\ f \in HashMap(Node \X Room, Nat)
  BY DEF FailoverInv, FailoverTypes, CmState
<1>2. cmds' = cmds /\ inbox' = inbox
  BY DEF RetryStale, RetryGiveUp, RetrySend
<1>3. CASE RetryStale(n, r) \/ RetryGiveUp(n, r)
  <2> DEFINE g == Without(f, {<<n, r>>})
  <2>1. cm' = [cm EXCEPT !.pending_room_join_retries = g]
    BY <1>3 DEF RetryStale, RetryGiveUp
  <2>2. g \in HashMap(Node \X Room, Nat)
    <3> HIDE DEF f
    <3> QED
      BY <1>1, WithoutType
  <2> HIDE DEF f, g
  <2>3. cm' \in CmState /\ KeepsRoom(cm, cm')
    BY <1>1, <2>1, <2>2 DEF CmState, KeepsRoom
  <2>4. /\ resumed' \in BOOLEAN /\ (resumed' => resumed /\ voice' = voice)
        /\ voice' \in {Nobody} \cup [sn : Node, room : Room]
    <3>1. CASE RetryStale(n, r)
      BY <3>1 DEF RetryStale, hist, FailoverInv, FailoverTypes
    <3>2. CASE RetryGiveUp(n, r)
      <4>1. /\ voice' = IF voice = [sn |-> n, room |-> r] THEN Nobody ELSE voice
            /\ resumed' = (resumed /\ voice.room # r)
        BY <3>2 DEF RetryGiveUp
      <4>2. resumed' \in BOOLEAN /\ (resumed' => resumed /\ voice.room # r)
        BY <4>1
      <4> QED
        BY <4>1, <4>2 DEF FailoverInv, FailoverTypes
    <3> QED
      BY <1>3, <3>1, <3>2
  <2>5. FailoverTypes'
    BY <1>2, <2>3, <2>4 DEF FailoverInv, FailoverTypes
  <2> QED
    BY <1>2, <2>3, <2>4, <2>5, SafeWhileKept
<1>4. CASE RetrySend(n, r)
  <2> DEFINE g == [f EXCEPT ![<<n, r>>] = @ + 1]
             m == [cm EXCEPT !.pending_room_join_retries = g]
  <2>1. voice' = voice /\ resumed' = resumed /\ <<n, r>> \in DOMAIN f
    BY <1>4 DEF RetrySend, hist
  <2>2. g \in HashMap(Node \X Room, Nat)
    <3> HIDE DEF f
    <3>1. PICK D \in SUBSET (Node \X Room) : f \in [D -> Nat]
      BY <1>1 DEF HashMap
    <3>2. g \in [D -> Nat]
      BY <2>1, <3>1
    <3> QED
      BY <3>1, <3>2 DEF HashMap
  <2>3. PICK route \in Routes(m, n) : cm' = send_room_join(m, route, r)
    BY <1>4 DEF RetrySend
  <2>4. route \in Node
    BY <2>3, RoutesType
  <2> HIDE DEF g
  <2>5. /\ m \in CmState /\ m.current = cm.current
        /\ m.pending_failover_rejoin = cm.pending_failover_rejoin
    BY <1>1, <2>2 DEF CmState
  <2> HIDE DEF m
  <2>6. /\ cm' \in CmState
        /\ cm.current.room \in {r, None} => cm'.current.room = r
        /\ cm.current.room \notin {r, None} => cm'.current = cm.current
        /\ cm'.pending_failover_rejoin = cm.pending_failover_rejoin
    <3>1. /\ cm' \in CmState /\ cm'.pending_failover_rejoin = m.pending_failover_rejoin
          /\ m.current.room \in {r, None} => cm'.current = [sn |-> route, room |-> r]
          /\ m.current.room \notin {r, None} => cm'.current = m.current
      BY <2>3, <2>4, <2>5, JoinKeeps
    <3> QED
      BY <2>5, <3>1
  <2>7. FailoverTypes'
    BY <1>2, <2>1, <2>6 DEF FailoverInv, FailoverTypes
  <2>8. ASSUME resumed'
        PROVE  cmds' = <<>> /\ voice'.room # None /\ Settles(cm', voice'.room)
    <3>1. cmds = <<>> /\ voice.room # None /\ Settles(cm, voice.room)
      BY <2>1, <2>8 DEF FailoverInv, ResumedIsSafe
    <3>2. cm'.current.room = cm.current.room
      BY <2>6, <3>1 DEF Settles
    <3> QED
      BY <1>2, <2>1, <2>6, <3>1, <3>2 DEF Settles
  <2>9. ResumedIsSafe'
    BY <2>8 DEF ResumedIsSafe, Settles
  <2> QED
    BY <2>7, <2>9 DEF FailoverInv
<1> QED
  BY <1>3, <1>4

\* Network and supernodes take from the channels and add to the inboxes.
LEMMA EmitType ==
  ASSUME FailoverTypes, NEW n \in Node, NEW e \in NodeEvent, Emit(n, e)
  PROVE  inbox' \in [Node -> Seq(NodeEvent)]
<1>1. inbox[n] \in Seq(NodeEvent)
  BY DEF FailoverTypes
<1>2. Append(inbox[n], e) \in Seq(NodeEvent)
  BY <1>1
<1> QED
  BY <1>2 DEF Emit, FailoverTypes

LEMMA LinkEvents ==
  /\ [type |-> "WsConnected"] \in NodeEvent
  /\ [type |-> "WsDisconnected"] \in NodeEvent
  /\ \A r \in Room : /\ [type |-> "SfuMembers", room |-> r] \in NodeEvent
                     /\ [type |-> "SfuJoinResult", room |-> r, reason |-> "room_absent"] \in NodeEvent
                     /\ [type |-> "SfuJoinResult", room |-> r, reason |-> "not_allowed"] \in NodeEvent
BY DEF NodeEvent, LinkEvent, MembersEvent, DenialEvent

LEMMA ChannelKeeps ==
  ASSUME NEW m \in CmState, NEW n \in Node, NEW s \in Seq(RoomMessage)
  PROVE  LET new == [m EXCEPT !.chan[n] = s] IN new \in CmState /\ KeepsRoom(m, new)
<1>1. [m.chan EXCEPT ![n] = s] \in [Node -> Seq(RoomMessage)]
  BY DEF CmState
<1> QED
  BY <1>1 DEF CmState, KeepsRoom

LEMMA LoseStep ==
  ASSUME FailoverTypes, NEW n \in Node, NEW k \in Nat, Lose(n, k)
  PROVE  cm' \in CmState /\ KeepsRoom(cm, cm') /\ inbox' \in [Node -> Seq(NodeEvent)]
<1>1. cm \in CmState /\ cm.chan[n] \in Seq(RoomMessage)
  BY DEF FailoverTypes, CmState
<1> DEFINE s == SubSeq(cm.chan[n], k + 1, Len(cm.chan[n]))
<1>2. s \in Seq(RoomMessage)
  BY <1>1
<1>3. cm' = [cm EXCEPT !.chan[n] = s]
  BY DEF Lose
<1> HIDE DEF s
<1>4. cm' \in CmState /\ KeepsRoom(cm, cm')
  BY <1>1, <1>2, <1>3, ChannelKeeps
<1>5. inbox' \in [Node -> Seq(NodeEvent)]
  BY LinkEvents, EmitType DEF Lose
<1> QED
  BY <1>4, <1>5

LEMMA NetworkStep ==
  ASSUME FailoverInv, NEW n \in Node,
         \/ Network(n) \/ DialFails(n) \/ LinkLost(n) \/ Forget(n) \/ Crash(n) \/ RefuseJoin(n)
         \/ \E r \in Room : Materialise(n, r)
  PROVE  FailoverInv'
<1>1. cmds' = cmds /\ voice' = voice /\ resumed' = resumed
  BY DEF Network, Dial, HandleJoin, HandleLeave, Restart, DialFails, LinkLost, Forget,
     Crash, RefuseJoin, Materialise, hist
<1>2. cm \in CmState /\ FailoverTypes /\ inbox \in [Node -> Seq(NodeEvent)]
  BY DEF FailoverInv, FailoverTypes
<1> DEFINE Goal == cm' \in CmState /\ KeepsRoom(cm, cm') /\ inbox' \in [Node -> Seq(NodeEvent)]
<1>3. ASSUME cm' = cm, inbox' \in [Node -> Seq(NodeEvent)] PROVE Goal
  BY <1>2, <1>3 DEF KeepsRoom
<1>4. ASSUME Restart(n) \/ Forget(n) \/ \E r \in Room : Materialise(n, r) PROVE Goal
  BY <1>2, <1>3, <1>4 DEF Restart, Forget, Materialise
<1>5. ASSUME Dial(n) PROVE Goal
  <2>1. inbox' \in [Node -> Seq(NodeEvent)]
    BY <1>2, <1>5, LinkEvents, EmitType DEF Dial
  <2> QED
    BY <1>3, <1>5, <2>1 DEF Dial
<1>6. ASSUME DialFails(n) PROVE Goal
  <2>1. inbox' \in [Node -> Seq(NodeEvent)]
    BY <1>2, <1>6, LinkEvents, EmitType DEF DialFails
  <2> QED
    BY <1>3, <1>6, <2>1 DEF DialFails
<1>7. ASSUME \E k \in 0 .. SendQueue : Lose(n, k) PROVE Goal
  BY <1>2, <1>7, LoseStep, FailoverAssumption
<1>8. ASSUME LinkLost(n) \/ Crash(n) PROVE Goal
  <2>1. \/ \E k \in 0 .. SendQueue : Lose(n, k)
        \/ cm' = cm /\ inbox' = inbox
    BY <1>8 DEF LinkLost, Crash
  <2> QED
    BY <1>2, <1>3, <1>7, <2>1
<1>9. ASSUME HandleJoin(n) \/ RefuseJoin(n) \/ HandleLeave(n) PROVE Goal
  <2> DEFINE msg == Head(cm.chan[n])
  <2>1. cm.chan[n] # <<>> /\ cm' = [cm EXCEPT !.chan[n] = Tail(cm.chan[n])]
    BY <1>9 DEF HandleJoin, RefuseJoin, HandleLeave
  <2>2. cm.chan[n] \in Seq(RoomMessage)
    BY <1>2 DEF CmState
  <2>3. msg \in RoomMessage /\ Tail(cm.chan[n]) \in Seq(RoomMessage)
    BY <2>1, <2>2
  <2>4. cm' \in CmState /\ KeepsRoom(cm, cm')
    BY <1>2, <2>1, <2>3, ChannelKeeps
  <2>5. msg.room \in Room
    BY <2>3 DEF RoomMessage
  <2>6. \/ inbox' = inbox
        \/ Emit(n, [type |-> "SfuMembers", room |-> msg.room])
        \/ Emit(n, [type |-> "SfuJoinResult", room |-> msg.room, reason |-> "room_absent"])
        \/ Emit(n, [type |-> "SfuJoinResult", room |-> msg.room, reason |-> "not_allowed"])
    BY <1>9 DEF HandleJoin, RefuseJoin, HandleLeave
  <2> HIDE DEF msg
  <2>7. inbox' \in [Node -> Seq(NodeEvent)]
    BY <1>2, <2>5, <2>6, LinkEvents, EmitType
  <2> QED
    BY <2>4, <2>7
<1>10. Goal
  BY <1>4, <1>5, <1>6, <1>8, <1>9 DEF Network
<1>11. FailoverTypes'
  BY <1>1, <1>2, <1>10 DEF FailoverTypes
<1> QED
  BY <1>1, <1>10, <1>11, SafeWhileKept

LEMMA FailoverNextInv == FailoverInv /\ [FailoverNext]_failover_vars => FailoverInv'
<1> SUFFICES ASSUME FailoverInv, [FailoverNext]_failover_vars PROVE FailoverInv'
  OBVIOUS
<1>1. CASE Manager
  BY <1>1, CommandStep, ConnectedStep, DisconnectedStep, MembersStep, DeniedStep DEF Manager
<1>2. CASE Timer
  BY <1>2, RetryStep DEF Timer
<1>3. CASE UserLeave \/ \E n \in Node : UserRemove(n) \/ \E r \in Room : UserJoin(n, r)
  BY <1>3, UserStep
<1>4. CASE \E n \in Node : \/ Network(n) \/ DialFails(n) \/ LinkLost(n) \/ Forget(n) \/ Crash(n)
                           \/ RefuseJoin(n) \/ \E r \in Room : Materialise(n, r)
  BY <1>4, NetworkStep
<1>5. CASE UNCHANGED failover_vars
  <2>1. cm' = cm /\ cmds' = cmds /\ inbox' = inbox /\ voice' = voice /\ resumed' = resumed
    BY <1>5 DEF failover_vars, hist
  <2>2. FailoverTypes'
    BY <2>1 DEF FailoverInv, FailoverTypes
  <2>3. KeepsRoom(cm, cm')
    BY <2>1 DEF KeepsRoom
  <2> QED
    BY <2>1, <2>2, <2>3, SafeWhileKept
<1> QED
  BY <1>1, <1>2, <1>3, <1>4, <1>5 DEF FailoverNext

\* The inductive invariant of the client's rooms: a room that a failover has
\* resumed is the one the user is in, and no node is armed to rejoin it, for any
\* number of supernodes, rooms, faults and commands.
THEOREM FailoverInvariant == FailoverSpec => []FailoverInv
BY FailoverInitInv, FailoverNextInv, PTL DEF FailoverSpec

\* A node that comes back does not seize a room that a failover has resumed
\* elsewhere (the disarming in WsConnected and on SfuMembers), whatever is lost,
\* denied, retried and reordered in between.
THEOREM FailoverNoHijack == FailoverSpec => NoHijack
<1>1. FailoverInv /\ [FailoverNext]_failover_vars =>
        [\A n \in Node : WsConnected(n) /\ resumed /\ SameRoom => cm'.current = cm.current]_failover_vars
  BY ConnectedStep
<1> QED
  BY <1>1, FailoverInvariant, PTL DEF FailoverSpec, NoHijack
=============================================================================
