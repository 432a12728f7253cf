------------------------------ MODULE SfuRooms ------------------------------
(***************************************************************************)
(* The SFU room manager of the supernode (conquerd-supernode/src/sfu.rs)   *)
(* and the part of every signaling handler in main.rs that changes it.     *)
(*                                                                         *)
(* A room is a record; `rooms' is the manager's HashMap, a function whose  *)
(* domain is the set of rooms that exist.  The operators named after       *)
(* sfu.rs methods map an old room (or an old `rooms') to a new one, so a   *)
(* handler is the composition of the methods it calls.                     *)
(*                                                                         *)
(* Abstractions.  Participant indices, display names, token provenance are *)
(* never read by the code and are left out.  Wall-clock `empty_since' is   *)
(* the room's idle age `empty_for', counted in ticks of a common clock and *)
(* saturating at IdleSecs, the only value gc_idle_rooms tells apart.       *)
(* Ids are spellings: one Ed25519 identity may be written padded or bare,  *)
(* and normalize_peer_id maps every spelling to the canonical one.         *)
(***************************************************************************)
EXTENDS Integers, FiniteSets, Maps

CONSTANTS
  PeerId,             \* spellings of identities the wire may carry
  normalize_peer_id,  \* spelling -> canonical (padded) spelling
  NoPeer,             \* the empty creator_id
  RoomId,             \* room ids clients may name
  DEFAULT_ROOM_ID,    \* the built-in lobby
  Token,              \* invite tokens
  NoToken,            \* an absent or empty invite_token field
  NoProof,            \* a payload without a verifying Space proof
  Proofs,             \* Space proofs that clients present
  DeniedTypes,        \* room types the operator's policy forbids creating
  MAX_ROOM_SIZE,      \* voice participants per room
  IdleSecs            \* IDLE_ROOM_GC_SECS, in ticks

RoomType == {"public", "private"}
InvitePolicy == {"owner", "members"}
InUse == -1           \* empty_since = None

ASSUME PeerAssumption ==
  /\ IsFiniteSet(PeerId)
  /\ NoPeer \notin PeerId
  /\ normalize_peer_id \in [PeerId -> PeerId]
  /\ \A p \in PeerId : normalize_peer_id[normalize_peer_id[p]] = normalize_peer_id[p]
ASSUME RoomAssumption ==
  /\ DEFAULT_ROOM_ID \in RoomId
  /\ NoToken \notin Token
  /\ DeniedTypes \subseteq RoomType
ASSUME LimitAssumption ==
  /\ MAX_ROOM_SIZE \in Nat \ {0}
  /\ IdleSecs \in Nat \ {0}

VARIABLE rooms

vars == rooms

Canonical == {p \in PeerId : normalize_peer_id[p] = p}

\* max_uses is 1 for a minted token and 0 (unlimited) for a re-seeded one.
InviteToken == [uses : 0 .. 1, max_uses : 0 .. 1]

SFURoom ==
  [room_type     : RoomType,
   creator_id    : PeerId \cup {NoPeer},
   invite_policy : InvitePolicy,
   participants  : SUBSET PeerId,
   subscribers   : SUBSET PeerId,
   allowed       : SUBSET PeerId,
   invite_tokens : HashMap(Token, InviteToken),
   empty_for     : {InUse} \cup 0 .. IdleSecs]

-----------------------------------------------------------------------------
(* Methods of SFURoom.                                                     *)

NormOrNone(c) == IF c = NoPeer THEN NoPeer ELSE normalize_peer_id[c]

NewRoom(type, creator, policy) ==
  [room_type     |-> type,
   creator_id    |-> NormOrNone(creator),
   invite_policy |-> policy,
   participants  |-> {},
   subscribers   |-> {},
   allowed       |-> {},
   invite_tokens |-> EmptyMap,
   empty_for     |-> InUse]

is_unused(rm) == rm.participants = {} /\ rm.subscribers = {}

\* Mutant: the capacity check is off by one.
is_fullOffByOne(rm) == Cardinality(rm.participants) > MAX_ROOM_SIZE

is_full(rm) == Cardinality(rm.participants) >= MAX_ROOM_SIZE

mark_in_use(rm) == [rm EXCEPT !.empty_for = InUse]

mark_unused_if_empty(rm) ==
  IF is_unused(rm) /\ rm.empty_for = InUse THEN [rm EXCEPT !.empty_for = 0] ELSE rm

is_peer_allowed(rm, p) ==
  \/ rm.room_type = "public"
  \/ normalize_peer_id[p] \in rm.allowed \cup rm.participants
  \/ normalize_peer_id[p] = rm.creator_id

is_invite_eligible_member(rm, p) ==
  \/ normalize_peer_id[p] = rm.creator_id
  \/ normalize_peer_id[p] \in rm.allowed \cup rm.participants \cup rm.subscribers

\* Mutant: the id goes onto the ACL as it was spelled.
room_allow_peerRaw(rm, p) == [rm EXCEPT !.allowed = @ \cup {p}]

room_allow_peer(rm, p) ==
  [rm EXCEPT !.allowed = @ \cup {normalize_peer_id[p]}]

\* Mutant: a subscriber that joins voice stays on the chat list.
add_participantKeepSubscriber(rm, p) ==
  LET id == normalize_peer_id[p] IN
  IF id \in rm.participants \/ is_full(rm)
  THEN rm
  ELSE mark_in_use([rm EXCEPT !.participants = @ \cup {id}])

\* The participant is admitted already, refused (full), or added.
add_participant(rm, p) ==
  LET id == normalize_peer_id[p] IN
  IF id \in rm.participants \/ is_full(rm)
  THEN rm
  ELSE mark_in_use([rm EXCEPT !.participants = @ \cup {id},
                              !.subscribers  = @ \ {id}])

remove_participant(rm, p) ==
  LET id == normalize_peer_id[p] IN
  IF id \in rm.participants
  THEN mark_unused_if_empty([rm EXCEPT !.participants = @ \ {id}])
  ELSE rm

room_subscribe(rm, p) ==
  LET id == normalize_peer_id[p] IN
  IF id \in rm.participants
  THEN rm
  ELSE mark_in_use([rm EXCEPT !.subscribers = @ \cup {id}])

\* Mutant: the last unsubscribe does not start the idle clock.
room_unsubscribeNoMark(rm, p) ==
  [rm EXCEPT !.subscribers = @ \ {normalize_peer_id[p]}]

room_unsubscribe(rm, p) ==
  LET id == normalize_peer_id[p] IN
  IF id \in rm.subscribers
  THEN mark_unused_if_empty([rm EXCEPT !.subscribers = @ \ {id}])
  ELSE rm

\* Mutant: a disconnect also takes the peer off the ACL.
remove_peer_entirelyAndAcl(rm, p) ==
  LET id == normalize_peer_id[p] IN
  IF id \in rm.participants \cup rm.subscribers
  THEN mark_unused_if_empty([rm EXCEPT !.participants = @ \ {id},
                                       !.subscribers  = @ \ {id},
                                       !.allowed      = @ \ {id}])
  ELSE rm

remove_peer_entirely(rm, p) ==
  LET id == normalize_peer_id[p] IN
  IF id \in rm.participants \cup rm.subscribers
  THEN mark_unused_if_empty([rm EXCEPT !.participants = @ \ {id},
                                       !.subscribers  = @ \ {id}])
  ELSE rm

SetToken(rm, t, rec) == [rm EXCEPT !.invite_tokens = Put(@, t, rec)]

\* A freshly minted nonce: t is a token the room does not hold.
room_generate_invite_token(rm, t) == SetToken(rm, t, [uses |-> 0, max_uses |-> 1])

room_reregister_invite_token(rm, t) == SetToken(rm, t, [uses |-> 0, max_uses |-> 0])

TokenSpendable(rm, t) ==
  /\ t \in DOMAIN rm.invite_tokens
  /\ LET it == rm.invite_tokens[t] IN it.max_uses = 0 \/ it.uses < it.max_uses

validate_and_consume_token(rm, t, p) ==
  IF ~TokenSpendable(rm, t)
  THEN rm
  ELSE LET it == rm.invite_tokens[t]
           in == room_allow_peer(rm, p)
       IN IF it.max_uses = 0
          THEN in
          ELSE IF it.uses + 1 >= it.max_uses
               THEN [in EXCEPT !.invite_tokens = Without(@, {t})]
               ELSE SetToken(in, t, [it EXCEPT !.uses = @ + 1])

-----------------------------------------------------------------------------
(* Methods of SFURoomManager, on the whole map.                            *)

\* Apply a room method to r if it exists; a missing room is left alone.
OnRoom(rs, r, Method(_)) ==
  IF r \in DOMAIN rs THEN [rs EXCEPT ![r] = Method(rs[r])] ELSE rs

create_room_with_policy(rs, r, type, creator, policy) ==
  IF r \in DOMAIN rs
  THEN rs
  ELSE Put(rs, r, mark_unused_if_empty(NewRoom(type, creator, policy)))

allow_peer(rs, r, p) ==
  LET Allow(rm) == room_allow_peer(rm, p) IN OnRoom(rs, r, Allow)

reregister_invite_token(rs, r, t) ==
  LET Reseed(rm) == room_reregister_invite_token(rm, t) IN OnRoom(rs, r, Reseed)

validate_room_invite(rs, r, t, p) ==
  LET Spend(rm) == validate_and_consume_token(rm, t, p) IN OnRoom(rs, r, Spend)

generate_invite_token(rs, r, t) ==
  LET Mint(rm) == room_generate_invite_token(rm, t) IN OnRoom(rs, r, Mint)

join_room(rs, r, p) ==
  LET Join(rm) == IF is_peer_allowed(rm, p) THEN add_participant(rm, p) ELSE rm
  IN OnRoom(rs, r, Join)

\* The Space owner becomes the creator of a room that has none.  The owner's
\* spelling is stored as it came (it is not normalized).
adopt_creator_if_empty(rs, r, owner) ==
  LET Adopt(rm) == IF rm.creator_id = NoPeer THEN [rm EXCEPT !.creator_id = owner] ELSE rm
  IN OnRoom(rs, r, Adopt)

\* Rooms without a creator are dropped as soon as a departure empties them.
Orphaned(rs, S) ==
  {r \in S \cap DOMAIN rs :
     is_unused(rs[r]) /\ rs[r].creator_id = NoPeer /\ r # DEFAULT_ROOM_ID}

leave_room(rs, r, p) ==
  LET Leave(rm) == mark_unused_if_empty(remove_participant(rm, p))
      left == OnRoom(rs, r, Leave)
  IN Without(left, Orphaned(left, {r}))

RoomsOf(rs, p) ==
  {r \in DOMAIN rs : normalize_peer_id[p] \in rs[r].participants \cup rs[r].subscribers}

remove_peer_from_all(rs, p) ==
  LET left == [r \in DOMAIN rs |->
                 IF r \in RoomsOf(rs, p) THEN remove_peer_entirely(rs[r], p) ELSE rs[r]]
  IN Without(left, Orphaned(left, RoomsOf(rs, p)))

\* Mutant: the sweep looks at voice participants instead of the idle mark.
CollectableVoiceOnly(rs) ==
  {r \in DOMAIN rs \ {DEFAULT_ROOM_ID} :
     rs[r].creator_id # NoPeer /\ rs[r].participants = {}}

\* Mutant: the sweep keeps a room with admitted members.
CollectableNoAcl(rs) ==
  {r \in DOMAIN rs \ {DEFAULT_ROOM_ID} :
     rs[r].creator_id # NoPeer /\ rs[r].empty_for >= IdleSecs /\ rs[r].allowed = {}}

\* Rooms gc_idle_rooms drops; a room without a creator is never among them.
Collectable(rs) ==
  {r \in DOMAIN rs \ {DEFAULT_ROOM_ID} :
     rs[r].creator_id # NoPeer /\ rs[r].empty_for >= IdleSecs}

-----------------------------------------------------------------------------
(* try_space_admission.  A verifying proof materializes the room of the    *)
(* proven node and binds its owner; it admits the sender when the node is  *)
(* public or the payload carries the owner's grant for the sender.         *)

SpaceProof == [node_type     : RoomType,
               owner_pub     : PeerId \cup {NoPeer},
               invite_policy : InvitePolicy,
               granted       : BOOLEAN]

ASSUME ProofAssumption == NoProof \notin SpaceProof /\ Proofs \subseteq SpaceProof

admitted_by(proof) ==
  proof # NoProof /\ (proof.node_type = "public" \/ proof.granted)

try_space_admission(rs, p, r, proof) ==
  IF proof = NoProof
  THEN rs
  ELSE LET there == adopt_creator_if_empty(
                      create_room_with_policy(rs, r, proof.node_type, NoPeer,
                                              proof.invite_policy),
                      r, proof.owner_pub)
       IN IF admitted_by(proof) THEN allow_peer(there, r, p) ELSE there

-----------------------------------------------------------------------------
(* The handlers: one action per signaling message, disconnect and timer.   *)

Init == rooms = [r \in {DEFAULT_ROOM_ID} |-> NewRoom("public", NoPeer, "owner")]

\* A client-held token on the join is re-seeded and admits before the ACL.
TokenOnJoin(rs, p, r, t) ==
  IF t = NoToken THEN rs ELSE allow_peer(reregister_invite_token(rs, r, t), r, p)

HandleSfuJoin(p, r, t, proof) ==
  LET proven  == try_space_admission(rooms, p, r, proof)
      granted == TokenOnJoin(proven, p, r, t)
  IN rooms' = join_room(granted, r, p)

HandleSfuLeave(p, r) == rooms' = leave_room(rooms, r, p)

\* Mutant: the chat subscription skips the ACL.
HandleSfuSubscribeUnchecked(p, r) ==
  /\ r \in DOMAIN rooms
  /\ rooms' = [rooms EXCEPT ![r] = room_subscribe(@, p)]

HandleSfuSubscribe(p, r) ==
  /\ r \in DOMAIN rooms
  /\ is_peer_allowed(rooms[r], p)
  /\ rooms' = [rooms EXCEPT ![r] = room_subscribe(@, p)]

HandleSfuUnsubscribe(p, r) ==
  /\ r \in DOMAIN rooms
  /\ rooms' = [rooms EXCEPT ![r] = room_unsubscribe(@, p)]

\* `claimed' is the payload's creator_id; absent, it defaults to the sender.
HandleSfuRoomCreate(p, r, type, claimed, policy, t, fresh) ==
  LET creator    == IF claimed = NoPeer THEN p ELSE claimed
      createdNew == r \notin DOMAIN rooms
      made       == create_room_with_policy(rooms, r, type, creator, policy)
      isCreator  == p = made[r].creator_id \/ p = creator
      readmitted ==
        IF t # NoToken
        THEN allow_peer(reregister_invite_token(made, r, t), r, p)
        ELSE IF ~(isCreator \/ createdNew)
             THEN made
             ELSE LET in == allow_peer(made, r, p)
                  IN IF createdNew THEN generate_invite_token(in, r, fresh) ELSE in
  IN /\ ~(createdNew /\ type \in DeniedTypes)
     /\ rooms' = IF type = "private" THEN readmitted ELSE made

\* The presented token is re-seeded before it is validated.
HandleSfuRoomInvite(p, r, t, proof) ==
  LET proven == try_space_admission(rooms, p, r, proof)
  IN rooms' = IF ~admitted_by(proof) /\ t # NoToken
              THEN validate_room_invite(reregister_invite_token(proven, r, t), r, t, p)
              ELSE proven

HandleSfuInviteGenerate(p, r, fresh) ==
  /\ r \in DOMAIN rooms
  /\ rooms[r].creator_id # NoPeer
  /\ \/ rooms[r].creator_id = p
     \/ rooms[r].invite_policy = "members" /\ is_invite_eligible_member(rooms[r], p)
  /\ fresh \notin DOMAIN rooms[r].invite_tokens
  /\ rooms' = generate_invite_token(rooms, r, fresh)

\* A durable room advertised in a cluster peer's RoomRoster.
ApplyRoomRoster(r, type, creator, policy) ==
  rooms' = create_room_with_policy(rooms, r, type, creator, policy)

OnPeerDisconnected(p) == rooms' = remove_peer_from_all(rooms, p)

GcIdleRooms ==
  /\ Collectable(rooms) # {}
  /\ rooms' = Without(rooms, Collectable(rooms))

\* Time passes: every idle room grows older by a tick.
Tick ==
  rooms' = [r \in DOMAIN rooms |->
              IF rooms[r].empty_for \in 0 .. IdleSecs - 1
              THEN [rooms[r] EXCEPT !.empty_for = @ + 1]
              ELSE rooms[r]]

JoinNext ==
  \E p \in PeerId, r \in RoomId, t \in Token \cup {NoToken},
     proof \in Proofs \cup {NoProof} :
       HandleSfuJoin(p, r, t, proof)

InviteNext ==
  \E p \in PeerId, r \in RoomId, t \in Token \cup {NoToken},
     proof \in Proofs \cup {NoProof} :
       HandleSfuRoomInvite(p, r, t, proof)

CreateNext ==
  \E p \in PeerId, r \in RoomId, type \in RoomType, claimed \in PeerId \cup {NoPeer},
     policy \in InvitePolicy, t \in Token \cup {NoToken}, fresh \in Token :
       HandleSfuRoomCreate(p, r, type, claimed, policy, t, fresh)

MemberNext ==
  \E p \in PeerId, r \in RoomId :
    \/ HandleSfuLeave(p, r)
    \/ HandleSfuSubscribe(p, r)
    \/ HandleSfuUnsubscribe(p, r)
    \/ \E fresh \in Token : HandleSfuInviteGenerate(p, r, fresh)

RosterNext ==
  \E r \in RoomId, type \in RoomType, creator \in PeerId, policy \in InvitePolicy :
    ApplyRoomRoster(r, type, creator, policy)

Next ==
  \/ JoinNext
  \/ InviteNext
  \/ CreateNext
  \/ MemberNext
  \/ RosterNext
  \/ \E p \in PeerId : OnPeerDisconnected(p)
  \/ GcIdleRooms
  \/ Tick

Spec == Init /\ [][Next]_vars

\* The clock and the 60-second GC timer (main.rs, spawned at start-up and
\* never stopped) keep running whatever the clients do.
FairSpec == Spec /\ WF_vars(Tick) /\ WF_vars(GcIdleRooms)

-----------------------------------------------------------------------------
(* Properties.                                                             *)

\* Every room in the map is well formed and the lobby is always there.
TypeOK ==
  /\ DOMAIN rooms \subseteq RoomId
  /\ DEFAULT_ROOM_ID \in DOMAIN rooms
  /\ \A r \in DOMAIN rooms : rooms[r] \in SFURoom

\* Nobody is voice participant and chat subscriber of one room at once:
\* chat_recipient_ids concatenates both lists, so a peer in both would get
\* every chat frame twice.
VoiceAndChatDisjoint ==
  \A r \in DOMAIN rooms : rooms[r].participants \cap rooms[r].subscribers = {}

\* add_participant's is_full check bounds the room on every path that admits.
RoomNeverOverfull ==
  \A r \in DOMAIN rooms : Cardinality(rooms[r].participants) <= MAX_ROOM_SIZE

\* However an id was spelled on the wire, membership and ACL hold only the
\* canonical spelling; a bare spelling stored anywhere would be missed by the
\* removal on disconnect and stay behind as a ghost.
MembersCanonical ==
  \A r \in DOMAIN rooms :
    rooms[r].participants \cup rooms[r].subscribers \cup rooms[r].allowed \subseteq Canonical

\* A private room holds only its creator and peers on its ACL: no handler
\* lets a peer in (voice or chat) without one of the two.
PrivateMembersAdmitted ==
  \A r \in DOMAIN rooms :
    rooms[r].room_type = "private" =>
      rooms[r].participants \cup rooms[r].subscribers
        \subseteq rooms[r].allowed \cup {rooms[r].creator_id}

\* empty_since is set exactly while the room is unused, so the GC neither
\* drops a room somebody is in nor forgets one nobody is in.  The lobby is
\* exempt from the second half (it starts without a mark).
IdleAgeMatchesUse ==
  \A r \in DOMAIN rooms :
    /\ rooms[r].empty_for # InUse => is_unused(rooms[r])
    /\ is_unused(rooms[r]) /\ r # DEFAULT_ROOM_ID => rooms[r].empty_for # InUse

\* Once a peer may enter a room it may re-enter for as long as the room
\* lives: leaving, disconnecting or spending the invite never locks it out.
NoAdmissionLost ==
  [][\A r \in DOMAIN rooms \cap DOMAIN rooms', p \in PeerId :
       is_peer_allowed(rooms[r], p) => is_peer_allowed(rooms'[r], p)]_vars

\* The room's only member is p, and this step is p leaving it or disconnecting.
LastMemberGoes(r) ==
  \E p \in PeerId :
    /\ rooms[r].participants \cup rooms[r].subscribers = {normalize_peer_id[p]}
    /\ HandleSfuLeave(p, r) \/ OnPeerDisconnected(p)

\* A room disappears only when nobody is in it, or in the very step in which
\* its last member leaves it or disconnects: the sweep of idle rooms and the
\* clean-up after somebody else's departure take no room from under a member.
RoomsOutliveMembers ==
  [][\A r \in DOMAIN rooms \ DOMAIN rooms' : is_unused(rooms[r]) \/ LastMemberGoes(r)]_vars

\* A room that has a creator and stays unused is collected by the idle GC.
IdleRoomsCollected ==
  \A r \in RoomId \ {DEFAULT_ROOM_ID} :
    LET Idle == /\ r \in DOMAIN rooms
                /\ rooms[r].creator_id # NoPeer
                /\ is_unused(rooms[r])
    IN Idle ~> ~Idle
=============================================================================
