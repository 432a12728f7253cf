------------------------------ MODULE QuicRelay -----------------------------
(***************************************************************************)
(* The QUIC relay of the supernode (conquerd-supernode/src/relay.rs): the  *)
(* RelayState behind one RwLock, and one task per QUIC connection that     *)
(* takes the lock several times between its accept and its exit.  Every    *)
(* action is one lock section (or one call that holds the lock throughout),*)
(* so tasks of old and new connections of a peer interleave as they do on  *)
(* the multi-threaded runtime.                                             *)
(*                                                                         *)
(* Peer ids are the trimmed ids every entry point of relay.rs reduces its  *)
(* argument to.  A room or a game session without members is absent from   *)
(* its HashMap; here it is the empty set.  Byte counters, addresses, the   *)
(* notifications to clients (which the client drains unread) and the quota *)
(* gates in front of forwarding are left out.                              *)
(***************************************************************************)
EXTENDS Integers, FiniteSets, Maps

CONSTANTS
  Peer,      \* identities
  Conn,      \* QUIC connections, each with its own stable_id
  Room,      \* room ids
  Session,   \* portal game session ids
  None,      \* Option::None
  MaxIndex,  \* 254: peer indices are 1 .. MaxIndex
  MAX_PEERS  \* 255

ASSUME SetAssumption ==
  /\ IsFiniteSet(Peer)
  /\ None \notin Peer \cup Conn \cup Room \cup Session
ASSUME IndexAssumption == MaxIndex \in Nat \ {0} /\ MAX_PEERS \in Nat

VARIABLES
  allowed,            \* peers with full access
  portal_allowed,     \* portal-only guests
  peers,              \* peer -> [peer_index, connection, room_id]
  index_to_peer,      \* peer_index -> peer
  rooms,              \* room -> members
  game_sessions,      \* session -> members
  peer_game_session,  \* peer -> session
  video_subs,         \* peer -> senders it wants video from
  next_index,
  conn                \* connection -> its task and whether it is open

state == <<allowed, portal_allowed, peers, index_to_peer, rooms, game_sessions,
           peer_game_session, video_subs, next_index>>
vars == <<state, conn>>

Index == 1 .. MaxIndex

RelayPeer == [peer_index : Index, connection : Conn, room_id : Room \cup {None}]

\* Where a connection's task stands; `arg' is the room a datagram heals.
PC == {"unused", "auth", "register", "welcome", "live", "heal", "remove", "done"}

Task == [peer : Peer \cup {None}, pc : PC, open : BOOLEAN, arg : Room \cup {None}]

TypeOK ==
  /\ allowed \in SUBSET Peer
  /\ portal_allowed \in SUBSET Peer
  /\ peers \in HashMap(Peer, RelayPeer)
  /\ index_to_peer \in HashMap(Index, Peer)
  /\ rooms \in [Room -> SUBSET Peer]
  /\ game_sessions \in [Session -> SUBSET Peer]
  /\ peer_game_session \in HashMap(Peer, Session)
  /\ video_subs \in HashMap(Peer, SUBSET Peer)
  /\ next_index \in Index
  /\ conn \in [Conn -> Task]

Init ==
  /\ allowed = {}
  /\ portal_allowed = {}
  /\ peers = EmptyMap
  /\ index_to_peer = EmptyMap
  /\ rooms = [r \in Room |-> {}]
  /\ game_sessions = [s \in Session |-> {}]
  /\ peer_game_session = EmptyMap
  /\ video_subs = EmptyMap
  /\ next_index = 1
  /\ conn = [c \in Conn |-> [peer |-> None, pc |-> "unused", open |-> FALSE, arg |-> None]]

-----------------------------------------------------------------------------
(* Methods of RelayState.                                                  *)

wants_video(recipient, sender) ==
  recipient \in DOMAIN video_subs => sender \in video_subs[recipient]

\* handle_datagram: the peers a broadcast of p is forwarded to, in p's game
\* session (game.relay.v1) or else in p's room, and the peer that p reaches
\* at index i, which must be in the same room.  Room audio is not forwarded here:
\* it goes to the bridge that main.rs installs, which asks the SFU (module SfuRooms)
\* for the room's participants and uses a peer's entry only as a transport.  What
\* is left of it here is the heal below.
GameTargets(p) ==
  (game_sessions[peer_game_session[p]] \ {p}) \cap DOMAIN peers

RoomTargets(p, isVideo) ==
  IF peers[p].room_id = None
  THEN {}
  ELSE {q \in (rooms[peers[p].room_id] \ {p}) \cap DOMAIN peers :
          isVideo => wants_video(q, p)}

BroadcastTargets(p, feature) ==
  IF feature = "game.relay.v1" /\ p \in DOMAIN peer_game_session
  THEN GameTargets(p)
  ELSE RoomTargets(p, feature = "room.video.sfu")

PointToPointTargets(p, i) ==
  {q \in DOMAIN peers :
     /\ i \in DOMAIN index_to_peer
     /\ index_to_peer[i] = q
     /\ peers[p].room_id # None
     /\ peers[q].room_id = peers[p].room_id}

\* allocate_index scans upwards from next_index, wrapping after MaxIndex.
Distance(i) == IF i >= next_index THEN i - next_index ELSE i - next_index + MaxIndex

NextFree(used) ==
  CHOOSE i \in Index \ used : \A j \in Index \ used : Distance(i) <= Distance(j)

\* Mutant: the wrap after the last index is missing.
SuccessorNoWrap(i) == i + 1

Successor(i) == IF i = MaxIndex THEN 1 ELSE i + 1

LeaveAll(membership, P) == [x \in DOMAIN membership |-> membership[x] \ P]

\* Mutants of RemovePeers: the index is not freed; only the room named by the
\* peer's entry is left.
RemovePeersKeepIndex(P) ==
  /\ video_subs' = Without(video_subs, P)
  /\ peers' = Without(peers, P)
  /\ rooms' = LeaveAll(rooms, P)
  /\ game_sessions' = LeaveAll(game_sessions, P)
  /\ peer_game_session' = Without(peer_game_session, P)
  /\ UNCHANGED <<allowed, portal_allowed, index_to_peer, next_index>>

RemovePeersEntryRoomOnly(P) ==
  /\ video_subs' = Without(video_subs, P)
  /\ peers' = Without(peers, P)
  /\ index_to_peer' = Without(index_to_peer, {peers[p].peer_index : p \in P \cap DOMAIN peers})
  /\ rooms' = [r \in Room |-> rooms[r] \ {p \in P \cap DOMAIN peers : peers[p].room_id = r}]
  /\ game_sessions' = LeaveAll(game_sessions, P)
  /\ peer_game_session' = Without(peer_game_session, P)
  /\ UNCHANGED <<allowed, portal_allowed, next_index>>

\* remove_peer, for a set of peers (one, or all the stale ones).
RemovePeers(P) ==
  /\ video_subs' = Without(video_subs, P)
  /\ peers' = Without(peers, P)
  /\ index_to_peer' = Without(index_to_peer, {peers[p].peer_index : p \in P \cap DOMAIN peers})
  /\ rooms' = LeaveAll(rooms, P)
  /\ game_sessions' = LeaveAll(game_sessions, P)
  /\ peer_game_session' = Without(peer_game_session, P)
  /\ UNCHANGED <<allowed, portal_allowed, next_index>>

-----------------------------------------------------------------------------
(* Calls from the signaling handlers of main.rs.                           *)

AllowPeerUpdate(p) ==
  /\ allowed' = allowed \cup {p}
  /\ portal_allowed' = portal_allowed \ {p}
  /\ UNCHANGED <<peers, index_to_peer, rooms, game_sessions, peer_game_session,
                 video_subs, next_index, conn>>

\* allow_peer, the cluster PeerAuth path: leaves portal_allowed alone.
AllowPeer(p) ==
  /\ allowed' = allowed \cup {p}
  /\ UNCHANGED <<portal_allowed, peers, index_to_peer, rooms, game_sessions,
                 peer_game_session, video_subs, next_index, conn>>

AllowPortalPeer(p) ==
  /\ portal_allowed' = portal_allowed \cup {p}
  /\ UNCHANGED <<allowed, peers, index_to_peer, rooms, game_sessions, peer_game_session,
                 video_subs, next_index, conn>>

\* Mutant: the new room is joined before the previous one is left, so joining
\* the same room again ends outside of it.
JoinRoomThenLeave(p, r) ==
  LET old == IF p \in DOMAIN peers THEN peers[p].room_id ELSE None IN
  /\ rooms' = [x \in Room |->
                 IF x = old THEN rooms[x] \ {p}
                 ELSE IF x = r THEN rooms[x] \cup {p} ELSE rooms[x]]
  /\ peers' = IF p \in DOMAIN peers THEN [peers EXCEPT ![p].room_id = r] ELSE peers
  /\ UNCHANGED <<allowed, portal_allowed, index_to_peer, game_sessions, peer_game_session,
                 video_subs, next_index, conn>>

\* The previous room is known only through the peer's QUIC entry.
JoinRoom(p, r) ==
  LET old == IF p \in DOMAIN peers THEN peers[p].room_id ELSE None IN
  /\ rooms' = [x \in Room |->
                 IF x = r THEN rooms[x] \cup {p}
                 ELSE IF x = old THEN rooms[x] \ {p} ELSE rooms[x]]
  /\ peers' = IF p \in DOMAIN peers THEN [peers EXCEPT ![p].room_id = r] ELSE peers
  /\ UNCHANGED <<allowed, portal_allowed, index_to_peer, game_sessions, peer_game_session,
                 video_subs, next_index, conn>>

\* Without a QUIC entry, or without a room in it, nothing is removed.
LeaveRoom(p) ==
  /\ p \in DOMAIN peers
  /\ peers[p].room_id # None
  /\ rooms' = [rooms EXCEPT ![peers[p].room_id] = @ \ {p}]
  /\ peers' = [peers EXCEPT ![p].room_id = None]
  /\ UNCHANGED <<allowed, portal_allowed, index_to_peer, game_sessions, peer_game_session,
                 video_subs, next_index, conn>>

\* Mutant: the previous session keeps the peer.
JoinGameSessionKeepOld(p, s) ==
  /\ game_sessions' = [game_sessions EXCEPT ![s] = @ \cup {p}]
  /\ peer_game_session' = Put(peer_game_session, p, s)
  /\ UNCHANGED <<allowed, portal_allowed, peers, index_to_peer, rooms, video_subs,
                 next_index, conn>>

JoinGameSession(p, s) ==
  LET old == IF p \in DOMAIN peer_game_session THEN {peer_game_session[p]} ELSE {} IN
  /\ game_sessions' = [x \in Session |->
                         IF x = s THEN game_sessions[x] \cup {p}
                         ELSE IF x \in old THEN game_sessions[x] \ {p} ELSE game_sessions[x]]
  /\ peer_game_session' = Put(peer_game_session, p, s)
  /\ UNCHANGED <<allowed, portal_allowed, peers, index_to_peer, rooms, video_subs,
                 next_index, conn>>

LeaveGameSession(p) ==
  /\ p \in DOMAIN peer_game_session
  /\ game_sessions' = [game_sessions EXCEPT ![peer_game_session[p]] = @ \ {p}]
  /\ peer_game_session' = Without(peer_game_session, {p})
  /\ UNCHANGED <<allowed, portal_allowed, peers, index_to_peer, rooms, video_subs,
                 next_index, conn>>

SetVideoSubscriptions(p, senders) ==
  /\ video_subs' = Put(video_subs, p, senders)
  /\ UNCHANGED <<allowed, portal_allowed, peers, index_to_peer, rooms, game_sessions,
                 peer_game_session, next_index, conn>>

-----------------------------------------------------------------------------
(* handle_connection: the task of connection c.                            *)

Goto(c, pc) == conn' = [conn EXCEPT ![c].pc = pc]

\* The QUIC handshake completed; the certificate names peer p.
Accept(c, p) ==
  /\ conn[c].pc = "unused"
  /\ conn' = [conn EXCEPT ![c] = [peer |-> p, pc |-> "auth", open |-> TRUE, arg |-> None]]
  /\ UNCHANGED state

\* Read lock: full access or portal-only, otherwise refused and closed.
Authorize(c) ==
  /\ conn[c].pc = "auth"
  /\ IF conn[c].peer \in allowed \cup portal_allowed
     THEN Goto(c, "register")
     ELSE conn' = [conn EXCEPT ![c].pc = "done", ![c].open = FALSE]
  /\ UNCHANGED state

\* The entry and the index of the connection that c replaces.
OldEntry(p) == {p} \cap DOMAIN peers
UsedIndices(p) == DOMAIN index_to_peer \ {peers[q].peer_index : q \in OldEntry(p)}

\* Mutant: any room that lists the peer, not the replaced entry's first.
ExistingRoomAny(p, r) ==
  IF \E x \in Room : p \in rooms[x] THEN r \in Room /\ p \in rooms[r] ELSE r = None

\* The room of the replaced entry, else any room a WebSocket join put the peer in.
ExistingRoom(p, r) ==
  IF p \in DOMAIN peers /\ peers[p].room_id # None
  THEN r = peers[p].room_id
  ELSE IF \E x \in Room : p \in rooms[x] THEN r \in Room /\ p \in rooms[r] ELSE r = None

\* Write lock: soft-replace an older connection of the peer, keep its room,
\* allocate an index, insert the new entry.
Register(c, r) ==
  LET p   == conn[c].peer
      idx == NextFree(UsedIndices(p))
  IN /\ conn[c].pc = "register"
     /\ Cardinality(DOMAIN peers) < MAX_PEERS
     /\ Index \ UsedIndices(p) # {}
     /\ ExistingRoom(p, r)
     /\ index_to_peer' = Put(Without(index_to_peer, {peers[q].peer_index : q \in OldEntry(p)}),
                             idx, p)
     /\ next_index' = Successor(idx)
     /\ peers' = Put(peers, p, [peer_index |-> idx, connection |-> c, room_id |-> r])
     /\ rooms' = IF p \in DOMAIN peers /\ peers[p].room_id # None
                 THEN [rooms EXCEPT ![peers[p].room_id] = @ \cup {p}]
                 ELSE rooms
     /\ conn' = [d \in Conn |->
                   IF d = c THEN [conn[c] EXCEPT !.pc = "welcome"]
                   ELSE IF \E q \in OldEntry(p) : d = peers[q].connection
                        THEN [conn[d] EXCEPT !.open = FALSE]
                        ELSE conn[d]]
     /\ UNCHANGED <<allowed, portal_allowed, game_sessions, peer_game_session, video_subs>>

\* Write lock: the relay is full, or every index is taken (a replaced entry
\* would have freed one); the newcomer's connection is closed.
RegisterRefused(c) ==
  /\ conn[c].pc = "register"
  /\ Cardinality(DOMAIN peers) >= MAX_PEERS \/ Index \subseteq UsedIndices(conn[c].peer)
  /\ conn' = [conn EXCEPT ![c].pc = "done", ![c].open = FALSE]
  /\ UNCHANGED state

\* Sending the welcome succeeds, or the connection is lost and the task
\* returns at once, leaving its entry to cleanup_stale_peers.
Welcome(c) ==
  /\ conn[c].pc = "welcome"
  /\ Goto(c, IF conn[c].open THEN "live" ELSE "done")
  /\ UNCHANGED state

\* The client closes, or the idle timeout expires.
Close(c) ==
  /\ conn[c].open
  /\ conn' = [conn EXCEPT ![c].open = FALSE]
  /\ UNCHANGED state

\* A room-audio datagram, read lock: the entry has no room, the payload names r.
\* Datagrams buffered before the connection closed are still handled.
HealRead(c, r) ==
  LET p == conn[c].peer IN
  /\ conn[c].pc = "live"
  /\ p \in allowed
  /\ p \in DOMAIN peers
  /\ peers[p].room_id = None
  /\ conn' = [conn EXCEPT ![c].pc = "heal", ![c].arg = r]
  /\ UNCHANGED state

\* The same datagram, write lock: the room is set and joined, whatever
\* happened to the entry in between.
HealWrite(c) ==
  LET p == conn[c].peer
      r == conn[c].arg
  IN /\ conn[c].pc = "heal"
     /\ peers' = IF p \in DOMAIN peers THEN [peers EXCEPT ![p].room_id = r] ELSE peers
     /\ rooms' = [rooms EXCEPT ![r] = @ \cup {p}]
     /\ conn' = [conn EXCEPT ![c].pc = "live", ![c].arg = None]
     /\ UNCHANGED <<allowed, portal_allowed, index_to_peer, game_sessions,
                    peer_game_session, video_subs, next_index>>

\* The datagram loop ended.  Read lock: is the entry still this connection's?
ExitCheck(c) ==
  LET p == conn[c].peer IN
  /\ conn[c].pc = "live"
  /\ ~conn[c].open
  /\ Goto(c, IF p \in DOMAIN peers /\ peers[p].connection = c THEN "remove" ELSE "done")
  /\ UNCHANGED state

\* Write lock: remove_peer, by peer id.
ExitRemove(c) ==
  /\ conn[c].pc = "remove"
  /\ RemovePeers({conn[c].peer})
  /\ Goto(c, "done")

\* Mutant: the sweep walks the peers with full access and misses guests.
StaleAllowed == {p \in DOMAIN peers \cap allowed : ~conn[peers[p].connection].open}

\* The periodic sweep, one write lock: every entry whose connection is closed.
Stale == {p \in DOMAIN peers : ~conn[peers[p].connection].open}

CleanupStalePeers ==
  /\ Stale # {}
  /\ RemovePeers(Stale)
  /\ UNCHANGED conn

-----------------------------------------------------------------------------

ApiNext ==
  \E p \in Peer :
    \/ AllowPeerUpdate(p)
    \/ AllowPeer(p)
    \/ AllowPortalPeer(p)
    \/ LeaveRoom(p)
    \/ LeaveGameSession(p)
    \/ \E r \in Room : JoinRoom(p, r)
    \/ \E s \in Session : JoinGameSession(p, s)
    \/ \E senders \in SUBSET (Peer \ {p}) : SetVideoSubscriptions(p, senders)

Step(c) ==
  \/ Authorize(c)
  \/ RegisterRefused(c)
  \/ \E r \in Room \cup {None} : Register(c, r)
  \/ Welcome(c)
  \/ HealWrite(c)
  \/ ExitCheck(c)
  \/ ExitRemove(c)

ConnNext ==
  \E c \in Conn :
    \/ Step(c)
    \/ Close(c)
    \/ \E p \in Peer : Accept(c, p)
    \/ \E r \in Room : HealRead(c, r)

Next == ApiNext \/ ConnNext \/ CleanupStalePeers

Spec == Init /\ [][Next]_vars

\* A spawned task runs on; the sweep fires every CLEANUP_INTERVAL_S seconds.
FairSpec == Spec /\ (\A c \in Conn : WF_vars(Step(c))) /\ WF_vars(CleanupStalePeers)
-----------------------------------------------------------------------------
(* Properties.                                                             *)

\* peers and index_to_peer stay inverse to each other through reconnects,
\* exits and sweeps, so a point-to-point datagram addressed by index reaches
\* the peer that was welcomed with it and nobody else.
IndexBijection ==
  /\ \A p \in DOMAIN peers :
       /\ peers[p].peer_index \in DOMAIN index_to_peer
       /\ index_to_peer[peers[p].peer_index] = p
  /\ \A i \in DOMAIN index_to_peer :
       /\ index_to_peer[i] \in DOMAIN peers
       /\ peers[index_to_peer[i]].peer_index = i

\* The room a registered peer is in lists it as a member.
RoomBackPointer ==
  \A p \in DOMAIN peers : peers[p].room_id # None => p \in rooms[peers[p].room_id]

\* Two registered peers of one room reach each other, by the video they
\* subscribed to, by the datagrams of a game without a session and by index,
\* whatever interleaving of joins, reconnects and heals led there: nobody is
\* silently cut off from its room.
RoommatesReachable ==
  \A p, q \in DOMAIN peers :
    p # q /\ peers[p].room_id # None /\ peers[q].room_id = peers[p].room_id =>
      /\ p \notin DOMAIN peer_game_session => q \in BroadcastTargets(p, "game.relay.v1")
      /\ wants_video(q, p) => q \in BroadcastTargets(p, "room.video.sfu")
      /\ q \in PointToPointTargets(p, peers[q].peer_index)

\* A peer is a member of exactly the game session recorded for it, so a game
\* frame never fans out to a session the peer has left.
GameSessionInverse ==
  \A p \in Peer, s \in Session :
    p \in game_sessions[s] <=> p \in DOMAIN peer_game_session /\ peer_game_session[p] = s

\* Soft-replace: a reconnect keeps the room the peer was in ("preserve room
\* membership", handle_connection), also for the fan-out of its roommates.
RoomSurvivesReconnect ==
  [][\A p \in DOMAIN peers \cap DOMAIN peers' :
       peers[p].connection # peers'[p].connection /\ peers[p].room_id # None =>
         /\ peers'[p].room_id = peers[p].room_id
         /\ p \in rooms'[peers[p].room_id]]_vars

\* When an entry goes, everything keyed by its peer goes with it: index, room
\* and game-session memberships, video subscriptions (remove_peer).
DepartedLeaveNoTrace ==
  [][\A p \in DOMAIN peers \ DOMAIN peers' :
       /\ \A i \in DOMAIN index_to_peer' : index_to_peer'[i] # p
       /\ \A r \in Room : p \notin rooms'[r]
       /\ \A s \in Session : p \notin game_sessions'[s]
       /\ p \notin DOMAIN peer_game_session' \cup DOMAIN video_subs']_vars

\* An entry whose connection has closed does not stay: the exit path, the
\* sweep or a reconnect replaces it, also when the welcome could not be sent
\* and the task returned without cleaning up.
ClosedConnectionsForgotten ==
  \A c \in Conn :
    LET Held == ~conn[c].open /\ \E p \in DOMAIN peers : peers[p].connection = c
    IN Held ~> ~Held

-----------------------------------------------------------------------------
(* What a comment of relay.rs says and the code does not do.               *)

\* "if this peer_id has reconnected, the registered entry belongs to the *new*
\* connection and must not be torn down by this (old) connection's exit path":
\* an open connection whose task is past registration owns its peer's entry.
OpenConnectionRegistered ==
  \A c \in Conn :
    conn[c].open /\ conn[c].pc \in {"welcome", "live", "heal"} =>
      /\ conn[c].peer \in DOMAIN peers
      /\ peers[conn[c].peer].connection = c
=============================================================================
