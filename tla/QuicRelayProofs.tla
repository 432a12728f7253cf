--------------------------- MODULE QuicRelayProofs --------------------------
(***************************************************************************)
(* Proofs that the relay's cross-referenced tables stay consistent for     *)
(* every set of peers, connections, rooms and sessions, every number of    *)
(* indices and every interleaving of connection tasks with signaling.      *)
(***************************************************************************)
EXTENDS QuicRelay, WellFoundedInduction, TLAPS

\* The empty map is a map.
LEMMA EmptyMapType ==
  ASSUME NEW K, NEW V
  PROVE  EmptyMap \in HashMap(K, V) /\ DOMAIN EmptyMap = {}
<1>1. EmptyMap \in [{} -> V]
  BY DEF EmptyMap
<1>2. {} \in SUBSET K
  OBVIOUS
<1> QED
  BY <1>1, <1>2 DEF HashMap, EmptyMap

\* The domain and the values of a map.
LEMMA MapValue ==
  ASSUME NEW K, NEW V, NEW f \in HashMap(K, V)
  PROVE  /\ DOMAIN f \subseteq K
         /\ \A k \in DOMAIN f : f[k] \in V
<1>1. PICK D \in SUBSET K : f \in [D -> V]
  BY DEF HashMap
<1> QED
  BY <1>1

\* Removing keys keeps a map a map.
LEMMA WithoutType ==
  ASSUME NEW K, NEW V, NEW f \in HashMap(K, V), NEW S
  PROVE  /\ Without(f, S) \in HashMap(K, V)
         /\ DOMAIN Without(f, S) = DOMAIN f \ S
         /\ \A x \in DOMAIN f \ S : Without(f, S)[x] = f[x]
<1>1. PICK D \in SUBSET K : f \in [D -> V]
  BY DEF HashMap
<1>2. Without(f, S) \in [D \ S -> V]
  BY <1>1 DEF Without
<1>3. D \ S \in SUBSET K
  BY <1>1
<1>4. Without(f, S) \in HashMap(K, V)
  BY <1>2, <1>3 DEF HashMap
<1> QED
  BY <1>1, <1>2, <1>4 DEF Without

\* The inductive invariant.  RoommatesReachable follows from it; its own
\* statement speaks of pairs of peers and is not inductive.
RelayInv ==
  /\ TypeOK
  /\ IndexBijection
  /\ RoomBackPointer
  /\ GameSessionInverse

\* A task past its accept knows its peer; a heal in progress names a room.
TasksOK ==
  \A c \in Conn :
    /\ conn[c].pc # "unused" => conn[c].peer \in Peer
    /\ conn[c].pc = "heal" => conn[c].arg \in Room

-----------------------------------------------------------------------------
(* allocate_index.                                                         *)

\* A non-empty set of naturals has a least element.
LEMMA LeastNat ==
  ASSUME NEW T \in SUBSET Nat, T # {}
  PROVE  \E x \in T : \A y \in T : x <= y
<1>1. PICK x \in T : \A y \in T : ~(<<y, x>> \in OpToRel(<, Nat))
  BY WFMin, NatLessThanWellFounded
<1>2. \A y \in T : <<y, x>> \in Nat \X Nat
  OBVIOUS
<1>3. \A y \in T : ~(y < x)
  BY <1>1, <1>2 DEF OpToRel
<1>4. \A y \in T : x <= y
  BY <1>3
<1> QED
  BY <1>4

\* While an index is free, the scan returns a free index.
LEMMA NextFreeIsFree ==
  ASSUME next_index \in Index, NEW used, Index \ used # {}
  PROVE  NextFree(used) \in Index \ used
<1> DEFINE T == {Distance(i) : i \in Index \ used}
<1>1. \A i \in Index : Distance(i) \in Nat
  BY IndexAssumption DEF Distance, Index
<1>2. T \in SUBSET Nat /\ T # {}
  BY <1>1
<1>3. PICK d \in T : \A e \in T : d <= e
  BY <1>2, LeastNat
<1>4. PICK i \in Index \ used : d = Distance(i)
  BY <1>3
<1>5. \A j \in Index \ used : Distance(i) <= Distance(j)
  BY <1>3, <1>4
<1> QED
  BY <1>4, <1>5 DEF NextFree

\* next_index stays in range.
LEMMA SuccessorInRange ==
  ASSUME NEW i \in Index
  PROVE  Successor(i) \in Index
BY IndexAssumption DEF Successor, Index

-----------------------------------------------------------------------------
(* remove_peer.                                                            *)

\* What the tables say of one entry.
LEMMA EntryFacts ==
  ASSUME TypeOK, NEW p \in DOMAIN peers
  PROVE  /\ p \in Peer
         /\ peers[p] \in RelayPeer
         /\ peers[p].room_id \in Room \cup {None}
         /\ peers[p].peer_index \in Index
<1>1. PICK D \in SUBSET Peer : peers \in [D -> RelayPeer]
  BY DEF TypeOK, HashMap
<1> QED
  BY <1>1 DEF RelayPeer

\* Removing any set of peers keeps the tables consistent.
LEMMA RemovePeersOK ==
  ASSUME RelayInv, NEW P \in SUBSET Peer, RemovePeers(P), conn' \in [Conn -> Task]
  PROVE  RelayInv'
<1> USE DEF RelayInv
<1> DEFINE freed == {peers[p].peer_index : p \in P \cap DOMAIN peers}
<1>1. /\ peers' \in HashMap(Peer, RelayPeer)
      /\ DOMAIN peers' = DOMAIN peers \ P
      /\ \A p \in DOMAIN peers \ P : peers'[p] = peers[p]
  <2>1. peers \in HashMap(Peer, RelayPeer) /\ peers' = Without(peers, P)
    BY DEF RemovePeers, TypeOK
  <2>2. PICK D \in SUBSET Peer : peers \in [D -> RelayPeer]
    BY <2>1 DEF HashMap
  <2>3. peers' \in [D \ P -> RelayPeer] /\ D \ P \in SUBSET Peer
    BY <2>1, <2>2 DEF Without
  <2> QED
    BY <2>1, <2>2, <2>3 DEF HashMap, Without
<1>2. /\ index_to_peer' \in HashMap(Index, Peer)
      /\ DOMAIN index_to_peer' = DOMAIN index_to_peer \ freed
      /\ \A i \in DOMAIN index_to_peer \ freed : index_to_peer'[i] = index_to_peer[i]
  <2>1. index_to_peer \in HashMap(Index, Peer) /\ index_to_peer' = Without(index_to_peer, freed)
    BY DEF RemovePeers, TypeOK
  <2>2. PICK D \in SUBSET Index : index_to_peer \in [D -> Peer]
    BY <2>1 DEF HashMap
  <2>3. index_to_peer' \in [D \ freed -> Peer] /\ D \ freed \in SUBSET Index
    BY <2>1, <2>2 DEF Without
  <2> HIDE DEF freed
  <2> QED
    BY <2>1, <2>2, <2>3 DEF HashMap, Without
<1>3. /\ peer_game_session' \in HashMap(Peer, Session)
      /\ DOMAIN peer_game_session' = DOMAIN peer_game_session \ P
      /\ \A p \in DOMAIN peer_game_session \ P : peer_game_session'[p] = peer_game_session[p]
  <2>1. /\ peer_game_session \in HashMap(Peer, Session)
        /\ peer_game_session' = Without(peer_game_session, P)
    BY DEF RemovePeers, TypeOK
  <2>2. PICK D \in SUBSET Peer : peer_game_session \in [D -> Session]
    BY <2>1 DEF HashMap
  <2>3. peer_game_session' \in [D \ P -> Session] /\ D \ P \in SUBSET Peer
    BY <2>1, <2>2 DEF Without
  <2> QED
    BY <2>1, <2>2, <2>3 DEF HashMap, Without
<1>4. video_subs' \in HashMap(Peer, SUBSET Peer)
  <2>1. video_subs \in HashMap(Peer, SUBSET Peer) /\ video_subs' = Without(video_subs, P)
    BY DEF RemovePeers, TypeOK
  <2> QED
    BY <2>1, WithoutType, Zenon
<1>5. /\ rooms' = [r \in Room |-> rooms[r] \ P]
      /\ game_sessions' = [s \in Session |-> game_sessions[s] \ P]
  BY DEF RemovePeers, LeaveAll, TypeOK
<1>6. TypeOK'
  BY <1>1, <1>2, <1>3, <1>4, <1>5 DEF TypeOK, RemovePeers
<1>7. IndexBijection'
  <2>1. \A p \in DOMAIN peers \ P : peers[p].peer_index \notin freed
    BY DEF IndexBijection
  <2>2. \A i \in DOMAIN index_to_peer \ freed : index_to_peer[i] \notin P
    BY DEF IndexBijection
  <2> QED
    BY <1>1, <1>2, <2>1, <2>2 DEF IndexBijection
<1>8. RoomBackPointer'
  <2>1. \A p \in DOMAIN peers : peers[p].room_id \in Room \cup {None}
    BY EntryFacts
  <2> QED
    BY <1>1, <1>5, <2>1 DEF RoomBackPointer
<1>9. GameSessionInverse'
  BY <1>3, <1>5 DEF GameSessionInverse, TypeOK
<1> QED
  BY <1>6, <1>7, <1>8, <1>9

-----------------------------------------------------------------------------
(* Room and session membership.                                            *)

\* The entries with p's room set to r.
WithRoom(ps, p, r) == [ps EXCEPT ![p].room_id = r]

\* Setting the room of an entry keeps everything else of it.
LEMMA SetRoomOK ==
  ASSUME NEW ps \in HashMap(Peer, RelayPeer), NEW p \in DOMAIN ps,
         NEW r \in Room \cup {None}
  PROVE  LET new == WithRoom(ps, p, r) IN
         /\ new \in HashMap(Peer, RelayPeer)
         /\ DOMAIN new = DOMAIN ps
         /\ new[p].room_id = r
         /\ \A q \in DOMAIN ps : new[q].peer_index = ps[q].peer_index
         /\ \A q \in DOMAIN ps \ {p} : new[q] = ps[q]
<1>1. PICK D \in SUBSET Peer : ps \in [D -> RelayPeer]
  BY DEF HashMap
<1>2. WithRoom(ps, p, r) \in [D -> RelayPeer]
  BY <1>1 DEF RelayPeer, WithRoom
<1> QED
  BY <1>1, <1>2 DEF HashMap, RelayPeer, WithRoom

\* join_room keeps the tables consistent, also when the room is the old one.
LEMMA JoinRoomOK ==
  ASSUME RelayInv, NEW p \in Peer, NEW r \in Room, JoinRoom(p, r)
  PROVE  RelayInv'
<1> USE DEF RelayInv
<1>1. rooms' \in [Room -> SUBSET Peer]
  BY DEF JoinRoom, TypeOK
<1>2. p \in rooms'[r] /\ \A q \in Peer \ {p}, x \in Room : q \in rooms[x] => q \in rooms'[x]
  BY DEF JoinRoom, TypeOK
<1>3. CASE p \in DOMAIN peers
  <2>1. peers' = WithRoom(peers, p, r)
    BY <1>3 DEF JoinRoom, WithRoom
  <2>2. /\ peers' \in HashMap(Peer, RelayPeer)
        /\ DOMAIN peers' = DOMAIN peers
        /\ peers'[p].room_id = r
        /\ \A q \in DOMAIN peers : peers'[q].peer_index = peers[q].peer_index
        /\ \A q \in DOMAIN peers \ {p} : peers'[q] = peers[q]
    <3>1. peers \in HashMap(Peer, RelayPeer) /\ r \in Room \cup {None}
      BY DEF TypeOK
    <3> HIDE DEF RelayInv
    <3> QED
      BY <1>3, <2>1, <3>1, SetRoomOK
  <2>3. TypeOK'
    BY <1>1, <2>2 DEF JoinRoom, TypeOK
  <2>4. IndexBijection'
    BY <2>2 DEF JoinRoom, IndexBijection
  <2>5. RoomBackPointer'
    BY <1>2, <2>2, EntryFacts DEF RoomBackPointer
  <2> QED
    BY <2>3, <2>4, <2>5 DEF JoinRoom, GameSessionInverse
<1>4. CASE p \notin DOMAIN peers
  <2>1. peers' = peers
    BY <1>4 DEF JoinRoom
  <2>2. TypeOK' /\ IndexBijection'
    BY <1>1, <2>1 DEF JoinRoom, TypeOK, IndexBijection
  <2>3. RoomBackPointer'
    BY <1>2, <1>4, <2>1, EntryFacts DEF RoomBackPointer
  <2> QED
    BY <2>2, <2>3 DEF JoinRoom, GameSessionInverse
<1> QED
  BY <1>3, <1>4

\* leave_room keeps the tables consistent.
LEMMA LeaveRoomOK ==
  ASSUME RelayInv, NEW p \in Peer, LeaveRoom(p)
  PROVE  RelayInv'
<1> USE DEF RelayInv
<1>1. /\ p \in DOMAIN peers
      /\ peers[p].room_id \in Room
      /\ peers' = WithRoom(peers, p, None)
  BY EntryFacts DEF LeaveRoom, WithRoom
<1>2. /\ peers' \in HashMap(Peer, RelayPeer)
      /\ DOMAIN peers' = DOMAIN peers
      /\ peers'[p].room_id = None
      /\ \A q \in DOMAIN peers : peers'[q].peer_index = peers[q].peer_index
      /\ \A q \in DOMAIN peers \ {p} : peers'[q] = peers[q]
  <2>1. peers \in HashMap(Peer, RelayPeer) /\ None \in Room \cup {None}
    BY DEF TypeOK
  <2> HIDE DEF RelayInv
  <2> QED
    BY <1>1, <2>1, SetRoomOK
<1>3. /\ rooms' \in [Room -> SUBSET Peer]
      /\ \A q \in Peer \ {p}, x \in Room : q \in rooms[x] => q \in rooms'[x]
  BY <1>1 DEF LeaveRoom, TypeOK
<1>4. TypeOK'
  BY <1>2, <1>3 DEF LeaveRoom, TypeOK
<1>5. IndexBijection'
  BY <1>2 DEF LeaveRoom, IndexBijection
<1>6. RoomBackPointer'
  BY <1>2, <1>3, EntryFacts DEF RoomBackPointer
<1> QED
  BY <1>4, <1>5, <1>6 DEF LeaveRoom, GameSessionInverse

\* join_game_session moves the peer between sessions.
LEMMA JoinGameSessionOK ==
  ASSUME RelayInv, NEW p \in Peer, NEW s \in Session, JoinGameSession(p, s)
  PROVE  RelayInv'
<1> USE DEF RelayInv
<1>1. /\ peer_game_session' \in HashMap(Peer, Session)
      /\ DOMAIN peer_game_session' = DOMAIN peer_game_session \cup {p}
      /\ peer_game_session'[p] = s
      /\ \A q \in DOMAIN peer_game_session \ {p} : peer_game_session'[q] = peer_game_session[q]
  <2>1. /\ peer_game_session \in HashMap(Peer, Session)
        /\ peer_game_session' = Put(peer_game_session, p, s)
    BY DEF JoinGameSession, TypeOK
  <2>2. PICK D \in SUBSET Peer : peer_game_session \in [D -> Session]
    BY <2>1 DEF HashMap
  <2>3. peer_game_session' \in [D \cup {p} -> Session] /\ D \cup {p} \in SUBSET Peer
    BY <2>1, <2>2 DEF Put
  <2> QED
    BY <2>1, <2>2, <2>3 DEF HashMap, Put
<1>2. game_sessions' \in [Session -> SUBSET Peer]
  BY DEF JoinGameSession, TypeOK
<1>3. /\ \A x \in Session : p \in game_sessions'[x] <=> x = s
      /\ \A x \in Session, q \in Peer \ {p} : q \in game_sessions'[x] <=> q \in game_sessions[x]
  BY DEF JoinGameSession, GameSessionInverse, TypeOK
<1>4. GameSessionInverse'
  BY <1>1, <1>3 DEF GameSessionInverse
<1>5. TypeOK'
  BY <1>1, <1>2 DEF JoinGameSession, TypeOK
<1> QED
  BY <1>4, <1>5 DEF JoinGameSession, IndexBijection, RoomBackPointer

\* leave_game_session clears both directions.
LEMMA LeaveGameSessionOK ==
  ASSUME RelayInv, NEW p \in Peer, LeaveGameSession(p)
  PROVE  RelayInv'
<1> USE DEF RelayInv
<1>1. /\ peer_game_session' \in HashMap(Peer, Session)
      /\ DOMAIN peer_game_session' = DOMAIN peer_game_session \ {p}
      /\ \A q \in DOMAIN peer_game_session \ {p} : peer_game_session'[q] = peer_game_session[q]
  <2>1. /\ peer_game_session \in HashMap(Peer, Session)
        /\ peer_game_session' = Without(peer_game_session, {p})
    BY DEF LeaveGameSession, TypeOK
  <2>2. PICK D \in SUBSET Peer : peer_game_session \in [D -> Session]
    BY <2>1 DEF HashMap
  <2>3. peer_game_session' \in [D \ {p} -> Session] /\ D \ {p} \in SUBSET Peer
    BY <2>1, <2>2 DEF Without
  <2> QED
    BY <2>1, <2>2, <2>3 DEF HashMap, Without
<1>2. peer_game_session[p] \in Session
  <2>1. p \in DOMAIN peer_game_session /\ peer_game_session \in HashMap(Peer, Session)
    BY DEF LeaveGameSession, TypeOK
  <2> QED
    BY <2>1, MapValue, Zenon
<1>3. /\ game_sessions' \in [Session -> SUBSET Peer]
      /\ \A x \in Session : p \notin game_sessions'[x]
      /\ \A x \in Session, q \in Peer \ {p} : q \in game_sessions'[x] <=> q \in game_sessions[x]
  BY <1>2 DEF LeaveGameSession, GameSessionInverse, TypeOK
<1>4. GameSessionInverse'
  BY <1>1, <1>3 DEF GameSessionInverse
<1>5. TypeOK'
  BY <1>1, <1>3 DEF LeaveGameSession, TypeOK
<1> QED
  BY <1>4, <1>5 DEF LeaveGameSession, IndexBijection, RoomBackPointer

-----------------------------------------------------------------------------
(* The connection tasks.                                                   *)

\* Steps that only move a task leave the tables alone.
LEMMA TaskOnly ==
  ASSUME RelayInv, UNCHANGED state, conn' \in [Conn -> Task]
  PROVE  RelayInv'
BY DEF RelayInv, TypeOK, IndexBijection, RoomBackPointer, GameSessionInverse, state

\* Moving a task keeps the task table typed.
LEMMA GotoType ==
  ASSUME TypeOK, NEW c \in Conn, NEW pc \in PC
  PROVE  /\ [conn EXCEPT ![c].pc = pc] \in [Conn -> Task]
         /\ [conn EXCEPT ![c].open = FALSE] \in [Conn -> Task]
         /\ [conn EXCEPT ![c].pc = pc, ![c].open = FALSE] \in [Conn -> Task]
         /\ \A r \in Room \cup {None} :
              [conn EXCEPT ![c].pc = pc, ![c].arg = r] \in [Conn -> Task]
BY DEF TypeOK, Task

\* Registration: soft-replace, index allocation and the new entry.
LEMMA RegisterOK ==
  ASSUME RelayInv, NEW c \in Conn, NEW r \in Room \cup {None},
         NEW p \in Peer, conn[c].peer = p, Register(c, r)
  PROVE  RelayInv'
<1> USE DEF RelayInv
<1> DEFINE old  == {peers[q].peer_index : q \in OldEntry(p)}
           idx  == NextFree(UsedIndices(p))
           new  == [peer_index |-> idx, connection |-> c, room_id |-> r]
<1>1. idx \in Index \ UsedIndices(p)
  BY NextFreeIsFree DEF Register, TypeOK
<1>2. PICK D \in SUBSET Peer : peers \in [D -> RelayPeer]
  BY DEF TypeOK, HashMap
<1>3. PICK E \in SUBSET Index : index_to_peer \in [E -> Peer]
  BY DEF TypeOK, HashMap
<1>4. /\ peers' = Put(peers, p, new)
      /\ index_to_peer' = Put(Without(index_to_peer, old), idx, p)
  BY DEF Register
<1>5. /\ peers' \in [D \cup {p} -> RelayPeer]
      /\ peers'[p] = new
      /\ \A q \in D \ {p} : peers'[q] = peers[q]
      /\ D \cup {p} \in SUBSET Peer
  <2>1. new \in RelayPeer
    BY <1>1 DEF RelayPeer
  <2> HIDE DEF new
  <2> QED
    BY <1>2, <1>4, <2>1 DEF Put
<1>6. /\ index_to_peer' \in [(E \ old) \cup {idx} -> Peer]
      /\ index_to_peer'[idx] = p
      /\ \A i \in E \ old : i # idx => index_to_peer'[i] = index_to_peer[i]
      /\ (E \ old) \cup {idx} \in SUBSET Index
  <2> HIDE DEF old, idx
  <2> QED
    BY <1>1, <1>3, <1>4 DEF Put, Without
<1>7. UsedIndices(p) = E \ old
  BY <1>3 DEF UsedIndices
<1>8. \A q \in D \ {p} : peers[q].peer_index \in E \ old
  BY <1>2, <1>3 DEF IndexBijection, OldEntry
<1>9. \A i \in E \ old : index_to_peer[i] \in D \ {p}
  BY <1>2, <1>3 DEF IndexBijection, OldEntry
<1>10. IndexBijection'
  <2>1. DOMAIN peers' = D \cup {p} /\ DOMAIN index_to_peer' = (E \ old) \cup {idx}
    BY <1>5, <1>6
  <2>2. \A q \in DOMAIN peers' : /\ peers'[q].peer_index \in DOMAIN index_to_peer'
                                 /\ index_to_peer'[peers'[q].peer_index] = q
    <3> SUFFICES ASSUME NEW q \in D \cup {p}
                 PROVE  /\ peers'[q].peer_index \in (E \ old) \cup {idx}
                        /\ index_to_peer'[peers'[q].peer_index] = q
      BY <2>1
    <3>1. CASE q = p
      BY <1>5, <1>6, <3>1
    <3>2. CASE q # p
      <4>1. peers'[q] = peers[q] /\ peers[q].peer_index \in E \ old
        BY <1>5, <1>8, <3>2
      <4>2. peers[q].peer_index # idx
        BY <1>1, <1>7, <4>1
      <4>3. index_to_peer[peers[q].peer_index] = q
        BY <1>2, <3>2 DEF IndexBijection
      <4> HIDE DEF old, idx
      <4> QED
        BY <1>6, <4>1, <4>2, <4>3
    <3> QED
      BY <3>1, <3>2
  <2>3. \A i \in DOMAIN index_to_peer' : /\ index_to_peer'[i] \in DOMAIN peers'
                                         /\ peers'[index_to_peer'[i]].peer_index = i
    <3> SUFFICES ASSUME NEW i \in (E \ old) \cup {idx}
                 PROVE  /\ index_to_peer'[i] \in D \cup {p}
                        /\ peers'[index_to_peer'[i]].peer_index = i
      BY <2>1
    <3>1. CASE i = idx
      BY <1>5, <1>6, <3>1
    <3>2. CASE i # idx
      <4>1. index_to_peer'[i] = index_to_peer[i] /\ index_to_peer[i] \in D \ {p}
        BY <1>6, <1>9, <3>2
      <4>2. peers[index_to_peer[i]].peer_index = i
        BY <1>3, <3>2 DEF IndexBijection
      <4> HIDE DEF old, idx
      <4> QED
        BY <1>5, <4>1, <4>2
    <3> QED
      BY <3>1, <3>2
  <2> QED
    BY <2>2, <2>3 DEF IndexBijection
<1>11. /\ rooms' \in [Room -> SUBSET Peer]
       /\ \A q \in Peer, x \in Room : q \in rooms[x] => q \in rooms'[x]
  BY EntryFacts DEF Register, TypeOK
<1>12. r # None => p \in rooms'[r]
  <2>1. r # None => p \in rooms[r]
    BY DEF Register, ExistingRoom, RoomBackPointer
  <2> QED
    BY <1>11, <2>1
<1>13. RoomBackPointer'
  <2> SUFFICES ASSUME NEW q \in D \cup {p}, peers'[q].room_id # None
               PROVE  q \in rooms'[peers'[q].room_id]
    BY <1>5 DEF RoomBackPointer
  <2>1. CASE q = p
    BY <1>5, <1>12, <2>1
  <2>2. CASE q # p
    <3>1. peers'[q] = peers[q] /\ q \in DOMAIN peers
      BY <1>2, <1>5, <2>2
    <3>2. q \in rooms[peers[q].room_id] /\ peers[q].room_id \in Room
      BY <3>1, EntryFacts DEF RoomBackPointer
    <3> QED
      BY <1>11, <3>1, <3>2, <1>2
  <2> QED
    BY <2>1, <2>2
<1>14. TypeOK'
  <2>1. peers' \in HashMap(Peer, RelayPeer)
    BY <1>5 DEF HashMap
  <2>2. index_to_peer' \in HashMap(Index, Peer)
    BY <1>6 DEF HashMap
  <2>3. next_index' \in Index
    BY <1>1, SuccessorInRange DEF Register
  <2>4. conn' \in [Conn -> Task]
    <3>1. \A d \in Conn : /\ [conn[d] EXCEPT !.pc = "welcome"] \in Task
                         /\ [conn[d] EXCEPT !.open = FALSE] \in Task
                         /\ conn[d] \in Task
      BY DEF TypeOK, Task, PC
    <3>2. conn' = [d \in Conn |->
                     IF d = c THEN [conn[c] EXCEPT !.pc = "welcome"]
                     ELSE IF \E q \in OldEntry(p) : d = peers[q].connection
                          THEN [conn[d] EXCEPT !.open = FALSE]
                          ELSE conn[d]]
      BY DEF Register
    <3> QED
      BY <3>1, <3>2
  <2> QED
    BY <1>11, <2>1, <2>2, <2>3, <2>4 DEF Register, TypeOK
<1> QED
  BY <1>10, <1>13, <1>14 DEF Register, GameSessionInverse

\* Healing a room: the write half of a room-audio datagram.
LEMMA HealWriteOK ==
  ASSUME RelayInv, NEW c \in Conn, NEW p \in Peer, NEW r \in Room,
         conn[c].peer = p, conn[c].arg = r, HealWrite(c)
  PROVE  RelayInv'
<1> USE DEF RelayInv
<1>1. conn' \in [Conn -> Task]
  BY DEF HealWrite, TypeOK, Task, PC
<1>2. /\ rooms' \in [Room -> SUBSET Peer]
      /\ p \in rooms'[r]
      /\ \A q \in Peer, x \in Room : q \in rooms[x] => q \in rooms'[x]
  BY DEF HealWrite, TypeOK
<1>3. CASE p \in DOMAIN peers
  <2>1. /\ peers' \in HashMap(Peer, RelayPeer)
        /\ DOMAIN peers' = DOMAIN peers
        /\ peers'[p].room_id = r
        /\ \A q \in DOMAIN peers : peers'[q].peer_index = peers[q].peer_index
        /\ \A q \in DOMAIN peers \ {p} : peers'[q] = peers[q]
    <3>1. /\ peers \in HashMap(Peer, RelayPeer) /\ r \in Room \cup {None}
          /\ peers' = WithRoom(peers, p, r)
      BY <1>3 DEF HealWrite, TypeOK, WithRoom
    <3> HIDE DEF RelayInv
    <3> QED
      BY <1>3, <3>1, SetRoomOK
  <2>2. TypeOK'
    BY <1>1, <1>2, <2>1 DEF HealWrite, TypeOK
  <2>3. IndexBijection'
    BY <2>1 DEF HealWrite, IndexBijection
  <2>4. RoomBackPointer'
    BY <1>2, <2>1, EntryFacts DEF RoomBackPointer
  <2> QED
    BY <2>2, <2>3, <2>4 DEF HealWrite, GameSessionInverse
<1>4. CASE p \notin DOMAIN peers
  <2>1. peers' = peers
    BY <1>4 DEF HealWrite
  <2>2. TypeOK' /\ IndexBijection'
    BY <1>1, <1>2, <2>1 DEF HealWrite, TypeOK, IndexBijection
  <2>3. RoomBackPointer'
    BY <1>2, <2>1, EntryFacts DEF RoomBackPointer
  <2> QED
    BY <2>2, <2>3 DEF HealWrite, GameSessionInverse
<1> QED
  BY <1>3, <1>4

\* Tasks keep their peer, and enter a heal only with a room.
LEMMA TasksStep ==
  ASSUME TypeOK, TasksOK, [Next]_vars
  PROVE  TasksOK'
<1>1. CASE UNCHANGED conn
  BY <1>1 DEF TasksOK
<1>2. CASE \E c \in Conn, p \in Peer : Accept(c, p)
  BY <1>2 DEF Accept, TasksOK, TypeOK, Task
<1>3. CASE \E c \in Conn : Authorize(c) \/ RegisterRefused(c)
  BY <1>3 DEF Authorize, RegisterRefused, Goto, TasksOK, TypeOK, Task
<1>4. CASE \E c \in Conn, r \in Room \cup {None} : Register(c, r)
  <2>1. PICK c \in Conn, r \in Room \cup {None} : Register(c, r)
    BY <1>4
  <2>2. conn[c].pc = "register"
    BY <2>1 DEF Register
  <2>3. \A d \in Conn : /\ conn'[d].peer = conn[d].peer
                        /\ conn'[d].arg = conn[d].arg
                        /\ conn'[d].pc = IF d = c THEN "welcome" ELSE conn[d].pc
    BY <2>1 DEF Register, TypeOK, Task
  <2> QED
    BY <2>2, <2>3 DEF TasksOK
<1>5. CASE \E c \in Conn : Welcome(c) \/ Close(c) \/ ExitCheck(c) \/ ExitRemove(c) \/ HealWrite(c)
  BY <1>5 DEF Welcome, Close, ExitCheck, ExitRemove, HealWrite, Goto, TasksOK, TypeOK, Task
<1>6. CASE \E c \in Conn, r \in Room : HealRead(c, r)
  BY <1>6 DEF HealRead, TasksOK, TypeOK, Task
<1>7. ApiNext \/ CleanupStalePeers \/ UNCHANGED vars => UNCHANGED conn
  BY DEF ApiNext, AllowPeerUpdate, AllowPeer, AllowPortalPeer, LeaveRoom, LeaveGameSession,
         JoinRoom, JoinGameSession, SetVideoSubscriptions, CleanupStalePeers, vars
<1> QED
  BY <1>1, <1>2, <1>3, <1>4, <1>5, <1>6, <1>7 DEF Next, ConnNext, Step

\* Every step of the relay keeps the tables consistent.
LEMMA RelayStep ==
  ASSUME RelayInv, TasksOK, [Next]_vars
  PROVE  RelayInv'
<1>0. TypeOK
  BY DEF RelayInv
<1>1. ASSUME ApiNext
      PROVE  RelayInv'
  <2>1. PICK p \in Peer :
          \/ AllowPeerUpdate(p) \/ AllowPeer(p) \/ AllowPortalPeer(p)
          \/ LeaveRoom(p)
          \/ LeaveGameSession(p)
          \/ \E r \in Room : JoinRoom(p, r)
          \/ \E s \in Session : JoinGameSession(p, s)
          \/ \E senders \in SUBSET (Peer \ {p}) : SetVideoSubscriptions(p, senders)
    BY <1>1 DEF ApiNext
  <2>2. CASE AllowPeerUpdate(p) \/ AllowPeer(p) \/ AllowPortalPeer(p)
    BY <2>2 DEF AllowPeerUpdate, AllowPeer, AllowPortalPeer, RelayInv, TypeOK,
                IndexBijection, RoomBackPointer, GameSessionInverse
  <2>3. CASE \E senders \in SUBSET (Peer \ {p}) : SetVideoSubscriptions(p, senders)
    <3>1. PICK senders \in SUBSET (Peer \ {p}) : SetVideoSubscriptions(p, senders)
      BY <2>3
    <3>2. PICK D \in SUBSET Peer : video_subs \in [D -> SUBSET Peer]
      BY <1>0 DEF TypeOK, HashMap
    <3>3. video_subs' \in [D \cup {p} -> SUBSET Peer] /\ D \cup {p} \in SUBSET Peer
      BY <3>1, <3>2 DEF SetVideoSubscriptions, Put
    <3>4. video_subs' \in HashMap(Peer, SUBSET Peer)
      BY <3>3 DEF HashMap
    <3> QED
      BY <3>1, <3>4 DEF SetVideoSubscriptions, RelayInv, TypeOK, IndexBijection,
                        RoomBackPointer, GameSessionInverse
  <2> QED
    BY <2>1, <2>2, <2>3, LeaveRoomOK, LeaveGameSessionOK, JoinRoomOK, JoinGameSessionOK
<1>2. ASSUME NEW c \in Conn,
             \/ Step(c) \/ Close(c)
             \/ \E p \in Peer : Accept(c, p)
             \/ \E r \in Room : HealRead(c, r)
      PROVE  RelayInv'
  <2>1. CASE Authorize(c) \/ RegisterRefused(c) \/ Welcome(c)
             \/ Close(c) \/ ExitCheck(c)
    <3>1. UNCHANGED state
      BY <2>1 DEF Authorize, RegisterRefused, Welcome, Close, ExitCheck
    <3>2. conn' \in [Conn -> Task]
      <4>1. \/ \E pc \in PC : conn' = [conn EXCEPT ![c].pc = pc]
            \/ conn' = [conn EXCEPT ![c].open = FALSE]
            \/ conn' = [conn EXCEPT ![c].pc = "done", ![c].open = FALSE]
        BY <2>1 DEF Authorize, RegisterRefused, Welcome, Close, ExitCheck,
                    Goto, PC
      <4>2. "done" \in PC
        BY DEF PC
      <4>3. CASE \E pc \in PC : conn' = [conn EXCEPT ![c].pc = pc]
        <5>1. PICK pc \in PC : conn' = [conn EXCEPT ![c].pc = pc]
          BY <4>3
        <5>2. [conn EXCEPT ![c].pc = pc] \in [Conn -> Task]
          BY <1>0 DEF TypeOK, Task
        <5> QED
          BY <5>1, <5>2
      <4>4. CASE conn' = [conn EXCEPT ![c].open = FALSE]
        BY <1>0, <4>2, <4>4, GotoType
      <4>5. CASE conn' = [conn EXCEPT ![c].pc = "done", ![c].open = FALSE]
        BY <1>0, <4>2, <4>5, GotoType
      <4> QED
        BY <4>1, <4>3, <4>4, <4>5
    <3> QED
      BY <3>1, <3>2, TaskOnly
  <2>2. CASE \E p \in Peer : Accept(c, p)
    <3>1. conn' \in [Conn -> Task]
      BY <1>0, <2>2 DEF Accept, TypeOK, Task, PC
    <3> QED
      BY <2>2, <3>1, TaskOnly DEF Accept
  <2>3. CASE \E r \in Room : HealRead(c, r)
    <3>1. conn' \in [Conn -> Task]
      <4>1. PICK r \in Room : conn' = [conn EXCEPT ![c].pc = "heal", ![c].arg = r]
        BY <2>3 DEF HealRead
      <4>2. "heal" \in PC /\ r \in Room \cup {None}
        BY DEF PC
      <4> QED
        BY <1>0, <4>1, <4>2, GotoType
    <3> QED
      BY <2>3, <3>1, TaskOnly DEF HealRead
  <2>4. CASE \E r \in Room \cup {None} : Register(c, r)
    <3>1. PICK r \in Room \cup {None} : Register(c, r)
      BY <2>4
    <3>2. conn[c].peer \in Peer
      BY <3>1 DEF Register, TasksOK
    <3> QED
      BY <3>1, <3>2, RegisterOK
  <2>5. CASE HealWrite(c)
    <3>1. conn[c].peer \in Peer /\ conn[c].arg \in Room
      BY <2>5 DEF HealWrite, TasksOK
    <3> QED
      BY <2>5, <3>1, HealWriteOK
  <2>6. CASE ExitRemove(c)
    <3>1. {conn[c].peer} \in SUBSET Peer
      BY <2>6 DEF ExitRemove, TasksOK
    <3>2. conn' \in [Conn -> Task]
      BY <1>0, <2>6, GotoType DEF ExitRemove, Goto, PC
    <3> QED
      BY <2>6, <3>1, <3>2, RemovePeersOK DEF ExitRemove
  <2> QED
    BY <1>2, <2>1, <2>2, <2>3, <2>4, <2>5, <2>6 DEF Step
<1>3. ASSUME CleanupStalePeers
      PROVE  RelayInv'
  <2>1. Stale \in SUBSET Peer
    BY <1>0, EntryFacts DEF Stale
  <2>2. conn' \in [Conn -> Task]
    BY <1>0, <1>3 DEF CleanupStalePeers, TypeOK
  <2> QED
    BY <1>3, <2>1, <2>2, RemovePeersOK DEF CleanupStalePeers
<1>4. ASSUME UNCHANGED vars
      PROVE  RelayInv'
  BY <1>0, <1>4, TaskOnly DEF vars, TypeOK
<1> QED
  BY <1>1, <1>2, <1>3, <1>4 DEF Next, ConnNext

\* The initial tables are consistent.
LEMMA RelayInit == Init => RelayInv /\ TasksOK
<1> SUFFICES ASSUME Init
             PROVE  RelayInv /\ TasksOK
  OBVIOUS
<1>1. DOMAIN EmptyMap = {}
  BY DEF EmptyMap
<1>2. \A K, V : EmptyMap \in HashMap(K, V)
  BY EmptyMapType
<1>3. /\ peers \in HashMap(Peer, RelayPeer)
      /\ index_to_peer \in HashMap(Index, Peer)
      /\ peer_game_session \in HashMap(Peer, Session)
      /\ video_subs \in HashMap(Peer, SUBSET Peer)
  BY <1>2 DEF Init
<1>4. 1 \in Index
  BY IndexAssumption DEF Index
<1>5. TypeOK
  BY <1>3, <1>4 DEF Init, TypeOK, Task, PC
<1> QED
  BY <1>1, <1>5 DEF Init, RelayInv, TasksOK, IndexBijection, RoomBackPointer,
                    GameSessionInverse

-----------------------------------------------------------------------------
(* Theorems.                                                               *)

\* The relay's tables are consistent in every reachable state.
THEOREM RelayInvariant == Spec => [](RelayInv /\ TasksOK)
<1>1. Init => RelayInv /\ TasksOK
  BY RelayInit
<1>2. (RelayInv /\ TasksOK) /\ [Next]_vars => (RelayInv /\ TasksOK)'
  BY RelayStep, TasksStep DEF RelayInv
<1> QED
  BY <1>1, <1>2, PTL DEF Spec

\* Every table of RelayState keeps its type; in particular next_index never
\* leaves 1 .. MaxIndex.
THEOREM RelayTypeCorrect == Spec => []TypeOK
<1>1. RelayInv /\ TasksOK => TypeOK
  BY DEF RelayInv
<1> QED
  BY <1>1, RelayInvariant, PTL

\* peers and index_to_peer are inverse to each other in every reachable state.
THEOREM RelayIndexBijection == Spec => []IndexBijection
<1>1. RelayInv /\ TasksOK => IndexBijection
  BY DEF RelayInv
<1> QED
  BY <1>1, RelayInvariant, PTL

\* A peer is in exactly the game session recorded for it.
THEOREM RelayGameSessionInverse == Spec => []GameSessionInverse
<1>1. RelayInv /\ TasksOK => GameSessionInverse
  BY DEF RelayInv
<1> QED
  BY <1>1, RelayInvariant, PTL

\* Registered peers of one room reach each other, by subscribed video, by untagged game data
\* and by index.
THEOREM RelayRoommatesReachable == Spec => []RoommatesReachable
<1>1. RelayInv /\ TasksOK => RoommatesReachable
  <2> SUFFICES ASSUME RelayInv,
                      NEW p \in DOMAIN peers, NEW q \in DOMAIN peers,
                      p # q, peers[p].room_id # None, peers[q].room_id = peers[p].room_id
               PROVE  /\ p \notin DOMAIN peer_game_session => q \in BroadcastTargets(p, "game.relay.v1")
                      /\ wants_video(q, p) => q \in BroadcastTargets(p, "room.video.sfu")
                      /\ q \in PointToPointTargets(p, peers[q].peer_index)
    BY DEF RoommatesReachable
  <2>1. q \in RoomTargets(p, FALSE) /\ (wants_video(q, p) => q \in RoomTargets(p, TRUE))
    BY DEF RoomTargets, RelayInv, RoomBackPointer
  <2>2. q \in PointToPointTargets(p, peers[q].peer_index)
    BY DEF PointToPointTargets, RelayInv, IndexBijection
  <2> QED
    BY <2>1, <2>2 DEF BroadcastTargets
<1> QED
  BY <1>1, RelayInvariant, PTL

\* A step that drops an entry drops all traces of its peer.
THEOREM RelayDepartedLeaveNoTrace == Spec => DepartedLeaveNoTrace
<1> DEFINE Gone(p) ==
      /\ \A i \in DOMAIN index_to_peer' : index_to_peer'[i] # p
      /\ \A r \in Room : p \notin rooms'[r]
      /\ \A s \in Session : p \notin game_sessions'[s]
      /\ p \notin DOMAIN peer_game_session' \cup DOMAIN video_subs'
<1>1. ASSUME RelayInv, TasksOK, [Next]_vars, NEW p \in DOMAIN peers \ DOMAIN peers'
      PROVE  Gone(p)
  <2>1. RelayInv'
    BY <1>1, RelayStep
  <2>2. PICK P \in SUBSET Peer : RemovePeers(P)
    <3>1. CASE CleanupStalePeers
      BY <1>1, <3>1, EntryFacts DEF CleanupStalePeers, Stale, RelayInv
    <3>2. CASE \E c \in Conn : ExitRemove(c)
      BY <1>1, <3>2 DEF ExitRemove, TasksOK
    <3>3. CASE \E c \in Conn, r \in Room \cup {None} : Register(c, r)
      BY <1>1, <3>3 DEF Register, Put
    <3>4. CASE ApiNext \/ UNCHANGED vars
      BY <1>1, <3>4 DEF ApiNext, AllowPeerUpdate, AllowPeer, AllowPortalPeer, LeaveRoom,
           LeaveGameSession, JoinRoom, JoinGameSession, SetVideoSubscriptions, vars, state
    <3>5. CASE \E c \in Conn : HealWrite(c)
      BY <1>1, <3>5 DEF HealWrite
    <3>6. CASE UNCHANGED state
      BY <1>1, <3>6 DEF state
    <3> QED
      BY <1>1, <3>1, <3>2, <3>3, <3>4, <3>5, <3>6
         DEF Next, ConnNext, Step, Authorize, RegisterRefused, Welcome,
             Close, Accept, HealRead, ExitCheck
  <2>3. p \in P
    BY <1>1, <2>2 DEF RemovePeers, Without
  <2>4. \A i \in DOMAIN index_to_peer' : index_to_peer'[i] # p
    BY <1>1, <2>1 DEF RelayInv, IndexBijection
  <2>5. /\ \A r \in Room : p \notin rooms'[r]
        /\ \A s \in Session : p \notin game_sessions'[s]
    BY <1>1, <2>2, <2>3 DEF RemovePeers, LeaveAll, RelayInv, TypeOK
  <2>6. p \notin DOMAIN peer_game_session' \cup DOMAIN video_subs'
    BY <2>2, <2>3 DEF RemovePeers, Without
  <2> QED
    BY <2>4, <2>5, <2>6
<1>2. RelayInv /\ TasksOK /\ [Next]_vars =>
        [\A p \in DOMAIN peers \ DOMAIN peers' : Gone(p)]_vars
  BY <1>1
<1> QED
  BY <1>2, RelayInvariant, PTL DEF Spec, DepartedLeaveNoTrace

\* Soft-replace keeps the room: whatever tasks and calls interleave with it,
\* the step that gives a peer another connection leaves it in its room.
THEOREM RelayRoomSurvivesReconnect == Spec => RoomSurvivesReconnect
<1> DEFINE Moved(p) == peers[p].connection # peers'[p].connection /\ peers[p].room_id # None
           Stays(p) == /\ peers'[p].room_id = peers[p].room_id
                       /\ p \in rooms'[peers[p].room_id]
<1>1. ASSUME RelayInv, TasksOK, [Next]_vars,
             NEW p \in DOMAIN peers \cap DOMAIN peers', Moved(p)
      PROVE  Stays(p)
  <2>1. RelayInv'
    BY <1>1, RelayStep
  <2>2. PICK D \in SUBSET Peer : peers \in [D -> RelayPeer]
    BY <1>1 DEF RelayInv, TypeOK, HashMap
  <2>3. PICK c \in Conn, r \in Room \cup {None} : Register(c, r)
    <3>1. CASE \E c \in Conn, r \in Room \cup {None} : Register(c, r)
      BY <3>1
    <3>2. CASE CleanupStalePeers \/ \E c \in Conn : ExitRemove(c)
      BY <1>1, <3>2 DEF CleanupStalePeers, ExitRemove, RemovePeers, Without
    <3>3. CASE ApiNext \/ UNCHANGED vars \/ \E c \in Conn : HealWrite(c)
      <4>1. \/ peers' = peers
            \/ \E q \in DOMAIN peers : \E x : peers' = [peers EXCEPT ![q].room_id = x]
        BY <3>3 DEF ApiNext, AllowPeerUpdate, AllowPeer, AllowPortalPeer, LeaveRoom,
             LeaveGameSession, JoinRoom, JoinGameSession, SetVideoSubscriptions,
             HealWrite, vars, state
      <4>2. peers[p] \in RelayPeer
        BY <2>2
      <4>3. peers'[p].connection = peers[p].connection
        BY <2>2, <4>1, <4>2 DEF RelayPeer
      <4> QED
        BY <1>1, <4>3
    <3>4. CASE UNCHANGED state
      BY <1>1, <3>4 DEF state
    <3> QED
      BY <1>1, <3>1, <3>2, <3>3, <3>4
         DEF Next, ConnNext, Step, Authorize, RegisterRefused, Welcome,
             Close, Accept, HealRead, ExitCheck
  <2>4. conn[c].peer = p
    BY <1>1, <2>3 DEF Register, Put
  <2>5. peers'[p].room_id = r /\ r = peers[p].room_id
    BY <1>1, <2>3, <2>4 DEF Register, Put, ExistingRoom
  <2>6. p \in rooms'[peers'[p].room_id]
    BY <1>1, <2>1, <2>5 DEF RelayInv, RoomBackPointer
  <2> QED
    BY <2>5, <2>6
<1>2. RelayInv /\ TasksOK /\ [Next]_vars =>
        [\A p \in DOMAIN peers \cap DOMAIN peers' : Moved(p) => Stays(p)]_vars
  BY <1>1
<1> QED
  BY <1>2, RelayInvariant, PTL DEF Spec, RoomSurvivesReconnect
=============================================================================
