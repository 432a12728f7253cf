---------------------------- MODULE ClusterLink ----------------------------
(* A cluster of supernodes (cluster_link.rs, and the callbacks of main.rs):  *)
(* the links between its members, from dial or accept to teardown, and what  *)
(* the members tell each other over them: the rooms they have subscribers    *)
(* for, the rooms they host, the signed space roots and the trusted clients. *)
(* Members crash, connections are lost without a word to either side, and    *)
(* idle rooms are collected by each member on its own.                       *)
EXTENDS Naturals, Sequences, FiniteSets

CONSTANTS
  Node,               \* the members; of two, the smaller id dials
  Conn,               \* slots for the QUIC connections that exist at a time
  Room,               \* durable rooms (they have a creator)
  IDLE_ROOM_GC_SECS,  \* in steps of the model's clock
  Roots,              \* roots of one space that verify: epoch, signer and hash
  NoConn, Free, Absent, InUse,
  MaxEpoch,           \* bound: epochs of the space's roots
  MaxFaults,          \* bound: crashes and lost connections
  MaxEvents           \* bound: what clients do

ASSUME ClusterAssumption ==
  /\ Node \subseteq Nat /\ Conn \subseteq Nat /\ NoConn \notin Conn
  /\ IDLE_ROOM_GC_SECS \in Nat \ {0}
  /\ MaxEpoch \in Nat /\ MaxFaults \in Nat /\ MaxEvents \in Nat

\* The signature covers the space's id but does not tie it to the signer, and a
\* signer may sign two roots of one epoch.
ASSUME RootAssumption ==
  \A r \in Roots : r.epoch \in 1..MaxEpoch

VARIABLES
  up,           \* the members that run
  conn,         \* conn[c]: a connection, see NewConn, or Free
  peers,        \* peers[n][m]: the connection n's frames for m go to, or NoConn
  remote_subs,  \* remote_subs[n][m]: rooms m has subscribers for, as n knows
  room,         \* room[n][r]: Absent, InUse, or the time the room has been idle
  root,         \* root[n]: the space root n holds, or NoRoot
  equivocations,\* equivocations[n]: n has counted one (the count itself is cut at 1)
  trust,        \* trust[n]: what n's peer store, on disk, grants the client
  faults, events

meta == <<up, faults, events>>
data == <<room, root, equivocations, trust>>
clusterVars == <<meta, data, conn, peers, remote_subs>>

\* The client is unknown, a guest of a room, or invited directly.
Trust == 0..2

NoRoot == [epoch |-> 0]

\* The frames of a link, and a connection that d dialed to a.
ClusterMsg ==
  [kind : {"Subscriptions", "RoomRoster"}, rooms : SUBSET Room]
    \cup [kind : {"SpaceRoot"}, root : Roots]
    \cup [kind : {"PeerAuth"}, level : Trust \ {0}]
Connection(d, a) ==
  [side : {<<d, a>>}, end : [{d, a} -> {"run", "wait", "gone"}],
   to : [{d, a} -> Seq(ClusterMsg)], lost : BOOLEAN]

ASSUME FreeAssumption == \A d, a \in Node : Free \notin Connection(d, a)

ClusterTypeOK ==
  /\ up \subseteq Node
  /\ \A c \in Conn : conn[c] = Free \/ \E d, a \in Node : conn[c] \in Connection(d, a)
  /\ \A n \in Node :
       /\ peers[n] \in [Node \ {n} -> Conn \cup {NoConn}]
       /\ remote_subs[n] \in [Node \ {n} -> SUBSET Room]
  /\ room \in [Node -> [Room -> {Absent, InUse} \cup 0..IDLE_ROOM_GC_SECS]]
  /\ root \in [Node -> Roots \cup {NoRoot}]
  /\ equivocations \in [Node -> BOOLEAN]
  /\ trust \in [Node -> Trust]
  /\ faults \in 0..MaxFaults /\ events \in 0..MaxEvents

\* An end of a connection is "run" while its run_link has not returned; the
\* acceptor's is "wait" before handle_incoming takes the connection.  A lost
\* connection carries nothing any more.
NewConn(d, a, greeting) ==
  [side |-> <<d, a>>, end |-> [n \in {d, a} |-> IF n = d THEN "run" ELSE "wait"],
   to |-> [n \in {d, a} |-> IF n = a THEN greeting ELSE <<>>], lost |-> FALSE]

Ends(c) == IF conn[c] = Free THEN {} ELSE {conn[c].side[1], conn[c].side[2]}
Other(c, n) == CHOOSE m \in Ends(c) : m # n
Running(c, n) == n \in Ends(c) /\ conn[c].end[n] = "run"

\* The rooms with a participant or a subscriber, and those to advertise.
local_rooms(n) == {r \in Room : room[n][r] = InUse}
local_room_roster(n) == {r \in Room : room[n][r] # Absent}

Subscriptions(n) == <<[kind |-> "Subscriptions", rooms |-> local_rooms(n)]>>
RoomRoster(n) ==
  IF local_room_roster(n) = {} THEN <<>>
  ELSE <<[kind |-> "RoomRoster", rooms |-> local_room_roster(n)]>>
SpaceRoots(n) ==
  IF root[n] = NoRoot THEN <<>> ELSE <<[kind |-> "SpaceRoot", root |-> root[n]]>>
PeerAuthRoster(n) ==
  IF trust[n] = 0 THEN <<>> ELSE <<[kind |-> "PeerAuth", level |-> trust[n]]>>

\* What run_link writes before anything else.
Greeting(n) == Subscriptions(n) \o RoomRoster(n) \o SpaceRoots(n) \o PeerAuthRoster(n)

\* send_to_all_peers: the frames join the queue of every registered link.
Enqueue(cs, n, frames) ==
  [c \in Conn |->
     IF cs[c] # Free /\ ~cs[c].lost /\ \E m \in Node \ {n} : peers[n][m] = c
     THEN [cs[c] EXCEPT !.to = [m \in DOMAIN @ |-> IF m = n THEN @[m] ELSE @[m] \o frames]]
     ELSE cs[c]]

-----------------------------------------------------------------------------

ClusterInit ==
  /\ up = Node
  /\ conn = [c \in Conn |-> Free]
  /\ peers = [n \in Node |-> [m \in Node \ {n} |-> NoConn]]
  /\ remote_subs = [n \in Node |-> [m \in Node \ {n} |-> {}]]
  /\ room \in [Node -> [Room -> {Absent, InUse}]]
  /\ root = [n \in Node |-> NoRoot]
  /\ equivocations = [n \in Node |-> FALSE]
  /\ trust = [n \in Node |-> 0]
  /\ faults = 0 /\ events = 0

-----------------------------------------------------------------------------
(* The life of a link.                                                       *)

\* Timing: a dial is at least DIAL_BACKOFF_START after the end of the last link,
\* which covers the delivery of its close.  The acceptor still runs an old
\* connection only if that was lost, close included.
ClosesDelivered(d, a) ==
  \A x \in Conn : {d, a} \subseteq Ends(x) /\ conn[x].end[d] = "gone" => conn[x].lost

\* dial_loop, dial_once: one connection at a time, and again after it ended.
Dial(d, a, c) ==
  /\ d < a
  /\ d \in up /\ a \in up
  /\ conn[c] = Free /\ \A x \in Conn : conn[x] = Free => c <= x
  /\ \A x \in Conn : ~(Running(x, d) /\ a \in Ends(x))
  /\ ClosesDelivered(d, a)
  /\ conn' = [conn EXCEPT ![c] = NewConn(d, a, Greeting(d))]
  /\ peers' = [peers EXCEPT ![d][a] = c]
  /\ UNCHANGED <<meta, data, remote_subs>>

\* handle_incoming, and the start of run_link: the link replaces the one of an
\* earlier connection of the same member, which is not closed.
HandleIncoming(c, a) ==
  /\ a \in Ends(c) /\ conn[c].end[a] = "wait"
  /\ ~conn[c].lost
  /\ LET d == Other(c, a) IN
     /\ conn' = [conn EXCEPT ![c].end[a] = "run", ![c].to[d] = Greeting(a)]
     /\ peers' = [peers EXCEPT ![a][d] = c]
  /\ UNCHANGED <<meta, data, remote_subs>>

\* The connection is freed when both ends are through with it.
EndGone(cs, c, n) ==
  LET cc == [cs[c] EXCEPT !.end[n] = "gone", !.to[n] = <<>>]
  IN [cs EXCEPT ![c] = IF \A m \in DOMAIN cc.end : cc.end[m] = "gone" THEN Free ELSE cc]

\* Mutant: a sender that is replaced or removed does not finish its stream.
LinkEndsOnCloseOnly(c, n) ==
  \/ conn[c].lost
  \/ conn[c].end[Other(c, n)] = "gone"

\* run_link ends at n: the connection is lost or closed by the other end, or
\* the other end has dropped the sender of this link (it was replaced or
\* removed), which finishes the stream.  Teardown goes by the member's id.
LinkEnds(c, n) ==
  LET m == Other(c, n) IN
  \/ conn[c].lost
  \/ conn[c].end[m] = "gone"
  \/ conn[c].end[m] = "run" /\ peers[m][n] # c /\ conn[c].to[n] = <<>>

Teardown(c, n) ==
  /\ Running(c, n)
  /\ LinkEnds(c, n)
  /\ conn' = EndGone(conn, c, n)
  /\ peers' = [peers EXCEPT ![n][Other(c, n)] = NoConn]
  /\ remote_subs' = [remote_subs EXCEPT ![n][Other(c, n)] = {}]
  /\ UNCHANGED <<meta, data>>

\* An incoming connection that dies before it is accepted.
Abandon(c, n) ==
  /\ n \in Ends(c) /\ conn[c].end[n] = "wait"
  /\ conn[c].lost \/ conn[c].end[Other(c, n)] = "gone"
  /\ conn' = EndGone(conn, c, n)
  /\ UNCHANGED <<meta, data, peers, remote_subs>>

-----------------------------------------------------------------------------
(* read_loop and handle_msg: the oldest frame of a connection.               *)

Frame(c, n, kind) ==
  /\ Running(c, n)
  /\ ~conn[c].lost
  /\ conn[c].to[n] # <<>> /\ Head(conn[c].to[n]).kind = kind
  /\ conn' = [conn EXCEPT ![c].to[n] = Tail(@)]

OnSubscriptions(c, n) ==
  /\ Frame(c, n, "Subscriptions")
  /\ remote_subs' = [remote_subs EXCEPT ![n][Other(c, n)] = Head(conn[c].to[n]).rooms]
  /\ UNCHANGED <<meta, data, peers>>

\* apply_room_roster: a room that is absent is materialised, empty.
OnRoomRoster(c, n) ==
  /\ Frame(c, n, "RoomRoster")
  /\ room' = [room EXCEPT ![n] =
       [r \in Room |-> IF @[r] = Absent /\ r \in Head(conn[c].to[n]).rooms THEN 0 ELSE @[r]]]
  /\ UNCHANGED <<meta, root, equivocations, trust, peers, remote_subs>>

\* Mutant: the last root of the signer wins.
accept_rootLast(held, r) == IF held = NoRoot \/ r.signer = held.signer THEN r ELSE held

\* SpaceRootStore::accept: the first root pins the signer, and after it only a
\* strictly newer one is stored.
accept_root(held, r) ==
  IF held = NoRoot \/ (r.signer = held.signer /\ r.epoch > held.epoch) THEN r ELSE held

\* Mutant: the epoch is compared first, and drops an equal one without a word.
EquivocatesLate(held, r) ==
  /\ held # NoRoot /\ r.signer = held.signer /\ r.epoch > held.epoch
  /\ r.epoch = held.epoch /\ r.hash # held.hash

\* Two roots of one signer and epoch that differ: the first is kept, the conflict
\* is counted.
Equivocates(held, r) ==
  /\ held # NoRoot /\ r.signer = held.signer
  /\ r.epoch = held.epoch /\ r.hash # held.hash

StoreRoot(n, r) ==
  /\ root' = [root EXCEPT ![n] = accept_root(@, r)]
  /\ equivocations' = [equivocations EXCEPT ![n] = @ \/ Equivocates(root[n], r)]

\* Gossip is full mesh, and not forwarded.
OnSpaceRoot(c, n) ==
  /\ Frame(c, n, "SpaceRoot")
  /\ StoreRoot(n, Head(conn[c].to[n]).root)
  /\ UNCHANGED <<meta, room, trust, peers, remote_subs>>

\* apply_peer_auth: added, or raised from a guest to an invited client.
apply_peer_auth(held, level) == IF held = 0 \/ level = 2 THEN level ELSE held

OnPeerAuth(c, n) ==
  /\ Frame(c, n, "PeerAuth")
  /\ trust' = [trust EXCEPT ![n] = apply_peer_auth(@, Head(conn[c].to[n]).level)]
  /\ UNCHANGED <<meta, room, root, equivocations, peers, remote_subs>>

-----------------------------------------------------------------------------
(* Timers.  The send queues have no bound in the code; here a member          *)
(* refreshes once its frames of the last time have been read.                *)

\* The periodic task of start, every SUBSCRIPTION_REFRESH.
Refresh(n) ==
  /\ n \in up
  /\ \A c \in Conn : \A m \in Ends(c) : m # n /\ peers[n][m] = c => conn[c].to[m] = <<>>
  /\ conn' = Enqueue(conn, n, Subscriptions(n) \o RoomRoster(n) \o PeerAuthRoster(n) \o SpaceRoots(n))
  /\ UNCHANGED <<meta, data, peers, remote_subs>>

IdleTick ==
  /\ room' = [n \in Node |-> [r \in Room |->
       IF room[n][r] \in 0..(IDLE_ROOM_GC_SECS - 1) THEN room[n][r] + 1 ELSE room[n][r]]]
  /\ UNCHANGED <<meta, root, equivocations, trust, conn, peers, remote_subs>>

Collectable(n) == {r \in Room : room[n][r] = IDLE_ROOM_GC_SECS}

\* gc_idle_rooms, every minute.
Gc(n) ==
  /\ n \in up
  /\ Collectable(n) # {}
  /\ room' = [room EXCEPT ![n] = [r \in Room |-> IF r \in Collectable(n) THEN Absent ELSE @[r]]]
  /\ UNCHANGED <<meta, root, equivocations, trust, conn, peers, remote_subs>>

-----------------------------------------------------------------------------
(* What clients do.                                                          *)

Event == events < MaxEvents /\ events' = events + 1 /\ UNCHANGED <<up, faults>>

\* The first client enters a room (its owner creates it where it is absent), the
\* last one leaves it.
Enter(n, r) ==
  /\ Event /\ n \in up
  /\ room[n][r] # InUse
  /\ room' = [room EXCEPT ![n][r] = InUse]
  /\ UNCHANGED <<root, equivocations, trust, conn, peers, remote_subs>>

Leave(n, r) ==
  /\ Event /\ n \in up
  /\ room[n][r] = InUse
  /\ room' = [room EXCEPT ![n][r] = 0]
  /\ UNCHANGED <<root, equivocations, trust, conn, peers, remote_subs>>

\* accept_and_gossip_space_root: announced by its signer, or carried by a client
\* of the space, who may hold an old one.  One that changes nothing is left out.
Announce(n, r) ==
  /\ Event /\ n \in up
  /\ StoreRoot(n, r) /\ <<root, equivocations>>' # <<root, equivocations>>
  /\ conn' = IF root' = root THEN conn
             ELSE Enqueue(conn, n, <<[kind |-> "SpaceRoot", root |-> r]>>)
  /\ UNCHANGED <<room, trust, peers, remote_subs>>

\* The client is trusted at n, by a room's invite or by its own.
TrustClient(n, level) ==
  /\ Event /\ n \in up
  /\ level > trust[n]
  /\ trust' = [trust EXCEPT ![n] = level]
  /\ conn' = Enqueue(conn, n, <<[kind |-> "PeerAuth", level |-> level]>>)
  /\ UNCHANGED <<room, root, equivocations, peers, remote_subs>>

-----------------------------------------------------------------------------
(* Faults.                                                                   *)

Fault == faults < MaxFaults /\ faults' = faults + 1 /\ UNCHANGED events

Lost(cc) == [cc EXCEPT !.lost = TRUE, !.to = [n \in DOMAIN @ |-> <<>>]]

\* Each end finds out by its own idle timeout.
LoseConn(c) ==
  /\ Fault /\ UNCHANGED up
  /\ conn[c] # Free /\ ~conn[c].lost
  /\ conn' = [conn EXCEPT ![c] = Lost(@)]
  /\ UNCHANGED <<data, peers, remote_subs>>

\* Rooms and roots are kept in memory, the peer store on disk.
Crash(n) ==
  /\ Fault
  /\ n \in up
  /\ up' = up \ {n}
  /\ conn' = [c \in Conn |->
       IF n \in Ends(c) THEN EndGone([conn EXCEPT ![c] = Lost(@)], c, n)[c] ELSE conn[c]]
  /\ peers' = [peers EXCEPT ![n] = [m \in Node \ {n} |-> NoConn]]
  /\ remote_subs' = [remote_subs EXCEPT ![n] = [m \in Node \ {n} |-> {}]]
  /\ room' = [room EXCEPT ![n] = [r \in Room |-> Absent]]
  /\ root' = [root EXCEPT ![n] = NoRoot]
  /\ equivocations' = [equivocations EXCEPT ![n] = FALSE]
  /\ UNCHANGED trust

Restart(n) ==
  /\ n \notin up
  /\ up' = up \cup {n}
  /\ UNCHANGED <<faults, events, data, conn, peers, remote_subs>>

-----------------------------------------------------------------------------

Read(c, n) ==
  OnSubscriptions(c, n) \/ OnRoomRoster(c, n) \/ OnSpaceRoot(c, n) \/ OnPeerAuth(c, n)

ClusterNext ==
  \/ IdleTick
  \/ \E c \in Conn : LoseConn(c)
  \/ \E n \in Node :
       \/ Refresh(n) \/ Gc(n) \/ Crash(n) \/ Restart(n)
       \/ \E c \in Conn : HandleIncoming(c, n) \/ Teardown(c, n) \/ Abandon(c, n) \/ Read(c, n)
       \/ \E m \in Node, c \in Conn : Dial(n, m, c)
       \/ \E r \in Room : Enter(n, r) \/ Leave(n, r)
       \/ \E r \in Roots : Announce(n, r)
       \/ \E level \in Trust : TrustClient(n, level)

ClusterSpec == ClusterInit /\ [][ClusterNext]_clusterVars

\* A dial loop never gives up, the timers tick, a reader reads what has come
\* and ends when its connection does, and a member that crashed is restarted.
ClusterFairSpec ==
  /\ ClusterSpec
  /\ WF_clusterVars(IdleTick)
  /\ \A n \in Node :
       /\ WF_clusterVars(Refresh(n)) /\ WF_clusterVars(Gc(n)) /\ WF_clusterVars(Restart(n))
       /\ \A m \in Node : WF_clusterVars(\E c \in Conn : Dial(n, m, c))
       /\ \A c \in Conn :
            WF_clusterVars(HandleIncoming(c, n) \/ Teardown(c, n) \/ Abandon(c, n) \/ Read(c, n))

-----------------------------------------------------------------------------
(* Properties.                                                               *)

Linked(n, m) ==
  /\ peers[n][m] # NoConn /\ peers[n][m] = peers[m][n]
  /\ Running(peers[n][m], n) /\ Running(peers[n][m], m)

\* Whatever is lost or crashes, and in whichever order the two ends of an old
\* connection find out, every pair of members ends up with one link that both
\* use, and with the other's subscriptions (dial_loop, run_link, start).
MeshHeals ==
  <>[](\A n \in Node : \A m \in Node \ {n} :
         Linked(n, m) /\ remote_subs[n][m] = local_rooms(m))

\* The roots two members hold are two of one signer and epoch.
Equivocation(n, m) ==
  /\ root[n] # NoRoot /\ root[m] # NoRoot /\ root[n] # root[m]
  /\ root[n].signer = root[m].signer /\ root[n].epoch = root[m].epoch

\* They are that, or of different signers: neither member replaces its own by the
\* other's, and they stay apart.
Irreconcilable(n, m) ==
  \/ Equivocation(n, m)
  \/ root[n] # NoRoot /\ root[m] # NoRoot /\ root[n].signer # root[m].signer

\* A space root and the trust in a client reach every member, however many of
\* them were down or unreachable when it was announced and whatever older roots
\* clients carry to others (SUBSCRIPTION_REFRESH); members that end up with
\* different roots were told irreconcilable ones.
GossipConverges ==
  <>[](\A n, m \in Node :
         trust[n] = trust[m] /\ (root[n] = root[m] \/ Irreconcilable(n, m)))

\* An owner that signs two roots of one epoch is found out: members that were
\* given one each, and keep them, have all counted it in the end (main.rs:251-259,
\* "make the conflict observable for operators instead of silently dropping it").
EquivocationSurfaces ==
  <>[](\A n, m \in Node : Equivocation(n, m) => equivocations[n])

\* sfu.rs: "Drop user-created rooms that have been unused for at least
\* idle_secs"; main.rs: "rooms are ephemeral (peer-owned definitions, idle GC)".
IdleRoomForgotten ==
  \A r \in Room :
    <>[](\A n \in Node : room[n][r] # InUse) => []<>(\A n \in Node : room[n][r] = Absent)
=============================================================================
