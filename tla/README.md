# ConquerD: TLA+ specifications of the supernode and the client's session core

ConquerD is a peer-to-peer voice, chat and file application. Clients
(`rust/conquerd-client`) meet at **supernodes** (`rust/conquerd-supernode`), which
authenticate them, keep the rooms, route signed messages between them over
WebSockets and QUIC streams, forward media datagrams, and form clusters that host
the same rooms. The specifications here model the supernode's shared state and the
tasks that race for it, the links of a cluster, and the parts of the client that
have to survive lost links, restarts and reordering: sessions, room failover, room
keys, file transfers. TLC checks them on small instances, TLAPS proves most of their
safety properties for every value of the constants.

Paths below are relative to `src/`; `main.rs`, `sfu.rs`, `relay.rs`,
`signaling.rs`, `cluster_link.rs` are those of `rust/conquerd-supernode/src/`;
`mod.rs`, `inbound.rs`, `room_session.rs`, `peer_session.rs`, `routing.rs` those of
`rust/conquerd-client/src/connection_manager/manager/`; `group_key.rs`,
`file_transfer.rs`, `bridge.rs` are the client's.

## 1. Inventory

| Component | State | Operations | What is hard | What makes it correct |
|---|---|---|---|---|
| SFU room manager (`sfu.rs`, handlers in `main.rs`) | rooms: type, creator, ACL, participants, subscribers, invite tokens, idle mark | join, leave, subscribe, unsubscribe, create, invite, mint, roster, disconnect, idle GC | many admission paths, two spellings of an id, cached idle mark | private rooms hold admitted peers only; voice and chat lists disjoint; bound; GC drops only unused rooms, and does drop them |
| QUIC relay (`relay.rs`) | allow lists, peer entries, index table, rooms, game sessions, video subscriptions | accept, authorize, register (soft-replace), welcome, datagram, heal, exit, sweep; joins and leaves from signaling | tasks of old and new connections of a peer interleave; read lock, gap, write lock | index and peer tables inverse; roommates reachable; a removed peer leaves nothing; a closed connection is forgotten |
| Signaling server (`signaling.rs`) | sockets by public id, alias by hex id, count, QUIC senders | accept, register on first message, deliver, exit, disconnect handler | reconnect while the old task is still running; handler called without the lock | count exact; alias names the right peer; only the owner's exit unregisters |
| Peer write queue (`PeerTx`, `PeerRx`) | byte counter, channel, overflow permit | send (fetch_add, push, rollback, notify), recv, write | lock-free accounting by many tasks; slow and silent peers | bounded; exact; nothing accepted is dropped; overflow stops the writer |
| Replay guard (`conquerd-features/src/replay.rs`) | per-sender window of signatures | check_and_record, prune, forget_peer | duplicates on two transports; boundary of freshness and window; cap | a control message is routed once; fail closed |
| Room list broadcast (`main.rs`) | dirty mark, notification, coalescer | mark, wake, swap, flush, direct answers | lost wake-up; lists read under a lock and queued without it; changes nobody announces | every announced change reaches every connected peer |
| Cluster (`cluster.rs`, `cluster_link.rs`, callbacks in `main.rs`) | connections, peers by member id, remote subscriptions | dial, accept, Hello, gossip, refresh, teardown, backoff | both ends of an old link learn of its end at different times; crash of a member; idle rooms collected by each alone | one link both use; roots and trust converge, and roots that cannot are noticed |
| Spaces (`space.rs`, root store in `main.rs`) | signed roots by signer and epoch, Merkle proofs, grants | accept, gossip, admit | order of epochs, two roots of one epoch, restart without roots | newest root everywhere; only admitted peers enter |
| Access, tickets, handshake (`access.rs`, `ticket.rs`, `handshake.rs`, `peer_store.rs`) | trust store, transcripts, expiry | handshake, grant, renew | partial handshakes, persistence | (planned) |
| Hole punching, endpoint mailbox (`main.rs`) | pending punches, mailbox file | register, pair, expire, save, load | timeout against late partner, crash while writing | (planned) |
| Feature registry and quotas (`conquerd-features`) | token buckets, registered features | gate, clear | clear against use | (planned) |
| Client connection manager: supernodes and rooms (`room_session.rs`, `inbound.rs`, `mod.rs`, `ws.rs`) | sessions, current room, retries, armed rejoins, failover marks | connect, join, leave, remove, answers, retry, failover | host lost during a failover, queued answers of an earlier session, refusals | the room is resumed; a node that returns does not take it back |
| Client connection manager: direct sessions (`peer_session.rs`, `quic.rs`) | entry of a peer, reconnect timer, tasks | dial, accept, connected, disconnected, backoff | both dial at once; events name the peer and not the connection | belief is backed by a task; both end up joined |
| Client group keys (`group_key.rs`, `room_session.rs`) | epochs and keys, pending acks, rosters by supernode | mint, rotate, seal, ack, retry, reseal, accept | rosters and keys in any order, lost keys, restart of the keyer | members that know of each other are not stuck on different epochs; epochs do not fall; a rotated key is not given to the departed |
| Client file transfer (`file_transfer.rs`, pump in `inbound.rs`) | outbound and inbound records, `.part` files | offer, accept, stream, requeue, complete, cancel, gc | refused and reordered chunks, a file that changes, late accept, exits | a stream leaves no holes; streams end |
| Client calls and media, stores | call states, jitter buffers, files | | stale queues, fallback of a call | (planned) |
| UI, Android, installer, supernode manager, codec bindings, web SDK, games, patched crates | | | presentation, foreign code or I/O | not modelled |

**How they interact.** A WebSocket task (`handle_ws_connection`) verifies a
message, passes it by the replay guard, registers its socket on the first one and
calls the handler (`on_message`) synchronously. The handler takes the SFU lock
and then the relay lock, sends answers through `send_to_peer` (the peer's write
queue) and marks the room list dirty. QUIC connections run tasks of their own in
the relay; their signaling stream (`handle_relay_signaling_stream`) registers a
second sender for the peer and feeds the same handler. Timers run the idle GC,
the relay's sweep and the coalescer. All tasks run on a multi-threaded runtime,
so anything between two lock sections, or between two atomic operations, can
interleave. Cluster members hold one QUIC link per pair and gossip over it.

A client's connection manager is one task: it takes commands of the UI, events of
its transport tasks and timer ticks one at a time, each to its end. What can go
wrong is what lies between: events that were queued before the state they speak of
changed, messages that overtake each other on the way, and timers.

## 2. Modules

| Module | Models | Theorems in |
|---|---|---|
| `Maps` | `HashMap` as a function with a finite-or-not domain: `Put`, `Without` | where they are used |
| `Sizes` | the total length of frames, as a cardinality | `PeerQueueProofs` |
| `SfuRooms` | room manager and every handler that changes it | `RoomProofs` |
| `QuicRelay` | relay state and connection tasks | `QuicRelayProofs` |
| `Signaling` | socket tables, WebSocket and stream tasks | `SignalingProofs` |
| `ReplayGuard` | replay windows and both pipelines | `SupernodeProofs` |
| `RoomListBroadcast` | coalesced and direct room lists | `SupernodeProofs` |
| `PeerQueue` | write queue, writer and reader of one peer | `PeerQueueProofs` |
| `BoundedPipe` | abstract: what the write queue promises; `PeerQueue` implements it | `PeerQueueProofs` (the refinement) |
| `ClusterLink` | links between cluster members and their gossip | `SupernodeProofs` |
| `RoomFailover` | a client's rooms in a cluster that fails under it | `RoomProofs` |
| `DirectSession` | the direct QUIC session of two clients | `DirectSessionProofs` |
| `GroupKeys` | the end-to-end keys of a room | `GroupKeysProofs` |
| `FileTransfer` | one file from its sender to its peers | `FileTransferProofs` |

`MC<Module>` gives the model values for TLC. Definitions whose comment starts
with "Mutant" are faulty variants of the definition that follows them; they are
used by no specification and serve to show that a property can fail.

### SfuRooms

`rooms` is the manager's map; a room is a record. Operators named after methods of `sfu.rs`
take an old room or map to a new one, and a handler action is the composition of the methods
it calls (`HandleSfuJoin` = Space admission, then the token on the join, then `join_room`).
Ids are *spellings*, and `normalize_peer_id` maps a spelling to the padded one. `creator_id`
is kept as the code keeps it: normalized by `SFURoom::new`, raw when adopted from a Space
root, which may be any spelling. `empty_since` is an idle age that saturates at the GC
limit. A Space proof is abstracted to what `try_space_admission` does with it: the node's
type, owner and policy and whether a valid grant for the sender came along. Participant
indices, names and token provenance are never read and are left out, and so is the
active-speaker selection.

Handlers are one action each although the code takes the SFU lock anew for each
method. The proof works method by method (one lemma for each), so the invariants
hold whenever the lock is free, not only between handlers.

### QuicRelay

One action is one lock section of `relay.rs`. A connection's task walks through
`auth`, `register`, `welcome`, `live`, `heal` (between the read and the write of
the healing path), `remove` (between the exit's ownership check and its removal)
and `done`. `Close` may happen at any time. `RegisterRefused` stands for both
refusals, a full relay and an exhausted index space; at the production values (255
peers, 254 indices) only the second can occur.
`RoomTargets`, `GameTargets` and `PointToPointTargets` are the fan-out of
`handle_datagram`.

Room audio is another matter. `main` installs the SFU bridge (`main.rs:3768-3835`), so a
datagram of `room.audio.sfu` never takes the generic path to the relay's roommates
(`relay.rs:961-1001`): the bridge asks the room manager for `audio_forward_targets` and
sends to each of them by relay datagram if its entry is live, else by WebSocket. Here
such a datagram has no targets in the relay. `RoommatesReachable` is about what the
relay forwards itself: subscribed video, game datagrams outside a session, and
datagrams addressed by index. Who hears whose audio is decided by the participants of
`SfuRooms` and the selection of active speakers, which is not modelled.

Quotas, byte counts and notifications that clients ignore are
left out; `revoke_peer` has no caller.

### Signaling

A socket's task reads a message and registers on the first (`Read`), delivers it
without the lock (`Deliver`), and after hang-up unregisters under the lock
(`Unregister`) and calls the disconnect handler without it (`Disconnected`). The
socket registered under a peer is identified by the connection, which is what
`same_channel` compares. One socket may carry messages of several senders; the
code registers the first. Of the rooms only the participants of one are kept.

### ReplayGuard

Messages are model values that stand for their signatures; any message may arrive
any number of times on either transport. Its specification is called `GuardSpec`, so that
one module can reason about the guard and the room list. `accepted` counts how often a message
was routed since the guard last forgot its sender. Wall clock and monotonic clock
are one. `RoutedAtMostOnce` is about messages signed at or before the time they
first arrived.

### RoomListBroadcast

The room set is a version number. Mark and notification, wake, swap, the read of
the rooms and the queueing of the list are separate steps; direct answers run on
the peer's own task. All peers are trusted.

Not every handler that changes the rooms calls `broadcast_room_list`:
`handle_sfu_room_create` (`main.rs:3192`), `handle_sfu_room_invite` (3295),
`apply_room_roster` (592-607) and `try_space_admission` (690) do not. `Change` is a change
that its handler announces, `ChangeSilently` one that it does not; `noted` is the newest
announced one. The two properties about peers are about what was announced. That a
silent change reaches nobody until the next announced one is `NoChangeEverLost` of
section 4.

### PeerQueue

`send` is `FetchAdd`, then `Push`, or `Rollback` and `notify_one`. `recv` is a biased
`select!`, and its two polls are two steps: `RecvOverflow` when the permit is there,
else `PollNotified`, and only then the channel (`RecvFrame` and `Release`, or `Park` and
`Wake`). A notification between the polls is handed back as a permit when the select
drops that branch, so the writer may take one more frame first. A frame is its length.
`Transport` selects the WebSocket or the QUIC writer, which skips frames longer than
`MAX_FRAME`; the run is of the WebSocket. After a disconnect the counter is no longer of
interest, hence the conditions `writer.pc # "done"`.

`BoundedPipe` says what all this is for: accepted frames come out in order and fit
under the ceiling while they wait, after a refusal at most one more is taken out (the
one whose poll had passed) and none if one was in hand, and a frame is lost only with
the pipe. The refinement mapping takes the channel for the queue, the frame between
`recv` and the completed write for the frame in hand, and a refusal and the place of the
writer for the mode. Bytes that were added and not yet rolled back are invisible in it.

### ClusterLink

A connection is a record with both ends' tasks and the messages in each direction; the
member with the smaller id dials. Connection slots are reused once nobody refers to them.
`LinkEnds` collects the ways an end's `run_link` returns: the other end closed, its own
sender was dropped, or the idle timeout after a loss. The teardown removes the entry under
the member's id whatever connection it names. A late teardown of an old link therefore
removes the newer link's entry; this drops the newer link's sender, whose writer finishes
the stream, so that the dialer tears down and dials again. `MeshHeals` is about that order.
Timing assumption `ClosesDelivered`: the backoff before a dial (at least
`DIAL_BACKOFF_START`) covers the delivery of an orderly close. The client's effect is
abstracted to a room in use, a space root and a level of trust. A root is its epoch, its
signer and its hash (the constant `Roots` is the set that owners have signed): the first
root a member stores pins the signer, later ones have to be of that signer and of a higher
epoch, and one of the same epoch with another hash is an equivocation, which is refused and
counted. Whether a member has counted one is kept, not how often: the code counts again at
every refresh. A crash loses everything but trust, which is on disk. The specification is
called `ClusterSpec` (with fairness `ClusterFairSpec`), so that one module can reason about
the links and the other machines beside the rooms.

### RoomFailover

`cm` holds the manager's fields under their own names (`supernodes`,
`pending_room_join_retries`, `failover_in_progress` and so on); `inbox[n]` is the queue of
events of supernode `n`'s WebSocket task, which keeps its send channel through reconnects. A
supernode that restarts has no rooms until it learns them from the cluster (`Materialise`),
and answers a join as `handle_sfu_join` does: members, or a denial. The supernode's side of
a lost link is a step of its own: `exiting` are the supernodes whose task for the old socket
has still to unregister and call the disconnect handler (`Forget`), which may come after the
client has dialed again, and even after it has registered; the client is then dropped from a
room it believes to be in. Two such tasks at one supernode count as one. `voice` is the
bridge's voice scope. It follows `RoomFailedOver` only for supernodes in the peer store
(`known`). `established`, `resumed`, `left` and `intact` are history variables for the
properties. The specification is called `FailoverSpec`, so that one module can reason about
the rooms of both sides.

### DirectSession

Two clients. A dial is a task of its own; its result, and the end of each session,
are events in one queue that name the peer only; the model carries the connection
along to say which session an event came from, and the handlers do not read it.
Aliases of relabelled peers, blocking, `ConnectDirect` with a user-given address,
`ConfigureDirectP2p`, hole punching, the call fallback and statistics are left out.

### GroupKeys

A client is its rank in the order of public ids, on which the election of the keyer
rests; a key is the number of its minting. Epochs count modulo `RING`. `Init` may start
from a room whose first keyer has left.

A supernode handles the messages of each client in the task of that client's socket.
`Join`, `Subscribe`, `LeaveRoom`, `UnsubscribeRoomChat` and `LoseLink` change the room and
send the notices the handler sends at once (`SfuPeerJoined` and `SfuPeerLeft` to the
participants, the roster to a joiner); the task is then `due` to `Broadcast`, which reads
the roster and sends it to some members now and to the others one by one later
(`SendLate`), while tasks of other clients do the same. A member may therefore read an
older roster last. What has been queued for one link is read in order; sealed keys and
acknowledgements arrive in any order or not at all.

A client forgets its keys when it leaves, but not when it keeps the room's chat (its
`SfuSubscribe` then follows in the same task, `Resubscribe`) and not when its link is
lost: it then keeps keys and rosters until it is back or its process ends (`Exit`). The
retry of a key happens whenever the timer fires, also while the first copy or its
acknowledgement is still under way.

Coarser than the code: a client's command and the supernode's handling of it are one
step, and so are a change of the room and the notices of it; a client has one task at a
supernode, so that the late exit of a replaced socket (section RoomFailover) is not
here.

### FileTransfer

Contents are told by the version of the sender's file they were read from. The pump opens
the file again for every chunk, so that one turn may read several versions, or fail after
some chunks; the hash check at the end is a comparison with the offered version. Time
passes in ticks of `TRANSFER_RETAIN_SECS`. `PumpStream` is one round of the pump: the
chunks of the budget, of which the transport takes a part; the rest is taken back by
`unsend_chunks`.

A receiver may drop a chunk it was sent: the room handler does with one it cannot decode
or open (`UnopenedChunk`), and `store_chunk` with one whose write to the `.part` file
fails (`UnwrittenChunk`); neither is counted as received. Deleting a `.part` file may
fail, which gc, a discarded and a failed transfer take note of at most in the log. Both
clients may exit at any time; records are in memory and `.part` files are not.

## 3. Runs

Each passing run has, for every property, a faulty variant of the code under which
TLC finds the property violated (`PROJECT.json`, `mutants`).

| Run | Properties | Instance | States |
|---|---|---|---|
| `sfu_rooms` | `VoiceAndChatDisjoint`, `RoomNeverOverfull`, `MembersCanonical`, `PrivateMembersAdmitted`, `IdleAgeMatchesUse`, `NoAdmissionLost`, `RoomsOutliveMembers`, `IdleRoomsCollected` | 2 identities in 3 spellings, lobby and one room, one token, 4 proofs, capacity 1, idle limit 1 | 15,640 |
| `quic_relay_rooms` | `IndexBijection`, `RoommatesReachable`, `DepartedLeaveNoTrace`, `RoomSurvivesReconnect` | 2 peers, 3 connections, 2 rooms, at most one video subscriber at a time | 852,852 |
| `quic_relay_limits` | `TypeOK`, `GameSessionInverse`, `ClosedConnectionsForgotten` | 2 peers, 2 connections, one index, 2 sessions | 73,314 |
| `replay_guard_safety` | `RoutedAtMostOnce`, `WindowBounded`, `NoLiveEntryEvicted` | 2 senders, 4 messages, window 2, cap 2, clock to 6 | |
| `signaling_safety` | `CountExact`, `HexResolvesToOwner`, `RegisteredIsServed`, `OnlyOwnExitUnregisters` | 3 keys of 2 identities, 3 sockets, 2 streams | |
| `room_list` | `DirtyNeverStranded`, `QuiescentMeansInformed`, `NoNotedChangeLost` | 2 handlers, 2 peers, 3 changes | 302,166 |
| `peer_queue` | `AccountingExact`, `ImplementsPipe`, `OverflowStopsWriter` | 2 tasks, lengths 1 and 2, ceiling 3, 6 sends, WebSocket | 90,203 |
| `cluster_link` | `MeshHeals`, `GossipConverges`, `EquivocationSurfaces` | 2 members, 3 connections at a time, 1 room, 4 roots (two of one signer and epoch, its next, and one of another signer), 1 fault, 2 client events | 688,531 |
| `room_failover` | `RoomResumes`, `NoHijack` | 3 supernodes of which 1 is in the peer store, 1 room, 1 retry, send channel of 2, 2 faults, 1 user command | 997,994 |
| `direct_session` | `BeliefIsBacked`, `SessionsConverge` | 2 clients that know each other's address, 4 connections at a time, 1 fault | 162,796 |
| `group_keys` | `NoEpochWedge`, `EpochConfined`, `EpochAscends` | 3 clients of which 2 are there at first, 1 supernode, 4 keys, 2 joins, leaves or lost links, 1 lost message, 1 member that is sent its roster late, 3 messages under way at a time, 2 attempts, 2 retained epochs, advance 6 of 16 | 1,408,968 |
| `file_transfer` | `NoHoles`, `StreamsEnd` | 1 receiver, 2 chunks, budget 2, 2 passes, 1 lost frame or dropped chunk | 888,959 |

**Bounds.** Every constant of the code that limits something is a constant here and is small
enough to be reached: a room that is full, a relay that is out of indices, a window, a queue
and a send channel at their caps, attempts that are used up. `MaxTime`, `MaxVersion`,
`MaxSends`, `MaxMinted`, `MaxChurn`, `MaxLost`, `MaxLate`, `MaxPasses`, `MaxFaults`,
`MaxUser`, `MaxEvents`, `MaxEpoch` and the finite sets of connections bound the length of
behaviours. Three connections of the relay give every overlap of an old and a new one of a
peer while the other peer is registered, three sockets a replacement of the replacement. Two
faults in `room_failover` lose a second supernode while the failover from the first is under
way. In `cluster_link` and `direct_session` a connection slot is used again when no task,
queue or table refers to it, and the number of slots is never exhausted (three would not be
enough for `direct_session`, where a dial would then be blocked), so the length of a
behaviour is bounded by faults only. `CHECK_DEADLOCK FALSE` appears where a behaviour ends
because such a bound is used up, or where everything has settled. `SfuRooms` stops at states
in which the (public) lobby has an ACL or tokens, which the code never reads for a public
room; `QuicRelayLimits` leaves out video subscriptions, which `quic_relay_rooms` has (for
one subscriber at a time, and without portal guests). `RoomFailover` stops where a supernode
was removed or has dropped the client late and the room is neither established nor resumed,
nothing being queued that could change that (`Telling`): neither property says anything from
there on. `GroupKeys` stops where more than `MaxInFlight` keys, acknowledgements, notices
and owed rosters are under way. In `group_keys` one message may be lost and a key is sent
twice, so that a first key that is lost for good is not in the instance: the property is
about members with some key (see `OneKeyAtRest` in section 4). Symmetry is used only for
sets no action and no property orders, and not with liveness.

**Fairness.** `SfuRooms`: the clock and the GC timer, which `main` spawns and never stops.
`QuicRelay`: the steps of a spawned task and the sweep; not `Close`, the accept or a
client's calls. `RoomListBroadcast`: tasks that hold work go on; nobody has to change a
room, connect or ask. `PeerQueue`: the supernode's own tasks; a peer need not read, speak or
hang up. `ClusterLink`: each member's dial loop, link tasks, refresh and GC timers and the
clock go on, and a member that crashed is restarted by its service manager. `RoomFailover`:
the manager's loop takes what is queued, timers fire, and what the network or a supernode
has begun (a dial, an answer, a restart) comes to an end; no fault and no user command has
to happen. `DirectSession`: a client runs again after a crash, its loop, timer and tasks go
on, and a dial settles. `FileTransfer`: the pump and the clock. `GroupKeys` has safety
properties only: `NoEpochWedge` says that the recovery is not out of moves.

**What the properties leave open.** `IndexBijection` and `DepartedLeaveNoTrace` hold while
the exit of an old connection takes the new one's entry away (`OpenConnectionRegistered`
in section 4 does not). `RoutedAtMostOnce` is about messages that are not stamped ahead of
the clock. `HexResolvesToOwner` says that an alias names the right peer, not that a
connected peer has one. `NoHoles` presupposes that no frame is lost and no chunk dropped
by its receiver: there is no request for a single chunk that would repair it.
`RoomResumes` is about rooms that no supernode refuses and from which none drops the
client late.

## 4. Where comments and code differ

The modules state what these comments say (and one thing no comment says but the code is
meant to achieve) as properties that no run lists. TLC refutes
each of them when its name is added to the configuration of the module (with the
instance noted), and the counterexample is a behaviour of the code.

| Property | Comment | Behaviour |
|---|---|---|
| `QuicRelay!OpenConnectionRegistered` | an entry of the new connection "must not be torn down by this (old) connection's exit path" (`relay.rs:846`) | ownership is checked under one lock, the entry removed under the next |
| `Signaling!DisconnectedMeansGone` | "Called when a peer disconnects." (`signaling.rs:305`) | called after the lock is dropped, possibly after the peer is back; it then takes the peer out of its rooms |
| `RoomListBroadcast!NoChangeEverLost` | "Every room-set change calls this [...] no change is ever lost" (`broadcast_room_list`, `main.rs:1263-1271`) | a room that is created, joined by invite, learnt from a sibling's roster or materialised from a Space is not announced |
| `PeerQueue!OverflowClosesTransport` | "the peer's transport is closed" (`signaling.rs:108`) | not while the writer is blocked in a write or the peer is silent |
| `GroupKeys!ForwardSecrecy` | "A departure → rotate the epoch key and reseal to those who remain" (`SfuPeerLeft` in `inbound.rs`) | a key that another keyer sealed also to the departed client is accepted after the departure was handled, and used |
| `GroupKeys!SameKeyerForAll` | "so all of them compute the same keyer over the same set" (`broadcast_sfu_members`, `main.rs:985`) | the roster is read under the lock and sent without it, so of two rosters the older may arrive last and stay |
| `GroupKeys!OneKeyAtRest` | none; what the recovery (`reseal_to_lagging_member`) is for | epoch numbers only are compared: two keys of one number, and a member whose every copy of the first key was lost or given up, are noticed by nobody |
| `FileTransfer!NoOrphanPart` | "Inbound records own a `.part` file, so dropping one must delete it" (`file_transfer.rs`, `gc`) | the record goes when the removal fails, and with the process; nothing sweeps `.part` files at the start |
| `FileTransfer!AcceptorsServed` (two peers) | "each acceptor gets their own pass over the source" (`file_transfer.rs`, `start_stream_for`) | an acceptance during another peer's stream starts the one stream over for the new peer; the first is never sent the rest |
| `FileTransfer!RefusalHeard` | "Say so, or the peer waits forever for chunks that will never come" (`inbound.rs`, `FileTransferAccept`) | `on_transfer_error` looks at outbound transfers only, so the receiver that is told goes on waiting |
| `FileTransfer!OfferAnswerable` | "Outbound offers stay answerable for OFFER_TTL_SECS" (`file_transfer.rs`, `gc`) | an offer that was streamed once is dropped after `TRANSFER_RETAIN_SECS` |
| `RoomFailover!LeaveOutranksRetry` | "An intentional leave outranks any in-flight room_absent retry" (`mod.rs`, `LeaveRoom`) | a denial that is still queued arms the retry after the leave |
| `ClusterLink!IdleRoomForgotten` | "Drop user-created rooms that have been unused for at least `idle_secs`" (`sfu.rs:470`) | a sibling's roster creates the idle room again every 15 seconds, with a new idle mark |

Further differences met while modelling; the modules follow the code:

- `handle_sfu_room_create`: `creator_id` defaults to the sender, who then counts as a
  creator of an existing room too (the comment at `main.rs:3147` says otherwise).
- `handle_sfu_room_invite` re-seeds the token as unlimited before validating it, so a
  minted token is not spent ("consumed on first use", `main.rs:3218`).
- The soft-replace keeps the old connection's video subscriptions, which "must not
  outlive" it (`relay.rs:152`).
- The heal of a missing room may overwrite a room joined between its read and its write
  ("Heal a missing peer.room_id", `relay.rs:970`); `RoommatesReachable` holds all the
  same, because the late write also joins the room it records.
- A portal-only guest that is in a room or session over signaling is a fan-out target
  ("no datagram forwarding", `relay.rs:46`).
- File chunks are exempt from the replay window over WebSocket and recorded in it over
  QUIC ("exactly the same checks as the WS path", `signaling.rs:412`).
- A replaced socket may still deliver a join after the newer one left, and its own exit
  then skips the disconnect handler: the "permanent ghost participant" of `sfu.rs:540`.
- An identity connected under two spellings loses its hex alias with the one registered
  last ("All three name the same key", `signaling.rs:261`).
- A direct answer that read the rooms before a flush may be queued after it, so that the
  peer is left with the older list ("the sidebar would go stale", `main.rs:4627`).
- The QUIC writer skips frames beyond `MAX_FRAME` for which `send` returned true ("never a
  silent drop", `signaling.rs:152`); hence `ImplementsPipe` is checked for the
  WebSocket, and proved for frames that fit (`FramesFit`).
- Space roots are kept in memory: after a restart an old root that a client carries is
  accepted until a sibling's gossip brings the newer one.
- Group keys: acknowledgements and healing compare epoch numbers only, so two keys minted
  under one number are told apart by nobody; the roster of a supernode that was lost is
  not cleared from `room_group_members`; when the byte-sized epoch wraps, the eviction of
  the lowest number drops the key just installed (`group_key.rs:107`).
- A message stamped ahead of the supernode's clock stays fresh for longer than its entry
  stays in the window, and may be routed again in between; a disconnect empties its
  sender's window (`forget_peer`), after which what is still fresh may be replayed
  (`replay.rs:126`).
- File transfer: a cancellation at the sender, and revoking a 1:1 transfer in mid-stream,
  tell the receiver nothing; a chunk whose write to the `.part` file fails is not counted
  (`store_chunk`, `file_transfer.rs:369-375`) and not asked for again, so the transfer
  waits until gc drops it and its hash is never compared; a terminal state is left again when a room offer is streamed anew ("a state it
  can never leave", `is_terminal`).
- Failover: a denial from one sibling during the fan-out clears the current room and
  disarms the others (the comment above `maybe_failover_to_cluster` says the room dies
  only when no member is reachable); the current supernode after a fan-out is the last live
  sibling, not the first; joins and leaves do not clear `failover_pending_room` and
  `pending_failover_rejoin`, so that a node armed before a leave rejoins the room that was
  left when it is back, also while another room has been resumed (hence `NoHijack` is about
  the resumed room only); the early return on `failover_in_progress` loses a join made
  while every node is down; answers queued for a removed supernode are still applied, and
  `cluster_members` keeps it, so that a failover may dial it again; the UI follows
  `RoomFailedOver` only to supernodes in the peer store.
- Direct sessions: `QuicDisconnected` names only the peer, so the end of a replaced
  connection ends the entry of the newer one (`mod.rs:1747`), and the replaced connection
  lingers; dials do stack ("Avoid stacking parallel dials", `peer_session.rs:305`) after
  an inbound session has come and gone during a dial; `BlockPeer` leaves a running session
  reading and `UnblockPeer` does not dial; endpoint hints that are IPv6 or host names never
  parse in `connect_direct_quic`; `peer_capabilities` is filled under the public id and
  cleared under the hex id.
- Hole punching: the client asks for its partner by hex id (`peer_session.rs:928`), the
  supernode pairs registrations by public id (`main.rs:1441`), so no pair forms for peers
  that met by invite.
- Call fallback (not modelled): a local hang-up does not cancel a pending fallback (doc at
  `room_session.rs:1728`); a direct session that returns between the creation of the
  temporary room and its acknowledgement leaves it as an ordinary room; an acceptance that
  crosses a hang-up puts the caller's view back into the call.

The tests `leave_room_is_noop_without_quic_connection` and
`join_room_peer_appears_in_multiple_rooms_when_no_quic_connection` fix how relay
rooms behave without a QUIC entry, and the model follows them.

## 5. Proofs

All proofs use only the assumptions on constants stated next to their declaration, which
TLC evaluates in every run. Each safety proof has the shape `Init => Inv`,
`Inv /\ [Next]_vars => Inv'` and `Inv => P`, with a lemma per method or action. The
bounds (`MaxFaults`, `MaxSends`, `MaxMinted` and so on) are arbitrary numbers in the
theorems, so that nothing rests on behaviours being short.

- **RoomProofs**, at the supernode. `RoomsOK` says of every room that it is well formed, canonical,
  within capacity, admitted, voice and chat disjoint, and that a marked room is unused;
  and of every room but the lobby that an unused one is marked. `PrivateMembersAdmitted`
  is inductive only together with `MembersCanonical`, because the ACL is compared with
  normalized ids, and because adopting a creator may only fill an empty field. One
  lemma for every method of a room, one for every method of the manager, then a handler
  is a composition. The two action properties relate the rooms before and after a
  handler: `Inherits` (the type, the ACL and a set creator are kept) holds of every room a
  method leaves in place, so an admission is never taken away; `Sheds` says of a room
  which a step drops that it was empty, or that its only member is the one whose leaving
  or disconnecting the step handles. The collection of idle rooms is of the first kind.
- **RoomProofs**, at the client. `ResumedIsSafe`: while a room counts as resumed, it is the
  user's and the manager's room, no command of the user is waiting, and no node is armed
  to rejoin it. The confirmation of a fan-out and the takeover by an armed node establish
  it by disarming; nothing arms a node for the room again but the loss of its host, which
  ends the resumption. A retry may move the room to another node, never to another room.
  The types of channels, queues and commands are part of the invariant, because a room of
  an answer has to be a room.
- **QuicRelayProofs.** `RelayInv` is `TypeOK`, `IndexBijection`, `RoomBackPointer` and
  `GameSessionInverse`; `TasksOK` adds what a task knows at each step.
  `RoommatesReachable` follows from `IndexBijection` and `RoomBackPointer`: the latter
  survives the heal race because the late write joins the room it records. It says
  nothing of room audio, which leaves the relay through the bridge. Index
  allocation rests on a least-element lemma. `RoomSurvivesReconnect` is an action
  property: of all steps only the soft-replace changes the connection of an entry, and it
  carries the room over.
- **SupernodeProofs**, the replay guard. `RoutedIsRemembered` relates history and window:
  a routed control message is still in its sender's window, with the time it was routed,
  until that time is out of the window; after that its timestamp, which is not later, is
  no longer fresh. A message stamped ahead of the clock may still be fresh then, which is
  why the theorem excludes it.
- **SupernodeProofs**, the room list. `InHand(p)`: a connected peer has been sent the
  newest announced version, or somebody still has to send it one (its own answer, a
  change about to be marked, the mark, the flush). A silent change adds nothing to what is
  owed, and the invariant does not claim that it reaches anybody.
- **SupernodeProofs**, the cluster's links. `LinkInv` says of a connection that the smaller
  id dialed it, that an end which is not through with it is at a member that is up, that
  only the acceptor's end waits and has then sent nothing, and that a frame on its way
  is no news to its sender (`Says`); of the tables, that a sender in `peers` is that of a
  running link to that member (`PeersLive`), that a dialer has registered the link it runs (`DialerOne`) and that
  subscriptions are known over running links only (`SubsLive`). `DialerOne` is what makes
  the teardown by id harmless at the dialer: the entry it removes is its own. At the
  acceptor no such thing holds, since an old and a new link of one member may both
  run there, and the theorems do not claim it; that the mesh recovers from it is `MeshHeals`.
  A crash loses the root, so what the member has sent before would be news to it;
  `LinkInv` survives because the crash also loses its connections. `GossipIsSound` reads
  off the frames' part: a member replaces its root only by a newer one of the signer it
  has pinned, and no step but a client's raises the highest epoch or trust in the cluster.
  Members that have pinned different signers, or hold two roots of one epoch, stay apart;
  the theorem does not say otherwise.
- **SignalingProofs.** `RegisteredIsServed` (a registered socket's task has not exited and
  carries that key) makes `CountExact` inductive: an exit that passes `is_ours` removes
  exactly one key.
- **PeerQueueProofs.** The accounting is a sum over a channel of any length. Stated as a
  recursive sum it would need induction over data; `Sizes` states it as the number of
  bytes, pairs of a place and an offset, so that the laws of finite cardinalities apply:
  `fetch_add`, push, receive and release each move one frame's bytes between disjoint
  sets. `QueueInv` adds that what tasks have still to subtract is on the counter also
  after the writer has left (else the unsigned counter would wrap), that a task about to
  push has its place under the ceiling, and that the permit of a refusal is consumed only
  by leaving, also when it comes between the writer's two polls. From it every step is a step of `BoundedPipe` or a stutter. `QueueIsPipe`
  has the hypothesis `FramesFit`, which a WebSocket always satisfies: the QUIC writer
  skips frames beyond `MAX_FRAME` (262,144 bytes) although the ceiling is 8 MiB.
- **FileTransferProofs.** `FileInv` adds to the types what frames on their way tell of
  their peer (an accept comes from a peer that has answered, a chunk is of the stream's
  target), and, for `NoHoles`, a ledger of the stream: with nothing lost or dropped, each
  chunk below `chunks_sent` has arrived, is on its way, or belongs to a receiver that
  is done. The ledger is what a turn that the transport cuts short (`unsend_chunks`), one
  that fails after some chunks, and a stream that is started over must keep.
- **GroupKeysProofs.** `EpochConfined` is about one keyer's view, but keys pass through
  many hands. The argument is that they travel upwards only: a client accepts a key only
  from the keyer it elects, whose rank is below its own, so a key that a client minted
  never comes back to it from somebody else. What it holds of its own making it has
  distributed itself, and each handler's outcome (`Good`) seals only to the members in its
  own view and rotates when one of them is gone. `KeysInv` says so of the state (`Minted`,
  `Clients`, `InFlight`). Neither epoch numbers nor the order of rosters play a part, hence
  the theorem holds through every wrap of the ring and whatever a client is told of the
  room. That there is a keyer to elect in a nonempty view is the well-ordering of the
  naturals.
  Epoch numbers enter with `EpochInv`: only a client that is keyer of its own view waits
  for acknowledgements, and, while what was minted and one more advance fit the ring
  (`Unwrapped`), a client's current epoch is the highest it holds, and every epoch a client
  has heard of, and every one in a message, is below the number minted. Each handler
  `Lifts`: it keeps this and never lowers the current epoch. From it follow that no late
  key or frame sets a client back (`NoEpochRollback`), and where the recovery stops
  (`EpochsComeToRest`): among members that know of each other, one ahead of the keyer
  would be answered by a rekey and one behind by a reseal, so at rest those with a key are
  level with the keyer, except for one that lags by more than `MAX_EPOCH_ADVANCE`, whose
  window refuses the keyer's epoch. `NoWedgeOfEpochs` is `NoEpochWedge` where the epochs
  minted so far fit one window (`WithinWindow`).
  None of this says what the members' views are: `Informed` is a hypothesis, because the
  supernode does not guarantee it.
- **DirectSessionProofs.** An entry in state "connected" blocks the reconnect timer, and
  events name the peer only, so its backing may be an event of any session. `SessionInv`
  is the type invariant, `Slots` (a dialing connection belongs to its dialer's task
  alone, a free one to nobody), `InOrder` and `BeliefIsBacked`. `InOrder` is the
  strengthening: in the queue of events `QuicConnected` never comes last for a session
  that is over, so that whenever the handler sets an entry to connected, the session runs
  or the event that clears the entry is behind. TLC has checked `SessionInv` with two
  faults (18.4 million states).

Only model-checked: every liveness property (`IdleRoomsCollected`,
`ClosedConnectionsForgotten`, `NoNotedChangeLost`, `OverflowStopsWriter`, `MeshHeals`,
`GossipConverges`, `EquivocationSurfaces`, `RoomResumes`, `SessionsConverge`, `StreamsEnd`),
because fairness is beyond the prover; and `NoEpochWedge` beyond one window of epochs.

What `NoEpochWedge` does not say, because it is false of the code: that members with
different views of the room agree (`SameKeyerForAll`), and that members who agree have a
key, and the same one (`OneKeyAtRest`):

- when every copy of a member's first key is lost or given up
  (`GROUP_KEY_MAX_ATTEMPTS`), it has no frame to send that would ask for another;
- two keys minted under one epoch number by two keyers are not told apart;
- once the ring has wrapped, an old key that arrives late may be accepted as a new one;
- an acknowledgement of a key from before a departure, of the same number as the key
  that is pending after the next join, clears the pending entry.

## 6. Not modelled, and plan

Order of further work:

1. `ActiveSpeakers` (`note_audio_should_forward`): the capped set of speakers under decay.
2. `SupernodeRooms`: the SFU rooms composed with the relay, where a leave of one room, a
   missing QUIC entry and a reconnect meet.
3. `Access`: handshake, tickets and renewal, portal-only promotion; the endpoint mailbox;
   quotas.
4. Client calls: the call states of UI and manager with the fallback into a temporary
   room; the call controller (jitter queues that outlive `StopAudio`, `StartAudio` during
   a microphone test); reassembly of video fragments.

Of components listed as partly modelled, left out are: in the cluster the version
exchange, certificate checks and frame replication with its `SeenCache` (a frame is sent
once per link and never forwarded); in the connection manager presence, capabilities,
invites and the relay client; in file transfer delta encoding, compression and file names.

Hazards no property covers, beside those of section 4: a leave before the relay
connection is up leaves a WebSocket join's relay membership behind (`relay.rs:470`, fixed
as intended by two tests); `handle_sfu_room_create` and `handle_sfu_join` take the SFU lock
several times, and what one decided from its own earlier read is not covered
(`main.rs:3165`); a frame copied to a cluster member after its id was evicted from the
bounded `SeenCache` (`cluster_link.rs:200`); a talker dropped from the capped set of
speakers (`sfu.rs:254`); a crash while the endpoint mailbox is rewritten in place
(`main.rs:1568`); the timer of the call fallback (`room_session.rs:1796`).

Left out for good: user interface, Android binding, installer, supernode manager,
codec bindings, web SDK and games (presentation, foreign code or I/O); cryptography
(a signature is valid or the message is dropped); byte formats.
