------------------------------ MODULE Signaling -----------------------------
(***************************************************************************)
(* The WebSocket signaling server (conquerd-supernode/src/signaling.rs):   *)
(* the SignalingState behind one RwLock, one task per WebSocket            *)
(* (handle_ws_connection) and one per QUIC signaling stream                *)
(* (handle_relay_signaling_stream in main.rs).  A task takes the lock to   *)
(* register and again to unregister, and calls the supernode's handler     *)
(* without it, so tasks of an old and a new connection of the same peer    *)
(* interleave between the two.                                             *)
(*                                                                         *)
(* A PeerTx is identified with the connection that made it (same_channel). *)
(* A key is the `sender' string a message is signed as; two keys may be    *)
(* spellings of one identity, whose hex peer_id both derive.  Of the rooms *)
(* (module SfuRooms) only who is a participant of one room is kept.  The   *)
(* messages a task drops (rate limit, signature, freshness, replay: module *)
(* ReplayGuard) leave this state alone; the queue behind a PeerTx is       *)
(* module PeerQueue.                                                       *)
(***************************************************************************)
EXTENDS Integers, FiniteSets, Maps

CONSTANTS
  Key,                \* public_id spellings
  PeerId,             \* hex peer_ids
  peer_id_alias_for,  \* public_id -> hex peer_id
  Socket,             \* WebSocket connections
  Stream,             \* QUIC signaling streams
  None

ASSUME AliasAssumption == peer_id_alias_for \in [Key -> PeerId]
ASSUME NoneAssumption == None \notin Key

VARIABLES
  peer_sockets,     \* public_id -> socket
  peer_id_aliases,  \* hex peer_id -> public_id
  connected_count,
  quic_senders,     \* public_id -> stream
  ws,               \* socket -> its task
  stream,           \* stream -> its task
  participants      \* identities in the room

tables == <<peer_sockets, peer_id_aliases, connected_count>>
vars == <<tables, quic_senders, ws, stream, participants>>

Kind == {"join", "leave", "other"}

\* `peer_id' is the sender the socket registered as, `sender' and `kind' the
\* message being handled.
WsTask == [pc      : {"unused", "reading", "deliver", "closing", "disconnect", "done"},
           peer_id : Key \cup {None},
           sender  : Key \cup {None},
           kind    : Kind]

StreamTask == [pc : {"unused", "open", "done"}, peer_id : Key \cup {None}]

TypeOK ==
  /\ peer_sockets \in HashMap(Key, Socket)
  /\ peer_id_aliases \in HashMap(PeerId, Key)
  /\ connected_count \in Nat
  /\ quic_senders \in HashMap(Key, Stream)
  /\ ws \in [Socket -> WsTask]
  /\ stream \in [Stream -> StreamTask]
  /\ participants \in SUBSET PeerId

Init ==
  /\ peer_sockets = EmptyMap
  /\ peer_id_aliases = EmptyMap
  /\ connected_count = 0
  /\ quic_senders = EmptyMap
  /\ ws = [s \in Socket |-> [pc |-> "unused", peer_id |-> None, sender |-> None, kind |-> "other"]]
  /\ stream = [x \in Stream |-> [pc |-> "unused", peer_id |-> None]]
  /\ participants = {}

-----------------------------------------------------------------------------
(* Methods of SignalingState.                                              *)

identity_key_variants(k) == {j \in Key : peer_id_alias_for[j] = peer_id_alias_for[k]}

\* The sockets a target may resolve to: by any spelling of the public id, or
\* by the hex peer id.  The empty set is None.
socket_for_target(t) ==
  IF t \in Key
  THEN {peer_sockets[k] : k \in identity_key_variants(t) \cap DOMAIN peer_sockets}
  ELSE {peer_sockets[peer_id_aliases[p]] :
          p \in {p \in DOMAIN peer_id_aliases \cap {t} : peer_id_aliases[p] \in DOMAIN peer_sockets}}

\* Mutant: the aliases outlive the socket.
remove_peer_socketKeepAlias(k) ==
  peer_sockets' = Without(peer_sockets, {k}) /\ UNCHANGED peer_id_aliases

remove_peer_socket(k) ==
  /\ peer_sockets' = Without(peer_sockets, {k})
  /\ peer_id_aliases' =
       Without(peer_id_aliases, {p \in DOMAIN peer_id_aliases : peer_id_aliases[p] = k})

\* Mutant: a reconnecting peer is counted again.
RegisterCountsAgain(s, k) ==
  /\ peer_sockets' = Put(peer_sockets, k, s)
  /\ peer_id_aliases' = Put(peer_id_aliases, peer_id_alias_for[k], k)
  /\ connected_count' = connected_count + 1

\* A socket's first message registers it under its sender; a reconnecting peer
\* replaces its previous socket and is not counted again.
Register(s, k) ==
  /\ peer_sockets' = Put(peer_sockets, k, s)
  /\ peer_id_aliases' = Put(peer_id_aliases, peer_id_alias_for[k], k)
  /\ connected_count' = IF k \in DOMAIN peer_sockets THEN connected_count ELSE connected_count + 1

-----------------------------------------------------------------------------
(* handle_ws_connection.                                                   *)

Accept(s) ==
  /\ ws[s].pc = "unused"
  /\ ws' = [ws EXCEPT ![s].pc = "reading"]
  /\ UNCHANGED <<tables, quic_senders, stream, participants>>

\* Mutant: every new sender registers the socket.
ReadRegistersAnySender(s, k, kind) ==
  /\ ws[s].pc = "reading"
  /\ ws' = [ws EXCEPT ![s] = [pc |-> "deliver", peer_id |-> k, sender |-> k, kind |-> kind]]
  /\ IF ws[s].peer_id # k THEN Register(s, k) ELSE UNCHANGED tables
  /\ UNCHANGED <<quic_senders, stream, participants>>

\* A message of k passed the checks; only the first one registers the socket.
Read(s, k, kind) ==
  /\ ws[s].pc = "reading"
  /\ ws' = [ws EXCEPT ![s] = [pc      |-> "deliver",
                             peer_id |-> IF @.peer_id = None THEN k ELSE @.peer_id,
                             sender  |-> k,
                             kind    |-> kind]]
  /\ IF ws[s].peer_id = None THEN Register(s, k) ELSE UNCHANGED tables
  /\ UNCHANGED <<quic_senders, stream, participants>>

\* handler.on_message, as far as the room goes.
Deliver(s) ==
  LET p == peer_id_alias_for[ws[s].sender] IN
  /\ ws[s].pc = "deliver"
  /\ ws' = [ws EXCEPT ![s] = [pc |-> "reading", peer_id |-> @.peer_id, sender |-> None,
                             kind |-> "other"]]
  /\ participants' = CASE ws[s].kind = "join"  -> participants \cup {p}
                       [] ws[s].kind = "leave" -> participants \ {p}
                       [] OTHER                -> participants
  /\ UNCHANGED <<tables, quic_senders, stream>>

\* The peer closed or lost the connection, or its writer exited.
Hangup(s) ==
  /\ ws[s].pc = "reading"
  /\ ws' = [ws EXCEPT ![s].pc = "closing"]
  /\ UNCHANGED <<tables, quic_senders, stream, participants>>

\* Mutant: the cleanup goes by the peer, not by the channel.
is_oursByPeer(s) == ws[s].peer_id \in DOMAIN peer_sockets

\* The check in front of the cleanup, made under the same lock.
is_ours(s) ==
  ws[s].peer_id \in DOMAIN peer_sockets /\ peer_sockets[ws[s].peer_id] = s

\* saturating_sub(1)
Unregister(s) ==
  /\ ws[s].pc = "closing"
  /\ IF is_ours(s)
     THEN /\ remove_peer_socket(ws[s].peer_id)
          /\ connected_count' = IF connected_count = 0 THEN 0 ELSE connected_count - 1
          /\ ws' = [ws EXCEPT ![s].pc = "disconnect"]
     ELSE /\ ws' = [ws EXCEPT ![s].pc = "done"]
          /\ UNCHANGED tables
  /\ UNCHANGED <<quic_senders, stream, participants>>

\* replay_guard.forget_peer and handler.on_peer_disconnected, without the lock.
Disconnected(s) ==
  /\ ws[s].pc = "disconnect"
  /\ participants' = participants \ {peer_id_alias_for[ws[s].peer_id]}
  /\ ws' = [ws EXCEPT ![s].pc = "done"]
  /\ UNCHANGED <<tables, quic_senders, stream>>

-----------------------------------------------------------------------------
(* handle_relay_signaling_stream.                                          *)

register_quic_sender(x, k) ==
  /\ stream[x].pc = "unused"
  /\ stream' = [stream EXCEPT ![x] = [pc |-> "open", peer_id |-> k]]
  /\ quic_senders' = Put(quic_senders, k, x)
  /\ UNCHANGED <<tables, ws, participants>>

unregister_quic_sender(x) ==
  /\ stream[x].pc = "open"
  /\ stream' = [stream EXCEPT ![x].pc = "done"]
  /\ quic_senders' = Without(quic_senders, {k \in {stream[x].peer_id} \cap DOMAIN quic_senders :
                                              quic_senders[k] = x})
  /\ UNCHANGED <<tables, ws, participants>>

-----------------------------------------------------------------------------

SocketStep(s) ==
  \/ Accept(s)
  \/ \E k \in Key, kind \in Kind : Read(s, k, kind)
  \/ Deliver(s)
  \/ Hangup(s)
  \/ Unregister(s)
  \/ Disconnected(s)

StreamStep(x) ==
  \/ \E k \in Key : register_quic_sender(x, k)
  \/ unregister_quic_sender(x)

Next ==
  \/ \E s \in Socket : SocketStep(s)
  \/ \E x \in Stream : StreamStep(x)

Spec == Init /\ [][Next]_vars

-----------------------------------------------------------------------------
(* Properties.                                                             *)

\* connected_count is the number of peers in the table at every moment, however
\* reconnects and exits of replaced sockets interleave; the saturating
\* subtraction of the cleanup never saturates.
CountExact == connected_count = Cardinality(DOMAIN peer_sockets)

\* A hex peer_id leads to a socket of its own identity, and never to a key that
\* is gone: aliases and sockets are removed together.
HexResolvesToOwner ==
  \A p \in DOMAIN peer_id_aliases :
    /\ peer_id_aliases[p] \in DOMAIN peer_sockets
    /\ peer_id_alias_for[peer_id_aliases[p]] = p

\* Whatever is registered belongs to a task that is still running and that will
\* unregister it: no exit order of old and new connections of a peer leaves a
\* dead socket or stream behind in the tables.
RegisteredIsServed ==
  /\ \A k \in DOMAIN peer_sockets :
       /\ ws[peer_sockets[k]].peer_id = k
       /\ ws[peer_sockets[k]].pc \in {"reading", "deliver", "closing"}
  /\ \A k \in DOMAIN quic_senders :
       stream[quic_senders[k]].pc = "open" /\ stream[quic_senders[k]].peer_id = k

\* The late exit of a connection never unregisters a newer one of the same
\* peer: an entry leaves a table only when its own task exits.
OnlyOwnExitUnregisters ==
  [][/\ \A k \in DOMAIN peer_sockets \ DOMAIN peer_sockets' :
          ws'[peer_sockets[k]].pc = "disconnect"
     /\ \A k \in DOMAIN quic_senders \ DOMAIN quic_senders' :
          stream'[quic_senders[k]].pc = "done"]_vars

-----------------------------------------------------------------------------
(* What a comment says and the code does not do.                           *)

\* "only remove socket if it's still ours (not replaced by a newer connection)"
\* (the cleanup), "Called when a peer disconnects" (on_peer_disconnected): the
\* handler does not take a peer out of its room that is connected over a newer
\* socket.
DisconnectedMeansGone ==
  [][\A s \in Socket :
       /\ ws[s].pc = "disconnect" /\ ws'[s].pc = "done"
       /\ peer_id_alias_for[ws[s].peer_id] \in participants
       => socket_for_target(ws[s].peer_id) = {}]_vars
=============================================================================
