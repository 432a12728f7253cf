---------------------------- MODULE RoomFailover ----------------------------
(* A client that voices in a room of a supernode cluster: the sessions of    *)
(* its connection manager (room_session.rs, mod.rs, inbound.rs, routing.rs,  *)
(* ws.rs), the failover of the room to a sibling when its host is lost, the  *)
(* retry of joins denied with "room_absent", and the voice scope of the UI   *)
(* (bridge.rs).  The supernodes answer joins as handle_sfu_join does; they   *)
(* crash, lose their rooms, and learn them again from the cluster.           *)
EXTENDS Naturals, Sequences, FiniteSets, Maps

CONSTANTS
  Node,                    \* the members of the cluster
  KnownNode,               \* those in the peer store at first
  Room,
  None,                    \* the empty id
  ROOM_JOIN_MAX_ATTEMPTS,
  SendQueue,               \* capacity of a session's send channel
  MaxFaults,               \* bound: lost links and crashes
  MaxUser                  \* bound: commands of the user

ASSUME FailoverAssumption ==
  /\ KnownNode \subseteq Node
  /\ None \notin Node \cup Room
  /\ ROOM_JOIN_MAX_ATTEMPTS \in Nat /\ SendQueue \in Nat \ {0}
  /\ MaxFaults \in Nat /\ MaxUser \in Nat

VARIABLES
  cm,          \* the connection manager, see CmInit
  cmds,        \* commands of the UI the manager has not taken yet
  inbox,       \* inbox[n]: events of n's WebSocket task, in order
  link,        \* link[n]: "none" (no task), "dialing" or "open"
  up,          \* up[n]: supernode n runs
  hosted,      \* hosted[n]: the rooms materialised on n
  here,        \* here[n]: the rooms of n the client participates in
  exiting,     \* exiting[n]: n has not handled the loss of the client's socket yet
  voice,       \* the UI's voice room: [sn, room]
  known,       \* the supernodes of the peer store: the UI can name them
  established, \* history: the voice room was confirmed, and the user has not
               \* acted, nor the room been denied, since
  resumed,     \* history: a failover took the voice room to another node, and
               \* since then the user has not acted, nor has the new host been
               \* lost or the manager turned to another room
  left,        \* history: the rooms whose last command was a leave
  intact,      \* history: no supernode has been removed by the user, nor dropped
               \* the client for the loss of a socket when the next was open
  faults, used \* how often the bounds MaxFaults and MaxUser were spent

net   == <<link, up, hosted, here, exiting>>
hist  == <<established, resumed, left, intact>>
count == <<faults, used>>
failover_vars  == <<cm, cmds, inbox, net, voice, known, hist, count>>

Nobody == [sn |-> None, room |-> None]

-----------------------------------------------------------------------------
(* The connection manager's fields.  chan[n] is the send channel of n's      *)
(* session: it belongs to the session, not to the connection, so what is in  *)
(* it when the link drops is sent on the next connection.                    *)

CmInit(n, r) ==
  [supernodes |-> [x \in Node |-> "up"],   \* "none", or a session "down"/"up"
   chan       |-> [x \in Node |-> <<>>],
   current    |-> [sn |-> n, room |-> r],  \* current_supernode_id, current_room_id
   failover_in_progress      |-> {},
   failover_pending_room     |-> None,
   pending_failover_rejoin   |-> EmptyMap,
   pending_room_join_retries |-> EmptyMap] \* (node, room) -> attempts

\* The user voices in a room the whole cluster hosts.
FailoverInit ==
  \E n \in KnownNode, r \in Room :
  /\ cm = CmInit(n, r)
  /\ cmds = <<>>
  /\ inbox = [x \in Node |-> <<>>]
  /\ link = [x \in Node |-> "open"]
  /\ up = [x \in Node |-> TRUE]
  /\ hosted = [x \in Node |-> Room]
  /\ here = [x \in Node |-> IF x = n THEN {r} ELSE {}]
  /\ exiting = [x \in Node |-> FALSE]
  /\ voice = [sn |-> n, room |-> r]
  /\ known = KnownNode
  /\ established = TRUE /\ resumed = FALSE /\ left = {} /\ intact = TRUE
  /\ faults = 0 /\ used = 0

Live(m) == {n \in Node : m.supernodes[n] = "up"}

\* resolve_supernode_ws_target: the session of n, or any live sibling's while
\* n is down; without a session (or without a live sibling) n itself.
Routes(m, n) ==
  IF m.supernodes[n] = "down" /\ Live(m) # {} THEN Live(m) ELSE {n}

\* dispatch_outbound to a supernode: dropped unless the session is connected
\* and its channel has room.
Send(m, n, msg) ==
  IF m.supernodes[n] = "up" /\ Len(m.chan[n]) < SendQueue
  THEN [m EXCEPT !.chan[n] = Append(@, msg)]
  ELSE m

Join(r)  == [type |-> "SfuJoin", room |-> r]
Leave(r) == [type |-> "SfuLeave", room |-> r]

send_room_join(m, route, r) ==
  Send(IF m.current.room \in {r, None}
       THEN [m EXCEPT !.current = [sn |-> route, room |-> r]] ELSE m,
       route, Join(r))

DropRetries(m, r) ==
  [m EXCEPT !.pending_room_join_retries =
     Without(@, {k \in DOMAIN @ : k[2] = r})]

Disarm(m, r) ==
  [m EXCEPT !.pending_failover_rejoin = Without(@, {n \in DOMAIN @ : @[n] = r})]

NotPending(m, r) ==
  [m EXCEPT !.failover_pending_room = IF @ = r THEN None ELSE @]

\* The UI follows a room that moved to n, if the peer store knows n.
RoomFailedOver(v, n, r) ==
  IF v.room = r /\ n \in known THEN [v EXCEPT !.sn = n] ELSE v

\* maybe_failover_to_cluster, the set of outcomes: the rejoin is sent to every
\* live sibling (the pointer ends at the last one of the roster, which may be
\* any), the others are armed, and the lost node too when no sibling is live.
maybe_failover_to_cluster(m, n, r) ==
  LET live == Live(m) \ {n}
      cold == (Node \ {n}) \ live
      armed == IF live = {} THEN Node ELSE cold
      m1 == [m EXCEPT
               !.failover_in_progress = @ \cup {n},
               !.current.room = r,
               !.failover_pending_room = IF live # {} THEN r ELSE @,
               !.pending_failover_rejoin =
                  [x \in DOMAIN @ \cup armed |-> IF x \in armed THEN r ELSE @[x]],
               !.supernodes = [x \in Node |-> IF x \in cold /\ @[x] = "none" THEN "down" ELSE @[x]],
               !.chan = [x \in Node |->
                           IF x \in live /\ Len(@[x]) < SendQueue THEN Append(@[x], Join(r)) ELSE @[x]]]
  IN IF r = None \/ n \in m.failover_in_progress \/ Node = {n}
     THEN {m}
     ELSE IF live = {} THEN {m1} ELSE {[m1 EXCEPT !.current.sn = x] : x \in live}

-----------------------------------------------------------------------------
(* The user and the UI.                                                      *)

Command(type, n, r) == [type |-> type, sn |-> n, room |-> r]

\* join_room_with_voice: another voice room is left first.
UserJoin(n, r) ==
  /\ used < MaxUser
  /\ n \in known
  /\ used' = used + 1
  /\ cmds' = cmds \o (IF voice.room # None /\ voice # [sn |-> n, room |-> r]
                      THEN <<Command("LeaveRoom", voice.sn, voice.room)>> ELSE <<>>)
                  \o <<Command("JoinRoom", n, r)>>
  /\ voice' = [sn |-> n, room |-> r]
  /\ established' = FALSE /\ resumed' = FALSE
  /\ UNCHANGED <<cm, inbox, net, left, intact, faults, known>>

\* leave_room.
UserLeave ==
  /\ used < MaxUser
  /\ voice.room # None
  /\ used' = used + 1
  /\ cmds' = Append(cmds, Command("LeaveRoom", voice.sn, voice.room))
  /\ voice' = Nobody
  /\ established' = FALSE /\ resumed' = FALSE
  /\ UNCHANGED <<cm, inbox, net, left, intact, faults, known>>

\* remove_supernode of the UI: n leaves the peer store, and the room on it is left.
UserRemove(n) ==
  /\ used < MaxUser
  /\ n \in known
  /\ used' = used + 1
  /\ known' = known \ {n}
  /\ cmds' = cmds \o (IF voice.sn = n THEN <<Command("LeaveRoom", n, voice.room)>> ELSE <<>>)
                  \o <<Command("RemoveSupernode", n, None)>>
  /\ voice' = IF voice.sn = n THEN Nobody ELSE voice
  /\ established' = FALSE /\ resumed' = FALSE /\ intact' = FALSE
  /\ UNCHANGED <<cm, inbox, net, left, faults>>

-----------------------------------------------------------------------------
(* The manager's run loop: one command, one event, or one timer at a time.   *)

\* ConnectionCommand::JoinRoom.
JoinRoom ==
  LET cmd == Head(cmds) IN
  /\ cmds # <<>> /\ cmd.type = "JoinRoom"
  /\ cmds' = Tail(cmds)
  /\ LET m == [cm EXCEPT !.current = [sn |-> cmd.sn, room |-> cmd.room]]
     IN \E route \in Routes(m, cmd.sn) : cm' = send_room_join(m, route, cmd.room)
  /\ left' = left \ {cmd.room}
  /\ UNCHANGED <<inbox, net, voice, established, resumed, intact, count, known>>

\* ConnectionCommand::LeaveRoom: no retry of the room survives.
LeaveRoom ==
  LET cmd == Head(cmds) IN
  /\ cmds # <<>> /\ cmd.type = "LeaveRoom"
  /\ cmds' = Tail(cmds)
  /\ LET m == DropRetries([cm EXCEPT !.current =
                             IF @ = [sn |-> cmd.sn, room |-> cmd.room] THEN Nobody ELSE @], cmd.room)
     IN \E route \in Routes(m, cmd.sn) : cm' = Send(m, route, Leave(cmd.room))
  /\ left' = left \cup {cmd.room}
  /\ UNCHANGED <<inbox, net, voice, established, resumed, intact, count, known>>

\* ConnectionCommand::RemoveSupernode: the room hosted there is left, over a
\* live sibling if n is down, and the session goes with its task.
RemoveSupernode ==
  LET n == Head(cmds).sn
      hosting == cm.current.sn = n
      m == IF hosting THEN [cm EXCEPT !.current = Nobody] ELSE cm
  IN
  /\ cmds # <<>> /\ Head(cmds).type = "RemoveSupernode"
  /\ cmds' = Tail(cmds)
  /\ \E route \in Routes(m, n) :
       cm' = [IF hosting /\ cm.current.room # None THEN Send(m, route, Leave(cm.current.room)) ELSE m
              EXCEPT !.supernodes[n] = "none", !.chan[n] = <<>>]
  /\ link' = [link EXCEPT ![n] = "none"]
  /\ exiting' = [exiting EXCEPT ![n] = @ \/ link[n] = "open"]
  /\ UNCHANGED <<inbox, up, hosted, here, voice, known, hist, count>>

Event(n, type) == inbox[n] # <<>> /\ Head(inbox[n]).type = type
Taken(n) == [inbox EXCEPT ![n] = Tail(@)]

\* History: r is the room the user is in, no command is waiting, and no answer
\* can come from a session the user has removed or a room n has dropped him from.
Settled(r) == voice.room = r /\ cmds = <<>> /\ intact

SameRoom == cm'.current.room = cm.current.room

\* Mutant: a node that came back is not cleared for a later failover.
WsConnectedStillFailing(n) ==
  LET m0 == [cm EXCEPT !.supernodes[n] = IF @ = "none" THEN @ ELSE "up"] IN
  /\ Event(n, "WsConnected")
  /\ inbox' = Taken(n)
  /\ IF n \in DOMAIN m0.pending_failover_rejoin
     THEN LET r == m0.pending_failover_rejoin[n]
              m == [NotPending(Disarm(m0, r), r) EXCEPT !.current = [sn |-> n, room |-> r]]
          IN /\ cm' = send_room_join(m, n, r)
             /\ voice' = RoomFailedOver(voice, n, r)
             /\ resumed' = (Settled(r) \/ (resumed /\ SameRoom))
     ELSE cm' = m0 /\ UNCHANGED <<voice, resumed>>
  /\ UNCHANGED <<cmds, net, established, left, intact, count, known>>

\* InternalEvent::WsConnected: an armed node takes the room over.
WsConnected(n) ==
  LET m0 == [cm EXCEPT !.supernodes[n] = IF @ = "none" THEN @ ELSE "up",
                       !.failover_in_progress = @ \ {n}] IN
  /\ Event(n, "WsConnected")
  /\ inbox' = Taken(n)
  /\ IF n \in DOMAIN m0.pending_failover_rejoin
     THEN LET r == m0.pending_failover_rejoin[n]
              m == [NotPending(Disarm(m0, r), r) EXCEPT !.current = [sn |-> n, room |-> r]]
          IN /\ cm' = send_room_join(m, n, r)
             /\ voice' = RoomFailedOver(voice, n, r)
             /\ resumed' = (Settled(r) \/ (resumed /\ SameRoom))
     ELSE cm' = m0 /\ UNCHANGED <<voice, resumed>>
  /\ UNCHANGED <<cmds, net, established, left, intact, count, known>>

\* InternalEvent::WsDisconnected: the room hosted on n fails over; the dial of
\* a sibling without a session starts its task.  The UI leaves its room once
\* no member of the cluster is connected and n was its host.
WsDisconnected(n) ==
  LET lost == IF cm.current.sn = n THEN cm.current.room ELSE None
      m0 == [cm EXCEPT !.supernodes[n] = IF @ = "none" THEN @ ELSE "down",
                       !.current = IF cm.current.sn = n THEN Nobody ELSE @]
      uiLeaves == Live(m0) = {} /\ voice.sn = n /\ voice.room # None
  IN
  /\ Event(n, "WsDisconnected")
  /\ inbox' = Taken(n)
  /\ cm' \in maybe_failover_to_cluster(m0, n, lost)
  /\ link' = [x \in Node |->
                IF cm.supernodes[x] = "none" /\ cm'.supernodes[x] = "down" THEN "dialing" ELSE link[x]]
  /\ cmds' = IF uiLeaves THEN Append(cmds, Command("LeaveRoom", n, voice.room)) ELSE cmds
  /\ voice' = IF uiLeaves THEN Nobody ELSE voice
  /\ established' = (established /\ ~uiLeaves)
  /\ resumed' = (resumed /\ lost = None /\ ~uiLeaves)
  /\ UNCHANGED <<up, hosted, here, exiting, left, intact, count, known>>

\* Mutant: a confirmed fan-out leaves the cold siblings armed.
SfuMembersStillArmed(n) ==
  LET r == Head(inbox[n]).room
      confirms == cm.failover_pending_room = r
      m == DropRetries(cm, r)
  IN
  /\ Event(n, "SfuMembers")
  /\ inbox' = Taken(n)
  /\ cm' = IF confirms
           THEN [NotPending(m, r) EXCEPT !.current = [sn |-> n, room |-> r]]
           ELSE m
  /\ voice' = IF confirms THEN RoomFailedOver(voice, n, r) ELSE voice
  /\ established' = (established \/ (Settled(r) /\ cm'.current = [sn |-> n, room |-> r]))
  /\ resumed' = ((Settled(r) /\ confirms) \/ (resumed /\ SameRoom))
  /\ UNCHANGED <<cmds, net, left, intact, count, known>>

\* SfuMembers for room r: the first answer to a fan-out decides where the room
\* is resumed.
SfuMembers(n) ==
  LET r == Head(inbox[n]).room
      confirms == cm.failover_pending_room = r
      m == DropRetries(cm, r)
  IN
  /\ Event(n, "SfuMembers")
  /\ inbox' = Taken(n)
  /\ cm' = IF confirms
           THEN [NotPending(Disarm(m, r), r) EXCEPT !.current = [sn |-> n, room |-> r]]
           ELSE m
  /\ voice' = IF confirms THEN RoomFailedOver(voice, n, r) ELSE voice
  /\ established' = (established \/ (Settled(r) /\ cm'.current = [sn |-> n, room |-> r]))
  /\ resumed' = ((Settled(r) /\ confirms) \/ (resumed /\ SameRoom))
  /\ UNCHANGED <<cmds, net, left, intact, count, known>>

\* What every denial of room r by n undoes.
Denied(n, r) ==
  NotPending(Disarm([cm EXCEPT !.current =
                       IF @.room = r /\ @.sn \in {n, None} THEN Nobody ELSE @], r), r)

\* A retry that is armed already keeps its count.
ArmRetry(retries, k) == IF k \in DOMAIN retries THEN retries ELSE Put(retries, k, 0)

\* SfuJoinResult, denied: room_absent is retried, any other reason is shown.
SfuJoinResult(n) ==
  LET e == Head(inbox[n])
      m == Denied(n, e.room)
      shown == e.reason # "room_absent"
  IN
  /\ Event(n, "SfuJoinResult")
  /\ inbox' = Taken(n)
  /\ cm' = IF shown THEN m
           ELSE [m EXCEPT !.pending_room_join_retries = ArmRetry(@, <<n, e.room>>)]
  /\ voice' = IF shown /\ voice = [sn |-> n, room |-> e.room] THEN Nobody ELSE voice
  /\ established' = (established /\ voice.room # e.room)
  /\ resumed' = (resumed /\ voice.room # e.room)
  /\ UNCHANGED <<cmds, net, left, intact, count, known>>

\* retry_pending_room_joins, one entry: dropped without a session, given up
\* after the last attempt, otherwise sent again once its backoff is over.
RetryStale(n, r) ==
  /\ <<n, r>> \in DOMAIN cm.pending_room_join_retries
  /\ cm.supernodes[n] = "none"
  /\ cm' = [cm EXCEPT !.pending_room_join_retries = Without(@, {<<n, r>>})]
  /\ UNCHANGED <<cmds, inbox, net, voice, hist, count, known>>

RetryGiveUp(n, r) ==
  /\ <<n, r>> \in DOMAIN cm.pending_room_join_retries
  /\ cm.supernodes[n] # "none"
  /\ cm.pending_room_join_retries[<<n, r>>] >= ROOM_JOIN_MAX_ATTEMPTS
  /\ cm' = [cm EXCEPT !.pending_room_join_retries = Without(@, {<<n, r>>})]
  /\ voice' = IF voice = [sn |-> n, room |-> r] THEN Nobody ELSE voice
  /\ established' = (established /\ voice.room # r)
  /\ resumed' = (resumed /\ voice.room # r)
  /\ UNCHANGED <<cmds, inbox, net, left, intact, count, known>>

RetrySend(n, r) ==
  /\ <<n, r>> \in DOMAIN cm.pending_room_join_retries
  /\ cm.supernodes[n] # "none"
  /\ cm.pending_room_join_retries[<<n, r>>] < ROOM_JOIN_MAX_ATTEMPTS
  /\ LET m == [cm EXCEPT !.pending_room_join_retries[<<n, r>>] = @ + 1]
     IN \E route \in Routes(m, n) : cm' = send_room_join(m, route, r)
  /\ UNCHANGED <<cmds, inbox, net, voice, hist, count, known>>

-----------------------------------------------------------------------------
(* The WebSocket tasks and the supernodes.                                   *)

Emit(n, e) == inbox' = [inbox EXCEPT ![n] = Append(@, e)]

\* The dial succeeds.  The new socket replaces one whose end n has not noticed,
\* unless that one is unregistered and its on_peer_disconnected still to come.
Dial(n) ==
  /\ link[n] = "dialing" /\ up[n]
  /\ link' = [link EXCEPT ![n] = "open"]
  /\ \E replaced \in BOOLEAN : exiting' = [exiting EXCEPT ![n] = @ /\ ~replaced]
  /\ Emit(n, [type |-> "WsConnected"])
  /\ UNCHANGED <<cm, cmds, up, hosted, here, voice, hist, count, known>>

\* The dial fails: reported like a lost session, then tried again.  (Reported
\* once per step of the manager, which bounds the inbox.)
DialFails(n) ==
  /\ link[n] = "dialing"
  /\ inbox[n] = <<>>
  /\ faults < MaxFaults
  /\ faults' = faults + 1
  /\ Emit(n, [type |-> "WsDisconnected"])
  /\ UNCHANGED <<cm, cmds, net, voice, hist, used, known>>

\* A link is lost (or redialed after a network change): the first k messages
\* of the channel had been written to it.
Lose(n, k) ==
  /\ link[n] = "open"
  /\ k \in 0..Len(cm.chan[n])
  /\ link' = [link EXCEPT ![n] = "dialing"]
  /\ cm' = [cm EXCEPT !.chan[n] = SubSeq(@, k + 1, Len(@))]
  /\ Emit(n, [type |-> "WsDisconnected"])

LinkLost(n) ==
  /\ faults < MaxFaults
  /\ faults' = faults + 1
  /\ \E k \in 0..SendQueue : Lose(n, k)
  /\ exiting' = [exiting EXCEPT ![n] = TRUE]
  /\ UNCHANGED <<cmds, up, hosted, here, voice, hist, used, known>>

\* The supernode drops the client: the lost socket is unregistered and its
\* on_peer_disconnected run, which may be after the client is back.
Forget(n) ==
  LET late == link[n] = "open" /\ here[n] # {} IN
  /\ exiting[n]
  /\ exiting' = [exiting EXCEPT ![n] = FALSE]
  /\ here' = [here EXCEPT ![n] = {}]
  /\ established' = (established /\ ~late) /\ intact' = (intact /\ ~late)
  /\ UNCHANGED <<cm, cmds, inbox, link, up, hosted, voice, resumed, left, count, known>>

\* A supernode stops, and its links with it.  Rooms are kept in memory only.
Crash(n) ==
  /\ faults < MaxFaults
  /\ up[n]
  /\ faults' = faults + 1
  /\ up' = [up EXCEPT ![n] = FALSE]
  /\ hosted' = [hosted EXCEPT ![n] = {}]
  /\ here' = [here EXCEPT ![n] = {}]
  /\ exiting' = [exiting EXCEPT ![n] = FALSE]
  /\ IF link[n] = "open"
     THEN \E k \in 0..SendQueue : Lose(n, k)
     ELSE UNCHANGED <<link, cm, inbox>>
  /\ UNCHANGED <<cmds, voice, hist, used, known>>

Restart(n) ==
  /\ ~up[n]
  /\ up' = [up EXCEPT ![n] = TRUE]
  /\ UNCHANGED <<cm, cmds, inbox, link, hosted, here, exiting, voice, hist, count, known>>

\* A room reaches n through the cluster's RoomRoster, or is created there.
Materialise(n, r) ==
  /\ up[n]
  /\ r \notin hosted[n]
  /\ hosted' = [hosted EXCEPT ![n] = @ \cup {r}]
  /\ UNCHANGED <<cm, cmds, inbox, link, up, here, exiting, voice, hist, count, known>>

\* handle_sfu_join and handle_sfu_leave for the oldest message of the client.
HandleJoin(n) ==
  LET msg == Head(cm.chan[n]) IN
  /\ link[n] = "open" /\ cm.chan[n] # <<>>
  /\ msg.type = "SfuJoin"
  /\ cm' = [cm EXCEPT !.chan[n] = Tail(@)]
  /\ IF msg.room \in hosted[n]
     THEN /\ here' = [here EXCEPT ![n] = @ \cup {msg.room}]
          /\ Emit(n, [type |-> "SfuMembers", room |-> msg.room])
     ELSE /\ UNCHANGED here
          /\ Emit(n, [type |-> "SfuJoinResult", room |-> msg.room, reason |-> "room_absent"])
  /\ UNCHANGED <<cmds, link, up, hosted, exiting, voice, hist, count, known>>

\* The room is hosted but full, or does not admit the client.
RefuseJoin(n) ==
  LET msg == Head(cm.chan[n]) IN
  /\ link[n] = "open" /\ cm.chan[n] # <<>>
  /\ msg.type = "SfuJoin" /\ msg.room \in hosted[n]
  /\ faults < MaxFaults
  /\ faults' = faults + 1
  /\ cm' = [cm EXCEPT !.chan[n] = Tail(@)]
  /\ Emit(n, [type |-> "SfuJoinResult", room |-> msg.room, reason |-> "not_allowed"])
  /\ UNCHANGED <<cmds, net, voice, hist, used, known>>

HandleLeave(n) ==
  LET msg == Head(cm.chan[n]) IN
  /\ link[n] = "open" /\ cm.chan[n] # <<>>
  /\ msg.type = "SfuLeave"
  /\ cm' = [cm EXCEPT !.chan[n] = Tail(@)]
  /\ here' = [here EXCEPT ![n] = @ \ {msg.room}]
  /\ UNCHANGED <<cmds, inbox, link, up, hosted, exiting, voice, hist, count, known>>

-----------------------------------------------------------------------------

Manager ==
  \/ JoinRoom \/ LeaveRoom \/ RemoveSupernode
  \/ \E n \in Node : \/ WsConnected(n) \/ WsDisconnected(n)
                     \/ SfuMembers(n) \/ SfuJoinResult(n)

Timer == \E n \in Node, r \in Room : RetryStale(n, r) \/ RetryGiveUp(n, r) \/ RetrySend(n, r)

Network(n) == Dial(n) \/ HandleJoin(n) \/ HandleLeave(n) \/ Restart(n)

FailoverNext ==
  \/ Manager \/ Timer
  \/ UserLeave
  \/ \E n \in Node :
       \/ Network(n) \/ DialFails(n) \/ LinkLost(n) \/ Forget(n) \/ Crash(n)
       \/ RefuseJoin(n) \/ UserRemove(n)
       \/ \E r \in Room : UserJoin(n, r) \/ Materialise(n, r)

FailoverSpec == FailoverInit /\ [][FailoverNext]_failover_vars

\* The run loop takes every command and event, the timer ticks every 250 ms,
\* tasks redial for ever, a supernode reads its sockets and is restarted, and
\* rosters are gossiped every few seconds.
FairFailoverSpec ==
  /\ FailoverSpec
  /\ WF_failover_vars(JoinRoom \/ LeaveRoom \/ RemoveSupernode)
  /\ \A n \in Node :
       /\ WF_failover_vars(WsConnected(n) \/ WsDisconnected(n) \/ SfuMembers(n) \/ SfuJoinResult(n))
       /\ WF_failover_vars(Network(n))
       /\ \A r \in Room :
            WF_failover_vars(RetryStale(n, r) \/ RetryGiveUp(n, r) \/ RetrySend(n, r))

-----------------------------------------------------------------------------
(* Properties.                                                               *)

\* A room that was confirmed and then lost is resumed: unless the user acts, a
\* supernode denies the room or drops the client for a socket that it has
\* replaced (which nobody tells it, see DisconnectedMeansGone), the client ends up at a node whose session is
\* up and that counts it as a participant, however many hosts are lost in
\* between (maybe_failover_to_cluster, WsConnected, SfuMembers).
Seated ==
  /\ cm.current.room = voice.room
  /\ cm.current.sn # None
  /\ voice.room \in here[cm.current.sn]

RoomResumes == established ~> (Seated \/ ~established)

\* A room that a failover has resumed on one node is not taken by another that
\* comes back ("disarm the rest so a later reconnect doesn't seize the room a
\* second time", WsConnected; "a successful fan-out also disarms these on
\* confirmation", maybe_failover_to_cluster).
NoHijack ==
  [][\A n \in Node : WsConnected(n) /\ resumed /\ SameRoom => cm'.current = cm.current]_failover_vars

\* mod.rs: "An intentional leave outranks any in-flight room_absent retry for
\* this room - don't let the retry timer rejoin a room we just walked away from."
LeaveOutranksRetry ==
  [][\A n \in Node, r \in Room : RetrySend(n, r) => r \notin left]_failover_vars
=============================================================================
