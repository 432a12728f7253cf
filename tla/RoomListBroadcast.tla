-------------------------- MODULE RoomListBroadcast -------------------------
(***************************************************************************)
(* How the supernode tells its peers about its rooms (main.rs): join,      *)
(* leave, disconnect and the idle GC change the room set and then call     *)
(* broadcast_room_list, which marks the list dirty and wakes the           *)
(* coalescer; the coalescer sleeps, clears the mark and sends every        *)
(* connected trusted peer a list it reads afresh.  A peer is also answered *)
(* directly, when it connects and when it asks.  Four other paths change   *)
(* the rooms and tell nobody: room creation, an invite or a space proof    *)
(* that materialises or opens a room, and a roster gossiped by the cluster.*)
(*                                                                         *)
(* The room set is its version, a number that every change raises;         *)
(* `noted' is the latest version a broadcast was called for.  Every        *)
(* sender of a list reads the rooms under the SFU's lock, releases it and  *)
(* then queues the list for the peer, so two senders may queue theirs in   *)
(* the other order.  All peers are trusted here; a queue keeps its order   *)
(* (module PeerQueue), so what counts is the order of queueing.            *)
(***************************************************************************)
EXTENDS Integers

CONSTANTS
  Peer,
  Handler,     \* tasks that change the rooms and say so: join, leave, disconnect, idle GC
  MaxVersion,  \* changes stop here (bound of the model)
  None

ASSUME VersionAssumption == MaxVersion \in Nat
ASSUME NoneAssumption == None \notin Peer

VARIABLES
  version,          \* of the SFU's room set
  noted,            \* the version of the latest change that broadcast_room_list follows
  room_list_dirty,
  permit,           \* the permit stored in room_list_notify
  handler,          \* handler -> where it stands in its change
  coalescer,        \* the coalescing task
  connected,        \* connected_peer_ids
  answer,           \* peer -> the direct answer its own task is giving
  newest            \* peer -> the highest version queued on this connection

coalescing == <<room_list_dirty, permit>>
rooms_of_sfu == <<version, noted>>
vars == <<rooms_of_sfu, coalescing, handler, coalescer, connected, answer, newest>>

Version == 0 .. MaxVersion

\* `todo' are the peers the flush has still to serve, `to' and `rooms' the one
\* it is serving and what it read for it.
Coalescer == [pc    : {"waiting", "sleeping", "flushing", "sending"},
              todo  : SUBSET Peer,
              to    : Peer \cup {None},
              rooms : Version]

Answer == [pc : {"idle", "read", "send"}, rooms : Version]

TypeOK ==
  /\ version \in Version
  /\ noted \in Version
  /\ room_list_dirty \in BOOLEAN
  /\ permit \in BOOLEAN
  /\ handler \in [Handler -> {"idle", "store", "notify"}]
  /\ coalescer \in Coalescer
  /\ connected \in SUBSET Peer
  /\ answer \in [Peer -> Answer]
  /\ newest \in [Peer -> Version]

Init ==
  /\ version = 0
  /\ noted = 0
  /\ room_list_dirty = FALSE
  /\ permit = FALSE
  /\ handler = [h \in Handler |-> "idle"]
  /\ coalescer = [pc |-> "waiting", todo |-> {}, to |-> None, rooms |-> 0]
  /\ connected = {}
  /\ answer = [p \in Peer |-> [pc |-> "idle", rooms |-> 0]]
  /\ newest = [p \in Peer |-> 0]

-----------------------------------------------------------------------------
(* A change of the rooms, then broadcast_room_list.                        *)

Change(h) ==
  /\ handler[h] = "idle"
  /\ version < MaxVersion
  /\ version' = version + 1
  /\ noted' = version + 1
  /\ handler' = [handler EXCEPT ![h] = "store"]
  /\ UNCHANGED <<coalescing, coalescer, connected, answer, newest>>

\* A change that nobody is told of: handle_sfu_room_create, an admission by
\* invite or by space proof, apply_room_roster.
ChangeSilently ==
  /\ version < MaxVersion
  /\ version' = version + 1
  /\ UNCHANGED <<noted, coalescing, handler, coalescer, connected, answer, newest>>

\* Mutants: the wake-up comes before the mark.
NotifyFirst(h) ==
  /\ handler[h] = "store"
  /\ permit' = TRUE
  /\ handler' = [handler EXCEPT ![h] = "notify"]
  /\ UNCHANGED <<rooms_of_sfu, room_list_dirty, coalescer, connected, answer, newest>>

StoreLast(h) ==
  /\ handler[h] = "notify"
  /\ room_list_dirty' = TRUE
  /\ handler' = [handler EXCEPT ![h] = "idle"]
  /\ UNCHANGED <<rooms_of_sfu, permit, coalescer, connected, answer, newest>>

MarkNotifyFirst(h) == NotifyFirst(h) \/ StoreLast(h)

StoreDirty(h) ==
  /\ handler[h] = "store"
  /\ room_list_dirty' = TRUE
  /\ handler' = [handler EXCEPT ![h] = "notify"]
  /\ UNCHANGED <<rooms_of_sfu, permit, coalescer, connected, answer, newest>>

NotifyOne(h) ==
  /\ handler[h] = "notify"
  /\ permit' = TRUE
  /\ handler' = [handler EXCEPT ![h] = "idle"]
  /\ UNCHANGED <<rooms_of_sfu, room_list_dirty, coalescer, connected, answer, newest>>

broadcast_room_list(h) == StoreDirty(h) \/ NotifyOne(h)

-----------------------------------------------------------------------------
(* The coalescing task.                                                    *)

Wake ==
  /\ coalescer.pc = "waiting"
  /\ permit
  /\ permit' = FALSE
  /\ coalescer' = [coalescer EXCEPT !.pc = "sleeping"]
  /\ UNCHANGED <<rooms_of_sfu, room_list_dirty, handler, connected, answer, newest>>

\* After ROOM_LIST_COALESCE: swap(false), and the peers connected at this moment.
Swap ==
  /\ coalescer.pc = "sleeping"
  /\ room_list_dirty' = FALSE
  /\ coalescer' = IF room_list_dirty
                  THEN [coalescer EXCEPT !.pc = "flushing", !.todo = connected]
                  ELSE [coalescer EXCEPT !.pc = "waiting"]
  /\ UNCHANGED <<rooms_of_sfu, permit, handler, connected, answer, newest>>

\* broadcast_room_list_now: get_rooms_for_peer, peer by peer.
ReadRooms(p) ==
  /\ coalescer.pc = "flushing"
  /\ p \in coalescer.todo
  /\ coalescer' = [pc |-> "sending", todo |-> coalescer.todo \ {p}, to |-> p, rooms |-> version]
  /\ UNCHANGED <<rooms_of_sfu, coalescing, handler, connected, answer, newest>>

\* The list of version v is queued for p.
Queue(p, v) == newest' = [newest EXCEPT ![p] = IF v > @ THEN v ELSE @]

\* Mutant: a peer that is gone is tried again, for ever.
SendRoomsRetries ==
  /\ coalescer.pc = "sending"
  /\ IF coalescer.to \in connected THEN Queue(coalescer.to, coalescer.rooms) ELSE UNCHANGED newest
  /\ coalescer' = [pc   |-> "flushing", to |-> None, rooms |-> 0,
                   todo |-> coalescer.todo \cup ({coalescer.to} \ connected)]
  /\ UNCHANGED <<rooms_of_sfu, coalescing, handler, connected, answer>>

SendRooms ==
  /\ coalescer.pc = "sending"
  /\ IF coalescer.to \in connected THEN Queue(coalescer.to, coalescer.rooms) ELSE UNCHANGED newest
  /\ coalescer' = [pc |-> "flushing", todo |-> coalescer.todo, to |-> None, rooms |-> 0]
  /\ UNCHANGED <<rooms_of_sfu, coalescing, handler, connected, answer>>

\* Mutant: the mark is cleared when the flush is over.
FlushDoneClearsMark ==
  /\ coalescer.pc = "flushing"
  /\ coalescer.todo = {}
  /\ coalescer' = [coalescer EXCEPT !.pc = "waiting"]
  /\ room_list_dirty' = FALSE
  /\ UNCHANGED <<rooms_of_sfu, permit, handler, connected, answer, newest>>

FlushDone ==
  /\ coalescer.pc = "flushing"
  /\ coalescer.todo = {}
  /\ coalescer' = [coalescer EXCEPT !.pc = "waiting"]
  /\ UNCHANGED <<rooms_of_sfu, coalescing, handler, connected, answer, newest>>

-----------------------------------------------------------------------------
(* The direct answers: on_peer_connected, and a peer that asks             *)
(* (handle_sfu_room_list), both on the peer's own task.                    *)

Connect(p) ==
  /\ p \notin connected
  /\ connected' = connected \cup {p}
  /\ answer' = [answer EXCEPT ![p].pc = "read"]
  /\ newest' = [newest EXCEPT ![p] = 0]
  /\ UNCHANGED <<rooms_of_sfu, coalescing, handler, coalescer>>

Ask(p) ==
  /\ p \in connected
  /\ answer[p].pc = "idle"
  /\ answer' = [answer EXCEPT ![p].pc = "read"]
  /\ UNCHANGED <<rooms_of_sfu, coalescing, handler, coalescer, connected, newest>>

ReadAnswer(p) ==
  /\ answer[p].pc = "read"
  /\ answer' = [answer EXCEPT ![p] = [pc |-> "send", rooms |-> version]]
  /\ UNCHANGED <<rooms_of_sfu, coalescing, handler, coalescer, connected, newest>>

SendAnswer(p) ==
  /\ answer[p].pc = "send"
  /\ Queue(p, answer[p].rooms)
  /\ answer' = [answer EXCEPT ![p] = [pc |-> "idle", rooms |-> 0]]
  /\ UNCHANGED <<rooms_of_sfu, coalescing, handler, coalescer, connected>>

\* The peer's task ends its message loop first.
Disconnect(p) ==
  /\ p \in connected
  /\ answer[p].pc = "idle"
  /\ connected' = connected \ {p}
  /\ UNCHANGED <<rooms_of_sfu, coalescing, handler, coalescer, answer, newest>>

-----------------------------------------------------------------------------

Answering(p) == ReadAnswer(p) \/ SendAnswer(p)

CoalescerStep ==
  \/ Wake
  \/ Swap
  \/ \E p \in Peer : ReadRooms(p)
  \/ SendRooms
  \/ FlushDone

Next ==
  \/ \E h \in Handler : Change(h) \/ broadcast_room_list(h)
  \/ ChangeSilently
  \/ CoalescerStep
  \/ \E p \in Peer : Connect(p) \/ Ask(p) \/ Answering(p) \/ Disconnect(p)

Spec == Init /\ [][Next]_vars

\* Tasks that can run do run; nobody has to change a room, connect or ask.
FairSpec ==
  /\ Spec
  /\ \A h \in Handler : WF_vars(broadcast_room_list(h))
  /\ WF_vars(CoalescerStep)
  /\ \A p \in Peer : WF_vars(Answering(p))

-----------------------------------------------------------------------------
(* Properties.                                                             *)

\* No lost wake-up: a marked list has a flush ahead of it, because the
\* coalescer has yet to look at the mark, holds a permit, or is about to get one.
DirtyNeverStranded ==
  room_list_dirty => permit \/ coalescer.pc = "sleeping" \/ \E h \in Handler : handler[h] = "notify"

Quiescent ==
  /\ \A h \in Handler : handler[h] = "idle"
  /\ coalescer.pc = "waiting" /\ ~ permit
  /\ \A p \in Peer : answer[p].pc = "idle"

\* When all tasks are at rest, every connected peer has been sent a list at
\* least as new as the latest change that broadcast_room_list was called for,
\* and with it every silent change before that one, however changes, flushes,
\* connects and questions overlapped.
QuiescentMeansInformed ==
  Quiescent => \A p \in connected : newest[p] >= noted

\* ... and it does not take another change for that: whoever stays connected is
\* sent every change that a broadcast was called for.
NoNotedChangeLost ==
  \A p \in Peer, v \in 1 .. MaxVersion :
    (p \in connected /\ noted >= v) ~> (newest[p] >= v \/ p \notin connected)

\* "Every room-set change calls this [...] no change is ever lost"
\* (broadcast_room_list).  It does not hold: after a silent change everybody may
\* come to rest on the older list, until the next join, leave, collection,
\* connect or question.
NoChangeEverLost ==
  Quiescent => \A p \in connected : newest[p] = version
=============================================================================
