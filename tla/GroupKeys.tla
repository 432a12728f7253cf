------------------------------ MODULE GroupKeys -----------------------------
(***************************************************************************)
(* End-to-end keys of one room: SenderKeysGroup (conquerd-client           *)
(* group_key.rs) and the keyer election, distribution, acknowledgement and *)
(* recovery around it (connection_manager/manager/room_session.rs and      *)
(* inbound.rs).  Every action is one message or timer tick that a client's *)
(* connection manager handles to its end; the supernodes relay.            *)
(*                                                                         *)
(* A client is its rank in the order of un-padded public ids.  A key is    *)
(* the number of its minting.  A supernode handles every client's messages *)
(* in a task of that client's socket: it changes the room and tells the    *)
(* others of the change, then reads the roster under the lock and sends it *)
(* to one member after the other without the lock, so that the rosters of  *)
(* two tasks reach a member in either order.  What has been sent over one  *)
(* link is read in order.  Sealed keys and acknowledgements may overtake   *)
(* each other and may be lost, and a frame is any sealed content: voice,   *)
(* chat, video or a file chunk.                                            *)
(***************************************************************************)
EXTENDS Integers, Sequences, FiniteSets, Maps

CONSTANTS
  Client,                \* a set of naturals, ordered as the public ids are
  Founders,              \* clients in the room at the start, see Init
  Server,                \* supernodes of the cluster that host the room
  RING,                  \* 256: an epoch is a u8
  MAX_EPOCH_ADVANCE,     \* 64
  MAX_RETAINED_EPOCHS,   \* 4
  GROUP_KEY_MAX_ATTEMPTS,\* 16
  MaxMinted,             \* bounds of the model: keys minted,
  MaxChurn,              \*   joins and leaves,
  MaxLost,               \*   keys and acknowledgements lost,
  MaxLate                \*   receivers that broadcasts under way still owe a roster

ASSUME RoomAssumption ==
  /\ Client \subseteq Nat
  /\ Founders \subseteq Client
  /\ Server # {}
ASSUME EpochAssumption ==
  /\ RING \in Nat \ {0, 1}
  /\ MAX_EPOCH_ADVANCE \in Nat
  /\ MAX_RETAINED_EPOCHS \in Nat \ {0, 1}
  /\ GROUP_KEY_MAX_ATTEMPTS \in Nat \ {0}
ASSUME BoundAssumption ==
  /\ MaxMinted \in Nat \ {0, 1}
  /\ MaxChurn \in Nat
  /\ MaxLost \in Nat
  /\ MaxLate \in Nat

VARIABLES
  present,  \* server -> clients in its room (participants and subscribers)
  voice,    \* server -> the participants among them
  linked,   \* server -> clients with a connection to it
  handler,  \* server -> client -> what the task of its socket still owes
  client,   \* client -> its room_group_members, group state and pending acks
  inbox,    \* client -> server -> rosters and notices on their way to it
  net,      \* sealed keys, acknowledgements and frames in flight
  minted,   \* for every key so far, who minted it and to whom it sealed it
  churn,    \* joins and leaves so far
  lost      \* messages lost so far

room == <<present, voice, linked, handler>>
vars == <<present, voice, linked, handler, client, inbox, net, minted, churn, lost>>

Epoch == 0 .. RING - 1
Key == 1 .. MaxMinted
NoEpoch == -1

\* Maps are told by their keys and values: their set is too large to list.
IsMap(f, K, V) == DOMAIN f \subseteq K /\ \A k \in DOMAIN f : f[k] \in V

\* `known': there is an entry for the room.
IsGroupState(g) ==
  /\ g.known \in BOOLEAN
  /\ g.current \in Epoch
  /\ g.seen_high \in Epoch \cup {NoEpoch}
  /\ IsMap(g.keys, Epoch, Key)

PendingGroupKeyAck == [epoch : Epoch, attempts : 1 .. GROUP_KEY_MAX_ATTEMPTS]

\* SfuMembers tells a whole roster, the other two of one client.
Notice == [type : {"SfuMembers", "SfuPeerJoined", "SfuPeerLeft"}, of : SUBSET Client]

\* A task that has to announce the room (`due'), has the roster `of' still to
\* send to those in `late', and will then handle the client's SfuSubscribe.
Handler == [due : BOOLEAN, late : SUBSET Client, of : SUBSET Client, subscribe : BOOLEAN]

Message == [type : {"SfuGroupKey", "SfuGroupKeyAck"},
            from : Client, to : Client, epoch : Epoch, key : Key]

TypeOK ==
  /\ present \in [Server -> SUBSET Client]
  /\ voice \in [Server -> SUBSET Client]
  /\ linked \in [Server -> SUBSET Client]
  /\ handler \in [Server -> [Client -> Handler]]
  /\ \A c \in Client :
       /\ client[c].members \in [Server -> SUBSET Client]
       /\ IsGroupState(client[c].group)
       /\ IsMap(client[c].pending, Client, PendingGroupKeyAck)
       /\ inbox[c] \in [Server -> Seq(Notice)]
  /\ net \subseteq Message
  /\ minted \in Seq([by : Client, to : SUBSET Client])
  /\ Len(minted) <= MaxMinted
  /\ churn \in 0 .. MaxChurn
  /\ lost \in 0 .. MaxLost

-----------------------------------------------------------------------------
(* GroupState and SenderKeysGroup.                                         *)

Wrap(n) == n % RING
Higher(a, b) == IF a >= b THEN a ELSE b

NoGroup == [known |-> FALSE, current |-> 0, seen_high |-> NoEpoch, keys |-> EmptyMap]

has_keys(g) == DOMAIN g.keys # {}

note_seen(g, e) == [g EXCEPT !.known = TRUE, !.seen_high = Higher(g.seen_high, e)]

\* The retained epochs: the lowest-numbered go while there are too many.
Retained(epochs) ==
  {e \in epochs : Cardinality({f \in epochs : f > e}) < MAX_RETAINED_EPOCHS}

install(g, e, k) ==
  LET keys == Put(g.keys, e, k) IN
  note_seen([g EXCEPT !.current = e,
                      !.keys = Without(keys, DOMAIN keys \ Retained(DOMAIN keys))], e)

next_epoch(g) == Wrap(Higher(g.seen_high, g.current) + 1)

\* A first key starts at 0, or above what has been seen of the room.
new_owner_epoch(g, k) ==
  install([NoGroup EXCEPT !.seen_high = g.seen_high], IF g.known THEN next_epoch(g) ELSE 0, k)

rotate(g, k) == IF g.known THEN install(g, next_epoch(g), k) ELSE new_owner_epoch(g, k)

is_behind(g) == g.seen_high # NoEpoch /\ g.seen_high \notin DOMAIN g.keys

\* Without real keys only the deterministic key of epoch 0 is left, which
\* seals nothing that is sent (may_send_room_e2e_content).
epoch_key(g, e) == IF e \in DOMAIN g.keys THEN {g.keys[e]} ELSE {}
current_key(g) == epoch_key(g, g.current)

-----------------------------------------------------------------------------
(* The election and the conditions of room_session.rs, at client c in      *)
(* state st.                                                               *)

union_members(st) == UNION {st.members[s] : s \in Server}

is_elected_keyer(members, c) == c \in members /\ \A m \in members : c <= m

Elected(c, st) == is_elected_keyer(union_members(st) \cup {c}, c)

\* Mutant: any epoch ahead or behind is accepted.
accept_group_key_epochAny(g, offered) == has_keys(g) => offered \in Epoch

accept_group_key_epoch(g, offered) ==
  has_keys(g) => Wrap(offered - g.current) <= MAX_EPOCH_ADVANCE

accept_group_key_from(c, st, sender, e) ==
  /\ is_elected_keyer(union_members(st) \cup {c, sender}, sender)
  /\ accept_group_key_epoch(st.group, e)

\* Mutant: only a sender one epoch behind is resealed.
should_reseal_to_lagging_memberOne(g, e, aged) ==
  Wrap(g.current - e) = 1 /\ aged

\* `aged': the epoch has been current for a whole distribution window.
should_reseal_to_lagging_member(g, e, aged) ==
  Wrap(g.current - e) \in 1 .. MAX_EPOCH_ADVANCE /\ aged

\* distribute_group_key: the acknowledgements then awaited, and what is sent.
Awaiting(pending, e, members) ==
  [m \in DOMAIN pending \cup members |->
     IF m \notin members THEN pending[m]
     ELSE [epoch |-> e,
           attempts |-> IF m \in DOMAIN pending THEN pending[m].attempts + 1 ELSE 1]]

Sealed(c, m, e, k) ==
  [type |-> "SfuGroupKey", from |-> c, to |-> m, epoch |-> e, key |-> k]

-----------------------------------------------------------------------------
(* A handler's outcome: the client's new state, what it sends, whether it  *)
(* minted a key.                                                           *)

Outcome(st, out, mint) == [st |-> st, out |-> out, mint |-> mint]

NextKey == Len(minted) + 1

\* distribute_group_key of the current epoch of st, with its key k, to `members'.
Distribute(c, st, k, members, mint) ==
  Outcome([st EXCEPT !.pending = Awaiting(@, st.group.current, members)],
          {Sealed(c, m, st.group.current, k) : m \in members}, mint)

\* Mutant: the new epoch also goes to whoever still owes an acknowledgement.
RekeyPending(c, st) ==
  Distribute(c, [st EXCEPT !.group = rotate(@, NextKey), !.pending = EmptyMap],
             NextKey, union_members(st) \cup DOMAIN st.pending, 1)

\* Rotate, forget what was pending and seal the new epoch to everyone.
Rekey(c, st) ==
  Distribute(c, [st EXCEPT !.group = rotate(@, NextKey), !.pending = EmptyMap],
             NextKey, union_members(st), 1)

\* sync_room_membership with the roster of server s.
sync_room_membership(c, st, s, members) ==
  LET st1   == [st EXCEPT !.members[s] = members \ {c}]
      old   == union_members(st)
      new   == union_members(st1)
      kept  == [st1 EXCEPT !.pending = Without(@, Client \ new)]
      keyed == has_keys(st.group)
  IN IF ~Elected(c, st1)
     THEN Outcome([st1 EXCEPT !.pending = EmptyMap], {}, 0)
     ELSE IF ~keyed /\ new # {}
     THEN Distribute(c, [kept EXCEPT !.group = new_owner_epoch(@, NextKey)], NextKey, new, 1)
     ELSE IF keyed /\ old \ new # {}
     THEN Rekey(c, st1)
     ELSE IF keyed /\ new \ old # {} /\ current_key(st.group) # {}
     THEN Distribute(c, kept, st.group.keys[st.group.current], new \ old, 0)
     ELSE Outcome(kept, {}, 0)

rekey_room_if_behind(c, st) ==
  IF is_behind(st.group) /\ Elected(c, st) /\ union_members(st) # {}
  THEN Rekey(c, st)
  ELSE Outcome(st, {}, 0)

\* reseal_to_lagging_member, for a frame of `sender' sealed under epoch e.
reseal_to_lagging_member(c, st, sender, e, aged) ==
  IF /\ has_keys(st.group)
     /\ should_reseal_to_lagging_member(st.group, e, aged)
     /\ sender \in union_members(st)
     /\ Elected(c, st)
     /\ ~(sender \in DOMAIN st.pending /\ st.pending[sender].epoch = st.group.current)
     /\ current_key(st.group) # {}
  THEN Distribute(c, [st EXCEPT !.pending = Without(@, {sender})],
                  st.group.keys[st.group.current], {sender}, 0)
  ELSE Outcome(st, {}, 0)

\* A frame that cannot be opened is evidence of the room's epoch; any frame of
\* an older epoch is evidence that its sender was left behind.
OnFrame(c, st, m, aged) ==
  LET opened == epoch_key(st.group, m.epoch) = {m.key}
      rekeyed == rekey_room_if_behind(c, [st EXCEPT !.group = note_seen(@, m.epoch)])
      after  == IF opened THEN Outcome(st, {}, 0) ELSE rekeyed
      reseal == reseal_to_lagging_member(c, after.st, m.from, m.epoch, aged /\ after.mint = 0)
  IN Outcome(reseal.st, after.out \cup reseal.out, after.mint)

OnGroupKey(c, st, m) ==
  IF accept_group_key_from(c, st, m.from, m.epoch)
  THEN Outcome([st EXCEPT !.group = install(@, m.epoch, m.key)],
               {[type |-> "SfuGroupKeyAck", from |-> c, to |-> m.from,
                 epoch |-> m.epoch, key |-> m.key]}, 0)
  ELSE Outcome(st, {}, 0)

OnGroupKeyAck(c, st, m) ==
  IF m.from \in DOMAIN st.pending /\ st.pending[m.from].epoch = m.epoch
  THEN Outcome([st EXCEPT !.pending = Without(@, {m.from})], {}, 0)
  ELSE Outcome(st, {}, 0)

\* retry_pending_group_keys: hopeless entries are dropped, those of `due' whose
\* interval has passed are sealed again, unless their key is gone.
Hopeless(c, st) ==
  {m \in DOMAIN st.pending :
     \/ m \notin union_members(st)
     \/ ~Elected(c, st)
     \/ st.pending[m].attempts >= GROUP_KEY_MAX_ATTEMPTS}

retry_pending_group_keys(c, st, due) ==
  LET live    == DOMAIN st.pending \ Hopeless(c, st)
      keyless == {m \in due \cap live : epoch_key(st.group, st.pending[m].epoch) = {}}
      resend  == (due \cap live) \ keyless
      st1     == [st EXCEPT !.pending =
                    [m \in live \ keyless |->
                       [st.pending[m] EXCEPT !.attempts = IF m \in resend THEN @ + 1 ELSE @]]]
  IN Outcome(st1, {Sealed(c, m, st.pending[m].epoch, st.group.keys[st.pending[m].epoch])
                     : m \in resend}, 0)

-----------------------------------------------------------------------------

Idle == [members |-> [s \in Server |-> {}], group |-> NoGroup, pending |-> EmptyMap]

Free == [due |-> FALSE, late |-> {}, of |-> {}, subscribe |-> FALSE]

Least(S) == CHOOSE c \in S : \A d \in S : c <= d

\* Either an empty room, or one whose first keyer has left: its founders hold
\* the epoch 0 it minted and the epoch 1 that replaced it.
Init ==
  /\ present = [s \in Server |-> Founders]
  /\ voice = [s \in Server |-> Founders]
  /\ linked = [s \in Server |-> Founders]
  /\ handler = [s \in Server |-> [c \in Client |-> Free]]
  /\ client = [c \in Client |->
                 IF c \in Founders
                 THEN [members |-> [s \in Server |-> Founders \ {c}],
                       group |-> install(install(NoGroup, 0, 1), 1, 2),
                       pending |-> EmptyMap]
                 ELSE Idle]
  /\ inbox = [c \in Client |-> [s \in Server |-> <<>>]]
  /\ net = {}
  /\ minted = IF Founders = {} THEN <<>>
              ELSE <<[by |-> Least(Client), to |-> Client \ {Least(Client)}],
                     [by |-> Least(Founders), to |-> Founders \ {Least(Founders)}]>>
  /\ churn = 0
  /\ lost = 0

\* The client takes the outcome; `consumed' are the messages it handled.
Take(c, outcome, consumed) ==
  /\ Len(minted) + outcome.mint <= MaxMinted
  /\ client' = [client EXCEPT ![c] = outcome.st]
  /\ net' = (net \ consumed) \cup outcome.out
  /\ LET all == IF outcome.mint = 0 THEN minted ELSE Append(minted, [by |-> c, to |-> {}])
     IN minted' = [k \in DOMAIN all |->
          [all[k] EXCEPT !.to = @ \cup {m.to : m \in
             {o \in outcome.out : o.type = "SfuGroupKey" /\ o.key = k /\ all[k].by = c}}]]

-----------------------------------------------------------------------------
(* The supernodes.  A client's next message waits for its task to be done  *)
(* with the last one.                                                      *)

\* Server s sends mail[d] to every d it is addressed to.
Post(s, mail) ==
  [d \in Client |-> [t \in Server |->
     IF t = s /\ d \in DOMAIN mail THEN Append(inbox[d][t], mail[d]) ELSE inbox[d][t]]]

Roster(s) == [type |-> "SfuMembers", of |-> present[s]]

Announcing(s, c) == [handler EXCEPT ![s][c] = [Free EXCEPT !.due = TRUE]]

\* handle_sfu_join: the joiner is sent the roster, the participants a notice.
Join(c, s) ==
  /\ churn < MaxChurn
  /\ c \notin voice[s] /\ handler[s][c] = Free
  /\ present' = [present EXCEPT ![s] = @ \cup {c}]
  /\ voice' = [voice EXCEPT ![s] = @ \cup {c}]
  /\ linked' = [linked EXCEPT ![s] = @ \cup {c}]
  /\ inbox' = Post(s, [d \in voice[s] \cup {c} |->
                         IF d = c THEN Roster(s)' ELSE [type |-> "SfuPeerJoined", of |-> {c}]])
  /\ handler' = Announcing(s, c)
  /\ churn' = churn + 1
  /\ UNCHANGED <<client, net, minted, lost>>

\* handle_sfu_subscribe, for a text-only member.
Subscribe(c, s) ==
  /\ churn < MaxChurn
  /\ c \notin present[s] /\ handler[s][c] = Free
  /\ present' = [present EXCEPT ![s] = @ \cup {c}]
  /\ linked' = [linked EXCEPT ![s] = @ \cup {c}]
  /\ handler' = Announcing(s, c)
  /\ churn' = churn + 1
  /\ UNCHANGED <<voice, client, inbox, net, minted, lost>>

\* Server s takes c out of the room, and c's task is to announce it.
Depart(c, s, subscribe) ==
  /\ present' = [present EXCEPT ![s] = @ \ {c}]
  /\ voice' = [voice EXCEPT ![s] = @ \ {c}]
  /\ handler' = [handler EXCEPT ![s][c] = [Free EXCEPT !.due = TRUE, !.subscribe = subscribe]]

Left(c) == [type |-> "SfuPeerLeft", of |-> {c}]

\* The client forgets the room's keys and its members on server s.
Forgetting(st, s) ==
  [st EXCEPT !.members[s] = {}, !.group = NoGroup, !.pending = EmptyMap]

\* LeaveRoom: the client forgets, unless the room's chat stays active; then it
\* keeps everything and its SfuSubscribe follows the SfuLeave.
LeaveRoom(c, s, keep_chat) ==
  /\ churn < MaxChurn
  /\ c \in voice[s] /\ handler[s][c] = Free
  /\ Depart(c, s, keep_chat)
  /\ inbox' = Post(s, [d \in voice[s] \ {c} |-> Left(c)])
  /\ client' = IF keep_chat THEN client
               ELSE [client EXCEPT ![c] = Forgetting(@, s)]
  /\ churn' = churn + 1
  /\ UNCHANGED <<linked, net, minted, lost>>

Resubscribe(c, s) ==
  /\ handler[s][c] = [Free EXCEPT !.subscribe = TRUE]
  /\ present' = [present EXCEPT ![s] = @ \cup {c}]
  /\ handler' = Announcing(s, c)
  /\ UNCHANGED <<voice, linked, client, inbox, net, minted, churn, lost>>

UnsubscribeRoomChat(c, s) ==
  /\ churn < MaxChurn
  /\ c \in present[s] \ voice[s] /\ handler[s][c] = Free
  /\ Depart(c, s, FALSE)
  /\ client' = [client EXCEPT ![c] = Forgetting(@, s)]
  /\ churn' = churn + 1
  /\ UNCHANGED <<linked, inbox, net, minted, lost>>

\* The link is lost.  The supernode drops the client (on_peer_disconnected); the
\* client keeps its keys and rosters (WsDisconnected), not what was unread.
LoseLink(c, s) ==
  /\ churn < MaxChurn
  /\ c \in present[s] /\ ~handler[s][c].due /\ handler[s][c].late = {}
  /\ Depart(c, s, FALSE)
  /\ linked' = [linked EXCEPT ![s] = @ \ {c}]
  /\ inbox' = [Post(s, [d \in voice[s] \ {c} |-> Left(c)]) EXCEPT ![c][s] = <<>>]
  /\ churn' = churn + 1
  /\ UNCHANGED <<client, net, minted, lost>>

\* The client's process ends once its links are gone: the keys were in memory.
Exit(c) ==
  /\ client[c] # Idle
  /\ \A s \in Server : c \notin linked[s]
  /\ client' = [client EXCEPT ![c] = Idle]
  /\ UNCHANGED <<present, voice, linked, handler, inbox, net, minted, churn, lost>>

\* The task's rest when the roster `of' is still to go to those in `late'.
Owing(of, late, subscribe) ==
  [due |-> FALSE, late |-> late, of |-> IF late = {} THEN {} ELSE of, subscribe |-> subscribe]

Owed == {r \in Server \X Client \X Client : r[3] \in handler[r[1]][r[2]].late}

\* broadcast_sfu_members in the task of c: the roster is read once; those in
\* `late' are sent it later.
Broadcast(c, s, late) ==
  /\ handler[s][c].due
  /\ late \subseteq present[s]
  /\ Cardinality(Owed) + Cardinality(late) <= MaxLate
  /\ inbox' = Post(s, [d \in present[s] \ late |-> Roster(s)])
  /\ handler' = [handler EXCEPT ![s][c] = Owing(present[s], late, @.subscribe)]
  /\ UNCHANGED <<present, voice, linked, client, net, minted, churn, lost>>

\* send_signed to one of them, over the link it has by now, if any.
SendLate(c, s, d) ==
  LET h == handler[s][c] IN
  /\ d \in h.late
  /\ inbox' = Post(s, [x \in {d} \cap linked[s] |-> [type |-> "SfuMembers", of |-> h.of]])
  /\ handler' = [handler EXCEPT ![s][c] = Owing(h.of, h.late \ {d}, h.subscribe)]
  /\ UNCHANGED <<present, voice, linked, client, net, minted, churn, lost>>

-----------------------------------------------------------------------------
(* The clients.                                                            *)

\* Client c reads the next notice of server s, which tells it that the room's
\* members are `members'.
Sync(c, s, members) ==
  /\ Take(c, sync_room_membership(c, client[c], s, members), {})
  /\ inbox' = [inbox EXCEPT ![c][s] = Tail(@)]
  /\ UNCHANGED <<room, churn, lost>>

Reads(c, s, type) == inbox[c][s] # <<>> /\ Head(inbox[c][s]).type = type

SfuMembers(c, s) ==
  /\ Reads(c, s, "SfuMembers")
  /\ Sync(c, s, Head(inbox[c][s]).of)

SfuPeerJoined(c, s) ==
  /\ Reads(c, s, "SfuPeerJoined")
  /\ Sync(c, s, client[c].members[s] \cup Head(inbox[c][s]).of)

SfuPeerLeft(c, s) ==
  /\ Reads(c, s, "SfuPeerLeft")
  /\ Sync(c, s, client[c].members[s] \ Head(inbox[c][s]).of)

SfuGroupKey(c, m) ==
  /\ m.type = "SfuGroupKey" /\ m.to = c
  /\ Take(c, OnGroupKey(c, client[c], m), {m})
  /\ UNCHANGED <<room, inbox, churn, lost>>

SfuGroupKeyAck(c, m) ==
  /\ m.type = "SfuGroupKeyAck" /\ m.to = c
  /\ Take(c, OnGroupKeyAck(c, client[c], m), {m})
  /\ UNCHANGED <<room, inbox, churn, lost>>

Frame(c) ==
  LET g == client[c].group IN
  [from |-> c, epoch |-> g.current, key |-> g.keys[g.current]]

\* Client c seals content under its current epoch and the room fans it out;
\* here client d takes it in, its own epoch `aged' or not.
SfuContent(c, d, aged) ==
  /\ c # d
  /\ \E s \in Server : {c, d} \subseteq present[s]
  /\ current_key(client[c].group) # {}
  /\ Take(d, OnFrame(d, client[d], Frame(c), aged), {})
  /\ UNCHANGED <<room, inbox, churn, lost>>

\* The 750 ms timer, whatever is still under way; `due' was last sent an interval
\* ago.
RetryTick(c, due) ==
  /\ DOMAIN client[c].pending # {}
  /\ Take(c, retry_pending_group_keys(c, client[c], due), {})
  /\ UNCHANGED <<room, inbox, churn, lost>>

Lose(m) ==
  /\ lost < MaxLost
  /\ net' = net \ {m}
  /\ lost' = lost + 1
  /\ UNCHANGED <<room, client, inbox, minted, churn>>

Next ==
  \/ \E c \in Client, s \in Server :
       \/ Join(c, s) \/ Subscribe(c, s) \/ Resubscribe(c, s)
       \/ \E keep_chat \in BOOLEAN : LeaveRoom(c, s, keep_chat)
       \/ UnsubscribeRoomChat(c, s) \/ LoseLink(c, s)
       \/ \E late \in SUBSET Client : Broadcast(c, s, late)
       \/ \E d \in Client : SendLate(c, s, d)
       \/ SfuMembers(c, s) \/ SfuPeerJoined(c, s) \/ SfuPeerLeft(c, s)
  \/ \E c \in Client :
       \/ Exit(c)
       \/ \E d \in Client, aged \in BOOLEAN : SfuContent(c, d, aged)
       \/ \E due \in SUBSET DOMAIN client[c].pending : RetryTick(c, due)
  \/ \E m \in net : SfuGroupKey(m.to, m) \/ SfuGroupKeyAck(m.to, m) \/ Lose(m)

Spec == Init /\ [][Next]_vars

-----------------------------------------------------------------------------
(* Properties.                                                             *)

InRoom == UNION {present[s] : s \in Server}

CurrentKey(c) == current_key(client[c].group)

\* Nothing is under way, no distribution is waiting, and no frame that a member
\* could send another now would make its receiver rekey or reseal.
Quiescent ==
  /\ \A c \in Client, s \in Server : inbox[c][s] = <<>> /\ handler[s][c] = Free
  /\ \A c \in Client : client[c].pending = EmptyMap
  /\ net = {}
  /\ \A c, d \in InRoom :
       /\ c # d /\ CurrentKey(c) # {}
       /\ \E s \in Server : {c, d} \subseteq present[s]
       => OnFrame(d, client[d], Frame(c), TRUE).out = {}

\* Everyone is on every supernode of the room and counts everybody else there.
Informed ==
  \A s \in Server :
    /\ present[s] = InRoom
    /\ \A c \in InRoom : client[c].members[s] = InRoom \ {c}

\* The recovery of inbound.rs and room_session.rs is never out of moves while a
\* member seals under another epoch than the keyer, or under any while the keyer
\* has none, whatever mix of restarts of the keyer, handovers, refused offers,
\* lost keys, late rosters and given-up distributions led there.  It needs
\* members that know of each other (a stale roster may come last, see
\* SameKeyerForAll) and epochs that have not wrapped.
NoEpochWedge ==
  Quiescent /\ Informed =>
    \A c \in InRoom : CurrentKey(c) # {} =>
      LET keyer == Least(InRoom) IN
      /\ CurrentKey(keyer) # {}
      /\ client[c].group.current = client[keyer].group.current

\* What broadcast_sfu_members promises of rosters: "Sent to every chat recipient
\* so all of them compute the same keyer over the same set."  The members of a
\* room at rest have one view of it.
SameKeyerForAll == Quiescent => Informed

\* What the epochs of reseal_to_lagging_member do not show: members at rest
\* that know of each other all have a key, and the same one.
OneKeyAtRest ==
  Quiescent /\ Informed /\ Cardinality(InRoom) > 1 =>
    \A c, d \in InRoom : CurrentKey(c) # {} /\ CurrentKey(c) = CurrentKey(d)

\* Forward secrecy of a keyer's own keys: while it is the elected keyer, the
\* key it minted and seals with has gone to nobody but those it still counts
\* as members: a departure it has read of has rotated the key away from the
\* departed member, retries and reseals included.
EpochConfined ==
  \A c \in Client : \A k \in CurrentKey(c) :
    minted[k].by = c /\ Elected(c, client[c]) =>
      minted[k].to \subseteq union_members(client[c])

\* After n keys, the window above any epoch in use still ends inside the ring.
Unwrapped(n) == n + MAX_EPOCH_ADVANCE <= RING

\* A client's epoch does not fall, as long as epoch numbers have not wrapped,
\* unless it forgets the room's keys, which it does only when it leaves the room
\* on a supernode or ends.
Ascends ==
  Unwrapped(Len(minted')) =>
    \A c \in Client :
      \/ client[c].group.current <= client'[c].group.current
      \/ /\ client'[c].group = NoGroup
         /\ \/ \E s \in Server : c \in present[s] /\ c \notin present'[s]
            \/ \A s \in Server : c \notin linked[s]

\* No rollback of the room's epoch (accept_group_key_epoch, next_epoch): a client
\* that keeps the room's keys never seals under an earlier epoch than before,
\* whatever old keys the network still delivers and whoever takes over as keyer,
\* until the u8 epochs have wrapped.
EpochAscends == [][Ascends]_vars

\* What the SfuPeerLeft handler's comment says of every key: "A departure ->
\* rotate the epoch key and reseal to those who remain (forward secrecy +
\* post-compromise security) if we're the elected keyer".  An elected keyer
\* that knows who is left seals under no key that a departed client holds.
ForwardSecrecy ==
  \A c \in InRoom : \A k \in CurrentKey(c) :
    Elected(c, client[c]) /\ union_members(client[c]) \subseteq InRoom =>
      (minted[k].to \cup {minted[k].by}) \subseteq InRoom
=============================================================================
