----------------------------- MODULE ReplayGuard ----------------------------
(***************************************************************************)
(* The sliding-window replay guard (conquerd-features/src/replay.rs) and   *)
(* the two pipelines of the supernode that consult it before a message is  *)
(* routed: the WebSocket read loop (handle_ws_connection) and the QUIC     *)
(* signaling stream (accept_signed), both in signaling.rs.                 *)
(*                                                                         *)
(* A message is a model value that stands for its signature; the network   *)
(* may deliver any message any number of times on either transport.  Wall  *)
(* clock and Instant are one clock `now'.  `accepted' and `accepted_at'    *)
(* are history: how often the message was routed since the guard last      *)
(* forgot its sender (0, 1 or many), and when it was first.                *)
(***************************************************************************)
EXTENDS Integers, FiniteSets, Maps

CONSTANTS
  Sender,
  Msg,                     \* signed messages
  sender_of,               \* message -> Sender
  kind_of,                 \* message -> Kind
  timestamp,               \* message -> the time its sender signed it
  WindowSecs,              \* DEFAULT_REPLAY_WINDOW_SECS, also the freshness limit
  MAX_ENTRIES_PER_SENDER,
  MaxTime                  \* the clock stops here (bound of the model)

Kind == {"control", "audio", "file"}

ASSUME MsgAssumption ==
  /\ IsFiniteSet(Msg)
  /\ sender_of \in [Msg -> Sender]
  /\ kind_of \in [Msg -> Kind]
  /\ timestamp \in [Msg -> Nat]
ASSUME WindowAssumption ==
  /\ WindowSecs \in Nat
  /\ MAX_ENTRIES_PER_SENDER \in Nat
  /\ MaxTime \in Nat

VARIABLES now, windows, accepted, accepted_at

guard_vars == <<now, windows, accepted, accepted_at>>

GuardTypeOK ==
  /\ now \in Nat
  /\ DOMAIN windows \subseteq Sender
  /\ \A s \in DOMAIN windows : /\ DOMAIN windows[s] \subseteq Msg
                              /\ \A m \in DOMAIN windows[s] : windows[s][m] \in Nat
  /\ accepted \in [Msg -> {0, 1, 2}]
  /\ accepted_at \in [Msg -> Nat]

GuardInit ==
  /\ now = 0
  /\ windows = EmptyMap
  /\ accepted = [m \in Msg |-> 0]
  /\ accepted_at = [m \in Msg |-> 0]

-----------------------------------------------------------------------------

\* Mutant: the freshness check is looser than the window.
is_freshLoose(m) ==
  /\ now - timestamp[m] <= WindowSecs + 1
  /\ timestamp[m] - now <= WindowSecs

\* is_fresh(300): the timestamp may lie behind or ahead of the clock.
is_fresh(m) ==
  /\ now - timestamp[m] <= WindowSecs
  /\ timestamp[m] - now <= WindowSecs

\* What the guard remembers of s; a sender it does not track has no entries.
Seen(s) == IF s \in DOMAIN windows THEN windows[s] ELSE EmptyMap

prune(seen) == Without(seen, {m \in DOMAIN seen : now - seen[m] > WindowSecs})

Remembered(m) == m \in DOMAIN prune(Seen(sender_of[m]))

\* Mutant: off by one.
AtCapacityLate(m) ==
  Cardinality(DOMAIN prune(Seen(sender_of[m]))) > MAX_ENTRIES_PER_SENDER

AtCapacity(m) ==
  Cardinality(DOMAIN prune(Seen(sender_of[m]))) >= MAX_ENTRIES_PER_SENDER

Accept(m) ==
  /\ accepted' = [accepted EXCEPT ![m] = IF @ = 0 THEN 1 ELSE 2]
  /\ accepted_at' = IF accepted[m] = 0 THEN [accepted_at EXCEPT ![m] = now] ELSE accepted_at

\* Mutant: a full window makes room by forgetting what it holds.
check_and_recordEvicting(m) ==
  LET s    == sender_of[m]
      kept == prune(Seen(s))
  IN IF Remembered(m)
     THEN windows' = Put(windows, s, kept) /\ UNCHANGED <<accepted, accepted_at>>
     ELSE /\ windows' = Put(windows, s, Put(IF AtCapacity(m) THEN EmptyMap ELSE kept, m, now))
          /\ Accept(m)

\* check_and_record: the window is pruned in any case; a remembered signature
\* and a full window refuse the message.
check_and_record(m) ==
  LET s    == sender_of[m]
      kept == prune(Seen(s))
  IN IF Remembered(m) \/ AtCapacity(m)
     THEN windows' = Put(windows, s, kept) /\ UNCHANGED <<accepted, accepted_at>>
     ELSE windows' = Put(windows, s, Put(kept, m, now)) /\ Accept(m)

\* The WebSocket read loop: room audio and bulk file data bypass the guard.
ReceiveWs(m) ==
  /\ is_fresh(m)
  /\ IF kind_of[m] = "control"
     THEN check_and_record(m)
     ELSE Accept(m) /\ UNCHANGED windows
  /\ UNCHANGED now

\* accept_signed: every kind goes through the guard.
ReceiveQuic(m) ==
  /\ is_fresh(m)
  /\ check_and_record(m)
  /\ UNCHANGED now

\* forget_peer, when the sender's WebSocket is gone.
ForgetPeer(s) ==
  /\ s \in DOMAIN windows
  /\ windows' = Without(windows, {s})
  /\ accepted' = [m \in Msg |-> IF sender_of[m] = s THEN 0 ELSE accepted[m]]
  /\ UNCHANGED <<now, accepted_at>>

Tick ==
  /\ now < MaxTime
  /\ now' = now + 1
  /\ UNCHANGED <<windows, accepted, accepted_at>>

GuardNext ==
  \/ \E m \in Msg : ReceiveWs(m) \/ ReceiveQuic(m)
  \/ \E s \in Sender : ForgetPeer(s)
  \/ Tick

GuardSpec == GuardInit /\ [][GuardNext]_guard_vars

-----------------------------------------------------------------------------
(* Properties.                                                             *)

\* A control message whose timestamp was not ahead of the supernode's clock is
\* routed at most once until its sender disconnects, on whichever transport
\* its copies arrive: as long as the freshness check lets a copy pass, the
\* window still remembers the first one.
RoutedAtMostOnce ==
  \A m \in Msg :
    kind_of[m] = "control" /\ timestamp[m] <= accepted_at[m] => accepted[m] <= 1

\* The per-sender table never outgrows its cap.
WindowBounded ==
  \A s \in DOMAIN windows : Cardinality(DOMAIN windows[s]) <= MAX_ENTRIES_PER_SENDER

\* Fail closed: an entry still inside the window is never evicted to make
\* room; only the sender's disconnect drops it.
NoLiveEntryEvicted ==
  [][\A s \in DOMAIN windows \cap DOMAIN windows' :
       \A m \in DOMAIN windows[s] :
         now' - windows[s][m] <= WindowSecs =>
           m \in DOMAIN windows'[s] /\ windows'[s][m] = windows[s][m]]_guard_vars
=============================================================================
