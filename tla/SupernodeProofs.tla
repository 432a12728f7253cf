--------------------------- MODULE SupernodeProofs --------------------------
(***************************************************************************)
(* The machines beside the supernode's rooms and registry.                 *)
(*                                                                         *)
(* The replay guard, for every set of messages, window length and          *)
(* capacity: duplicates of a message are routed at most once, the window   *)
(* stays bounded, and no entry is evicted while it still matters.          *)
(*                                                                         *)
(* The room list, for every number of peers, handlers and changes: no      *)
(* wake-up of the coalescer is lost, and at rest every connected peer has  *)
(* been sent the current rooms.                                            *)
(*                                                                         *)
(* The links of a cluster, for every set of members, connections and       *)
(* rooms and any number of faults: tables and links agree, and gossip      *)
(* neither loses nor makes up a root or a client's trust.                  *)
(***************************************************************************)
EXTENDS ReplayGuard, RoomListBroadcast, ClusterLink, FiniteSetTheorems, TLAPS

-----------------------------------------------------------------------------
(* The replay guard.                                                       *)

\* The link between what was routed and what the guard remembers: a control
\* message routed within the last window has its entry, dated to that moment.
RoutedIsRemembered ==
  \A m \in Msg :
    kind_of[m] = "control" /\ timestamp[m] <= accepted_at[m] /\ accepted[m] # 0 =>
      /\ accepted[m] = 1
      /\ now - accepted_at[m] <= WindowSecs =>
           /\ sender_of[m] \in DOMAIN windows
           /\ m \in DOMAIN windows[sender_of[m]]
           /\ windows[sender_of[m]][m] = accepted_at[m]

GuardInv == GuardTypeOK /\ RoutedIsRemembered /\ WindowBounded

-----------------------------------------------------------------------------
(* The guard's own step.                                                   *)

\* What the guard holds of a sender is well typed, also before its first message.
LEMMA SeenType ==
  ASSUME GuardTypeOK, NEW s \in Sender
  PROVE  /\ DOMAIN Seen(s) \subseteq Msg
         /\ \A m \in DOMAIN Seen(s) : Seen(s)[m] \in Nat
<1>1. CASE s \in DOMAIN windows
  BY <1>1 DEF GuardTypeOK, Seen
<1>2. CASE s \notin DOMAIN windows
  BY <1>2 DEF Seen, EmptyMap
<1> QED
  BY <1>1, <1>2

\* Pruning keeps exactly the entries of the last window, with their dates.
LEMMA PruneKeeps ==
  ASSUME NEW f
  PROVE  /\ DOMAIN prune(f) = {m \in DOMAIN f : ~ (now - f[m] > WindowSecs)}
         /\ \A m \in DOMAIN prune(f) : prune(f)[m] = f[m]
BY DEF prune, Without

\* check_and_record touches only its sender's window: it keeps every entry of
\* the last window, adds at most the new message dated now, and routes the
\* message only when the window did not remember it.
LEMMA RecordStep ==
  ASSUME GuardTypeOK, NEW m \in Msg, check_and_record(m), NEW s, s = sender_of[m]
  PROVE  /\ DOMAIN windows' = DOMAIN windows \cup {s}
         /\ \A t \in DOMAIN windows \ {s} : windows'[t] = windows[t]
         /\ \A x \in DOMAIN windows'[s] :
              \/ x \in DOMAIN Seen(s) /\ windows'[s][x] = Seen(s)[x]
              \/ x = m /\ windows'[s][x] = now
         /\ \A x \in DOMAIN Seen(s) :
              now - Seen(s)[x] <= WindowSecs =>
                x \in DOMAIN windows'[s] /\ windows'[s][x] = Seen(s)[x]
         /\ \/ UNCHANGED <<accepted, accepted_at>>
            \/ /\ ~ Remembered(m) /\ Accept(m)
               /\ m \in DOMAIN windows'[s] /\ windows'[s][m] = now
<1> DEFINE kept == prune(Seen(s))
<1>s. s \in Sender
  BY MsgAssumption
<1>1. /\ DOMAIN kept = {x \in DOMAIN Seen(s) : ~ (now - Seen(s)[x] > WindowSecs)}
      /\ \A x \in DOMAIN kept : kept[x] = Seen(s)[x]
  BY PruneKeeps
<1>2. \A x \in DOMAIN Seen(s) : now - Seen(s)[x] <= WindowSecs => x \in DOMAIN kept
  <2> SUFFICES ASSUME NEW x \in DOMAIN Seen(s), now - Seen(s)[x] <= WindowSecs
               PROVE  x \in DOMAIN kept
    OBVIOUS
  <2>1. Seen(s)[x] \in Nat /\ now \in Nat /\ WindowSecs \in Nat
    BY <1>s, SeenType, WindowAssumption DEF GuardTypeOK
  <2> QED
    BY <2>1, <1>1
<1> HIDE DEF kept
<1>3. CASE Remembered(m) \/ AtCapacity(m)
  <2>1. windows' = Put(windows, s, kept) /\ UNCHANGED <<accepted, accepted_at>>
    BY <1>3 DEF check_and_record, kept
  <2>2. windows'[s] = kept /\ DOMAIN windows' = DOMAIN windows \cup {s}
    BY <2>1 DEF Put
  <2>3. \A t \in DOMAIN windows \ {s} : windows'[t] = windows[t]
    BY <2>1 DEF Put
  <2> QED
    BY <1>1, <1>2, <2>1, <2>2, <2>3
<1>4. CASE ~ (Remembered(m) \/ AtCapacity(m))
  <2>1. windows' = Put(windows, s, Put(kept, m, now)) /\ Accept(m)
    BY <1>4 DEF check_and_record, kept
  <2>2. windows'[s] = Put(kept, m, now) /\ DOMAIN windows' = DOMAIN windows \cup {s}
    BY <2>1 DEF Put
  <2>3. \A t \in DOMAIN windows \ {s} : windows'[t] = windows[t]
    BY <2>1 DEF Put
  <2>4. /\ DOMAIN windows'[s] = DOMAIN kept \cup {m}
        /\ windows'[s][m] = now
        /\ \A x \in DOMAIN kept \ {m} : windows'[s][x] = kept[x]
    BY <2>2 DEF Put
  <2>5. m \notin DOMAIN kept
    BY <1>4 DEF Remembered, kept
  <2> QED
    BY <1>1, <1>2, <1>4, <2>1, <2>2, <2>3, <2>4, <2>5
<1> QED
  BY <1>3, <1>4

\* A message that the freshness check admits and that was routed before is
\* still in the window, unless its timestamp was ahead of the clock back then.
LEMMA FreshIsRemembered ==
  ASSUME GuardInv, NEW m \in Msg, is_fresh(m), kind_of[m] = "control",
         accepted[m] # 0, timestamp[m] <= accepted_at[m]
  PROVE  Remembered(m)
<1> DEFINE s == sender_of[m]
<1>1. /\ now \in Nat /\ accepted_at[m] \in Nat /\ timestamp[m] \in Nat
      /\ WindowSecs \in Nat
  BY MsgAssumption, WindowAssumption DEF GuardInv, GuardTypeOK
<1>2. now - accepted_at[m] <= WindowSecs
  BY <1>1 DEF is_fresh
<1>3. s \in DOMAIN windows /\ m \in DOMAIN windows[s] /\ windows[s][m] = accepted_at[m]
  BY <1>2 DEF GuardInv, RoutedIsRemembered
<1>4. m \in DOMAIN Seen(s) /\ Seen(s)[m] = accepted_at[m]
  BY <1>3 DEF Seen
<1>5. ~ (now - Seen(s)[m] > WindowSecs)
  BY <1>1, <1>2, <1>4
<1> HIDE DEF s
<1>6. m \in DOMAIN prune(Seen(s))
  BY <1>4, <1>5, PruneKeeps
<1> QED
  BY <1>6 DEF Remembered, s

-----------------------------------------------------------------------------
(* The three parts of the invariant over a step of the guard.              *)

\* A step of the guard leaves its table well typed.
LEMMA RecordType ==
  ASSUME GuardTypeOK, NEW m \in Msg, check_and_record(m), now' = now
  PROVE  GuardTypeOK'
<1> DEFINE s == sender_of[m]
<1>0. s \in Sender /\ now \in Nat
  BY MsgAssumption DEF GuardTypeOK
<1>1. /\ DOMAIN windows' = DOMAIN windows \cup {s}
      /\ \A t \in DOMAIN windows \ {s} : windows'[t] = windows[t]
      /\ \A x \in DOMAIN windows'[s] :
           \/ x \in DOMAIN Seen(s) /\ windows'[s][x] = Seen(s)[x]
           \/ x = m /\ windows'[s][x] = now
      /\ UNCHANGED <<accepted, accepted_at>> \/ Accept(m)
  BY RecordStep
<1>2. /\ DOMAIN Seen(s) \subseteq Msg
      /\ \A x \in DOMAIN Seen(s) : Seen(s)[x] \in Nat
  BY <1>0, SeenType
<1>3. accepted' \in [Msg -> {0, 1, 2}] /\ accepted_at' \in [Msg -> Nat]
  BY <1>0, <1>1 DEF GuardTypeOK, Accept
<1> HIDE DEF s
<1>4. /\ DOMAIN windows'[s] \subseteq Msg
      /\ \A x \in DOMAIN windows'[s] : windows'[s][x] \in Nat
  BY <1>0, <1>1, <1>2
<1>5. \A t \in DOMAIN windows' : /\ DOMAIN windows'[t] \subseteq Msg
                                /\ \A x \in DOMAIN windows'[t] : windows'[t][x] \in Nat
  BY <1>1, <1>4 DEF GuardTypeOK
<1> QED
  BY <1>0, <1>1, <1>3, <1>5 DEF GuardTypeOK

\* A step of the guard keeps the table within its cap.
LEMMA RecordBounded ==
  ASSUME GuardInv, NEW m \in Msg, check_and_record(m)
  PROVE  WindowBounded'
<1> DEFINE s == sender_of[m]
           kept == prune(Seen(s))
<1>0. s \in Sender /\ MAX_ENTRIES_PER_SENDER \in Nat /\ GuardTypeOK /\ WindowBounded
  BY MsgAssumption, WindowAssumption DEF GuardInv
<1>1. DOMAIN Seen(s) \subseteq Msg /\ IsFiniteSet(DOMAIN Seen(s))
  BY <1>0, SeenType, MsgAssumption, FS_Subset
<1>2. Cardinality(DOMAIN Seen(s)) <= MAX_ENTRIES_PER_SENDER
  <2>1. CASE s \in DOMAIN windows
    BY <2>1, <1>0 DEF WindowBounded, Seen
  <2>2. CASE s \notin DOMAIN windows
    <3>1. DOMAIN Seen(s) = {}
      BY <2>2 DEF Seen, EmptyMap
    <3>2. Cardinality(DOMAIN Seen(s)) = 0
      BY <3>1, FS_EmptySet
    <3> QED
      BY <3>2, <1>0
  <2> QED
    BY <2>1, <2>2
<1>3. DOMAIN kept \subseteq DOMAIN Seen(s)
  BY PruneKeeps
<1>4. /\ IsFiniteSet(DOMAIN kept)
      /\ Cardinality(DOMAIN kept) <= Cardinality(DOMAIN Seen(s))
      /\ Cardinality(DOMAIN kept) \in Nat /\ Cardinality(DOMAIN Seen(s)) \in Nat
  BY <1>1, <1>3, FS_Subset, FS_CardinalityType
<1>5. CASE Remembered(m) \/ AtCapacity(m)
  <2>1. windows' = Put(windows, s, kept)
    BY <1>5 DEF check_and_record
  <2> HIDE DEF kept, s
  <2>2. windows'[s] = kept /\ DOMAIN windows' = DOMAIN windows \cup {s}
    BY <2>1 DEF Put
  <2>3. \A t \in DOMAIN windows \ {s} : windows'[t] = windows[t]
    BY <2>1 DEF Put
  <2>4. Cardinality(DOMAIN windows'[s]) <= MAX_ENTRIES_PER_SENDER
    BY <1>0, <1>2, <1>4, <2>2
  <2> QED
    BY <1>0, <2>2, <2>3, <2>4 DEF WindowBounded
<1>6. CASE ~ (Remembered(m) \/ AtCapacity(m))
  <2>1. windows' = Put(windows, s, Put(kept, m, now))
    BY <1>6 DEF check_and_record
  <2>2. m \notin DOMAIN kept /\ ~ (Cardinality(DOMAIN kept) >= MAX_ENTRIES_PER_SENDER)
    BY <1>6 DEF Remembered, AtCapacity
  <2> HIDE DEF kept, s
  <2>3. windows'[s] = Put(kept, m, now) /\ DOMAIN windows' = DOMAIN windows \cup {s}
    BY <2>1 DEF Put
  <2>4. \A t \in DOMAIN windows \ {s} : windows'[t] = windows[t]
    BY <2>1 DEF Put
  <2>5. DOMAIN windows'[s] = DOMAIN kept \cup {m}
    BY <2>3 DEF Put
  <2>6. Cardinality(DOMAIN kept \cup {m}) = Cardinality(DOMAIN kept) + 1
    BY <1>4, <2>2, FS_AddElement
  <2>7. Cardinality(DOMAIN windows'[s]) <= MAX_ENTRIES_PER_SENDER
    BY <1>0, <1>4, <2>2, <2>5, <2>6
  <2> QED
    BY <1>0, <2>3, <2>4, <2>7 DEF WindowBounded
<1> QED
  BY <1>5, <1>6

\* A step of the guard on a fresh control message, or on any other message,
\* keeps every routed control message remembered.
LEMMA RecordRemembers ==
  ASSUME GuardInv, NEW m \in Msg, is_fresh(m), check_and_record(m), now' = now
  PROVE  RoutedIsRemembered'
<1> DEFINE s == sender_of[m]
<1>0. GuardTypeOK /\ RoutedIsRemembered /\ now \in Nat /\ WindowSecs \in Nat
  BY WindowAssumption DEF GuardInv, GuardTypeOK
<1>1. /\ DOMAIN windows' = DOMAIN windows \cup {s}
      /\ \A t \in DOMAIN windows \ {s} : windows'[t] = windows[t]
      /\ \A x \in DOMAIN Seen(s) :
           now - Seen(s)[x] <= WindowSecs =>
             x \in DOMAIN windows'[s] /\ windows'[s][x] = Seen(s)[x]
      /\ \/ UNCHANGED <<accepted, accepted_at>>
         \/ /\ ~ Remembered(m) /\ Accept(m)
            /\ m \in DOMAIN windows'[s] /\ windows'[s][m] = now
  BY <1>0, RecordStep
<1>2. SUFFICES ASSUME NEW x \in Msg, kind_of[x] = "control",
                      timestamp[x] <= accepted_at'[x], accepted'[x] # 0
               PROVE  /\ accepted'[x] = 1
                      /\ now' - accepted_at'[x] <= WindowSecs =>
                           /\ sender_of[x] \in DOMAIN windows'
                           /\ x \in DOMAIN windows'[sender_of[x]]
                           /\ windows'[sender_of[x]][x] = accepted_at'[x]
  BY DEF RoutedIsRemembered
<1>3. CASE accepted'[x] = accepted[x] /\ accepted_at'[x] = accepted_at[x]
  <2>1. /\ accepted[x] = 1
        /\ now - accepted_at[x] <= WindowSecs =>
             /\ sender_of[x] \in DOMAIN windows
             /\ x \in DOMAIN windows[sender_of[x]]
             /\ windows[sender_of[x]][x] = accepted_at[x]
    BY <1>0, <1>2, <1>3 DEF RoutedIsRemembered
  <2>2. CASE sender_of[x] # s
    BY <1>1, <1>3, <2>1, <2>2
  <2>3. CASE sender_of[x] = s
    <3> SUFFICES ASSUME now - accepted_at[x] <= WindowSecs
                 PROVE  /\ s \in DOMAIN windows' /\ x \in DOMAIN windows'[s]
                        /\ windows'[s][x] = accepted_at[x]
      BY <1>3, <2>1, <2>3
    <3>1. Seen(s) = windows[s]
      BY <2>1, <2>3 DEF Seen
    <3> HIDE DEF s
    <3> QED
      BY <1>1, <2>1, <2>3, <3>1
  <2> QED
    BY <2>2, <2>3
<1>4. CASE ~ (accepted'[x] = accepted[x] /\ accepted_at'[x] = accepted_at[x])
  <2>1. ~ Remembered(m) /\ Accept(m) /\ m \in DOMAIN windows'[s] /\ windows'[s][m] = now
    BY <1>1, <1>4
  <2>2. x = m
    BY <1>0, <1>4, <2>1 DEF Accept, GuardTypeOK
  <2>3. CASE accepted[m] = 0
    BY <1>0, <1>1, <2>1, <2>2, <2>3 DEF Accept, GuardTypeOK
  <2>4. CASE accepted[m] # 0
    <3>1. accepted_at'[m] = accepted_at[m]
      BY <2>1, <2>4 DEF Accept
    <3>2. Remembered(m)
      BY <1>2, <2>2, <2>4, <3>1, FreshIsRemembered
    <3> QED
      BY <2>1, <3>2
  <2> QED
    BY <2>3, <2>4
<1> QED
  BY <1>3, <1>4

\* Routing a message that bypasses the guard changes nothing for control
\* messages.
LEMMA BypassKeeps ==
  ASSUME GuardInv, NEW m \in Msg, kind_of[m] # "control", Accept(m), UNCHANGED <<windows, now>>
  PROVE  GuardInv'
<1>1. GuardTypeOK'
  BY DEF GuardInv, GuardTypeOK, Accept
<1>2. RoutedIsRemembered'
  BY DEF GuardInv, GuardTypeOK, Accept, RoutedIsRemembered
<1>3. WindowBounded'
  BY DEF GuardInv, WindowBounded
<1> QED
  BY <1>1, <1>2, <1>3 DEF GuardInv

-----------------------------------------------------------------------------
(* The theorems.                                                           *)

\* The initial state satisfies the invariant.
LEMMA GuardInitInv == GuardInit => GuardInv
<1> SUFFICES ASSUME GuardInit PROVE GuardInv
  OBVIOUS
<1>1. windows = EmptyMap /\ DOMAIN windows = {}
  BY DEF GuardInit, EmptyMap
<1>2. GuardTypeOK
  BY <1>1 DEF GuardInit, GuardTypeOK
<1>3. RoutedIsRemembered
  BY DEF GuardInit, RoutedIsRemembered
<1>4. WindowBounded
  BY <1>1 DEF WindowBounded
<1> QED
  BY <1>2, <1>3, <1>4 DEF GuardInv

\* Every step preserves the invariant.
LEMMA GuardNextInv == GuardInv /\ [GuardNext]_guard_vars => GuardInv'
<1> SUFFICES ASSUME GuardInv, [GuardNext]_guard_vars PROVE GuardInv'
  OBVIOUS
<1>0. GuardTypeOK /\ RoutedIsRemembered /\ WindowBounded
  BY DEF GuardInv
<1>1. ASSUME NEW m \in Msg, is_fresh(m), check_and_record(m), now' = now PROVE GuardInv'
  BY <1>0, <1>1, RecordType, RecordBounded, RecordRemembers DEF GuardInv
<1>2. ASSUME NEW m \in Msg, ReceiveWs(m) PROVE GuardInv'
  <2>1. CASE kind_of[m] = "control"
    BY <1>1, <1>2, <2>1 DEF ReceiveWs
  <2>2. CASE kind_of[m] # "control"
    BY <1>2, <2>2, BypassKeeps DEF ReceiveWs
  <2> QED
    BY <2>1, <2>2
<1>3. ASSUME NEW m \in Msg, ReceiveQuic(m) PROVE GuardInv'
  BY <1>1, <1>3 DEF ReceiveQuic
<1>4. ASSUME NEW s \in Sender, ForgetPeer(s) PROVE GuardInv'
  <2>1. /\ DOMAIN windows' = DOMAIN windows \ {s}
        /\ \A t \in DOMAIN windows' : windows'[t] = windows[t]
    BY <1>4 DEF ForgetPeer, Without
  <2>2. GuardTypeOK'
    BY <1>0, <1>4, <2>1 DEF ForgetPeer, GuardTypeOK
  <2>3. RoutedIsRemembered'
    BY <1>0, <1>4, <2>1, MsgAssumption DEF ForgetPeer, GuardTypeOK, RoutedIsRemembered
  <2>4. WindowBounded'
    BY <1>0, <2>1 DEF WindowBounded
  <2> QED
    BY <2>2, <2>3, <2>4 DEF GuardInv
<1>5. CASE Tick
  <2>1. GuardTypeOK'
    BY <1>0, <1>5 DEF Tick, GuardTypeOK
  <2>2. \A m \in Msg : now' - accepted_at'[m] <= WindowSecs =>
                        now - accepted_at[m] <= WindowSecs
    BY <1>0, <1>5, WindowAssumption DEF Tick, GuardTypeOK
  <2>3. RoutedIsRemembered'
    BY <1>0, <1>5, <2>2 DEF Tick, RoutedIsRemembered
  <2>4. WindowBounded'
    BY <1>0, <1>5 DEF Tick, WindowBounded
  <2> QED
    BY <2>1, <2>3, <2>4 DEF GuardInv
<1>6. CASE UNCHANGED guard_vars
  BY <1>0, <1>6 DEF guard_vars, GuardInv, GuardTypeOK, RoutedIsRemembered, WindowBounded
<1> QED
  BY <1>2, <1>3, <1>4, <1>5, <1>6 DEF GuardNext

\* The invariant holds throughout.
THEOREM GuardInvariant == GuardSpec => []GuardInv
<1> QED
  BY GuardInitInv, GuardNextInv, PTL DEF GuardSpec

\* A control message not stamped ahead of the clock is routed at most once
\* while its sender stays connected, for every window length and capacity: what
\* the freshness check still admits, the window still remembers.
THEOREM GuardRoutedAtMostOnce == GuardSpec => []RoutedAtMostOnce
<1>1. GuardInv => RoutedAtMostOnce
  BY DEF GuardInv, GuardTypeOK, RoutedIsRemembered, RoutedAtMostOnce
<1> QED
  BY <1>1, GuardInvariant, PTL

\* The table of every sender stays within MAX_ENTRIES_PER_SENDER.
THEOREM GuardWindowBounded == GuardSpec => []WindowBounded
<1>1. GuardInv => WindowBounded
  BY DEF GuardInv
<1> QED
  BY <1>1, GuardInvariant, PTL

\* No step evicts an entry that is still inside the window, except the one that
\* forgets the whole sender.
THEOREM GuardNoLiveEntryEvicted == GuardSpec => NoLiveEntryEvicted
<1> DEFINE Kept == \A s \in DOMAIN windows \cap DOMAIN windows' :
                     \A m \in DOMAIN windows[s] :
                       now' - windows[s][m] <= WindowSecs =>
                         m \in DOMAIN windows'[s] /\ windows'[s][m] = windows[s][m]
<1>1. GuardInv /\ [GuardNext]_guard_vars => [Kept]_guard_vars
  <2> SUFFICES ASSUME GuardInv, GuardNext PROVE Kept
    BY DEF Kept
  <2>0. GuardTypeOK
    BY DEF GuardInv
  <2>1. ASSUME NEW m \in Msg, check_and_record(m), now' = now PROVE Kept
    <3> SUFFICES ASSUME NEW s \in DOMAIN windows \cap DOMAIN windows',
                        NEW x \in DOMAIN windows[s],
                        now' - windows[s][x] <= WindowSecs
                 PROVE  x \in DOMAIN windows'[s] /\ windows'[s][x] = windows[s][x]
      BY DEF Kept
    <3>1. CASE s = sender_of[m]
      <4>1. Seen(s) = windows[s]
        BY DEF Seen
      <4> QED
        BY <2>0, <2>1, <3>1, <4>1, RecordStep
    <3>2. CASE s # sender_of[m]
      <4>1. \A t \in DOMAIN windows \ {sender_of[m]} : windows'[t] = windows[t]
        BY <2>0, <2>1, RecordStep
      <4> QED
        BY <3>2, <4>1
    <3> QED
      BY <3>1, <3>2
  <2>2. ASSUME NEW m \in Msg, ReceiveWs(m) \/ ReceiveQuic(m) PROVE Kept
    <3>1. CASE check_and_record(m)
      BY <2>1, <2>2, <3>1 DEF ReceiveWs, ReceiveQuic
    <3>2. CASE UNCHANGED windows
      BY <3>2 DEF Kept
    <3> QED
      BY <2>2, <3>1, <3>2 DEF ReceiveWs, ReceiveQuic
  <2>3. ASSUME NEW s \in Sender, ForgetPeer(s) PROVE Kept
    BY <2>3 DEF ForgetPeer, Without, Kept
  <2>4. CASE Tick
    BY <2>4 DEF Tick, Kept
  <2> QED
    BY <2>2, <2>3, <2>4 DEF GuardNext
<1> QED
  BY <1>1, GuardInvariant, PTL DEF GuardSpec, NoLiveEntryEvicted, Kept

-----------------------------------------------------------------------------
(* The room list.                                                          *)

\* Why a connected peer that lags behind the latest noted change will hear of
\* it: a direct answer is about to read or holds a list new enough, a change is
\* about to be marked or is marked, or the flush has yet to serve the peer or
\* holds a list new enough for it.
InHand(p) ==
  \/ newest[p] >= noted
  \/ answer[p].pc = "read"
  \/ answer[p].pc = "send" /\ answer[p].rooms >= noted
  \/ \E h \in Handler : handler[h] = "store"
  \/ room_list_dirty
  \/ coalescer.pc \in {"flushing", "sending"} /\ p \in coalescer.todo
  \/ coalescer.pc = "sending" /\ coalescer.to = p /\ coalescer.rooms >= noted

\* Only a task that is sending has a recipient, and it is a peer.
SendingToPeer == coalescer.pc = "sending" => coalescer.to \in Peer

\* No list, and no noted change, is newer than the rooms.
NoneAhead ==
  /\ noted <= version
  /\ \A p \in Peer : newest[p] <= version /\ answer[p].rooms <= version

RoomListInv ==
  /\ TypeOK
  /\ SendingToPeer
  /\ coalescer.rooms <= version
  /\ NoneAhead
  /\ DirtyNeverStranded
  /\ \A p \in connected : InHand(p)

-----------------------------------------------------------------------------

\* The initial state has no one to inform.
LEMMA RoomListInitInv == Init => RoomListInv
<1> SUFFICES ASSUME Init PROVE RoomListInv
  OBVIOUS
<1>0. 0 \in Version
  BY VersionAssumption DEF Version
<1>1. TypeOK
  BY <1>0 DEF Init, TypeOK, Coalescer, Answer
<1>2. SendingToPeer /\ coalescer.rooms <= version /\ NoneAhead /\ DirtyNeverStranded
  BY DEF Init, SendingToPeer, NoneAhead, DirtyNeverStranded
<1> QED
  BY <1>1, <1>2 DEF RoomListInv, Init

\* A handler changes the rooms, marks the list and wakes the coalescer.
LEMMA HandlerInv ==
  ASSUME RoomListInv, NEW h \in Handler, Change(h) \/ broadcast_room_list(h)
  PROVE  RoomListInv'
<1>0. TypeOK /\ MaxVersion \in Nat
  BY VersionAssumption DEF RoomListInv
<1>1. CASE Change(h)
  <2>1. /\ version' = version + 1 /\ version' \in Version /\ noted' = version'
        /\ handler'[h] = "store"
    BY <1>0, <1>1 DEF Change, rooms_of_sfu, TypeOK, Version
  <2>2. TypeOK'
    BY <1>0, <1>1, <2>1 DEF Change, rooms_of_sfu, TypeOK, coalescing
  <2>3. SendingToPeer' /\ NoneAhead' /\ coalescer'.rooms <= version'
    BY <1>0, <1>1, <2>1 DEF RoomListInv, Change, rooms_of_sfu, TypeOK, SendingToPeer, NoneAhead, coalescing,
                            Version, Coalescer, Answer
  <2>4. DirtyNeverStranded'
    BY <1>0, <1>1 DEF RoomListInv, Change, rooms_of_sfu, TypeOK, DirtyNeverStranded, coalescing
  <2>5. \A p \in connected' : InHand(p)'
    BY <2>1 DEF InHand
  <2> QED
    BY <2>2, <2>3, <2>4, <2>5 DEF RoomListInv
<1>2. CASE StoreDirty(h)
  <2>1. TypeOK'
    BY <1>0, <1>2 DEF StoreDirty, rooms_of_sfu, TypeOK
  <2>2. SendingToPeer' /\ NoneAhead' /\ coalescer'.rooms <= version'
    BY <1>2 DEF RoomListInv, StoreDirty, rooms_of_sfu, SendingToPeer, NoneAhead
  <2>3. DirtyNeverStranded'
    BY <1>0, <1>2 DEF StoreDirty, rooms_of_sfu, TypeOK, DirtyNeverStranded
  <2>4. \A p \in connected' : InHand(p)'
    BY <1>2 DEF StoreDirty, rooms_of_sfu, InHand
  <2> QED
    BY <2>1, <2>2, <2>3, <2>4 DEF RoomListInv
<1>3. CASE NotifyOne(h)
  <2>1. TypeOK'
    BY <1>0, <1>3 DEF NotifyOne, rooms_of_sfu, TypeOK
  <2>2. SendingToPeer' /\ NoneAhead' /\ coalescer'.rooms <= version'
    BY <1>3 DEF RoomListInv, NotifyOne, rooms_of_sfu, SendingToPeer, NoneAhead
  <2>3. DirtyNeverStranded'
    BY <1>3 DEF NotifyOne, rooms_of_sfu, DirtyNeverStranded
  <2>4. \A p \in connected' : InHand(p)'
    BY <1>0, <1>3 DEF RoomListInv, NotifyOne, rooms_of_sfu, InHand, TypeOK
  <2> QED
    BY <2>1, <2>2, <2>3, <2>4 DEF RoomListInv
<1> QED
  BY <1>1, <1>2, <1>3 DEF broadcast_room_list

\* A change that nobody is told of leaves the noted one, and so every list on
\* its way, where it was.
LEMMA SilentInv ==
  ASSUME RoomListInv, ChangeSilently
  PROVE  RoomListInv'
<1>0. TypeOK /\ MaxVersion \in Nat
  BY VersionAssumption DEF RoomListInv
<1>1. version' = version + 1 /\ version' \in Version /\ version \in Version /\ noted' = noted
  BY <1>0 DEF ChangeSilently, TypeOK, Version
<1>2. TypeOK'
  BY <1>0, <1>1 DEF ChangeSilently, TypeOK, coalescing
<1>3. SendingToPeer' /\ NoneAhead' /\ coalescer'.rooms <= version'
  BY <1>0, <1>1 DEF RoomListInv, ChangeSilently, TypeOK, SendingToPeer, NoneAhead, coalescing,
                    Version, Coalescer, Answer
<1>4. DirtyNeverStranded' /\ \A p \in connected' : InHand(p)'
  BY <1>1 DEF RoomListInv, ChangeSilently, DirtyNeverStranded, InHand, coalescing
<1> QED
  BY <1>2, <1>3, <1>4 DEF RoomListInv

\* What queueing a list does to the history of its recipient.
LEMMA QueueFacts ==
  ASSUME TypeOK, NEW q \in Peer, NEW v \in Version, v <= version, newest[q] <= version,
         Queue(q, v)
  PROVE  /\ newest' \in [Peer -> Version]
         /\ newest'[q] <= version
         /\ v >= noted => newest'[q] >= noted
         /\ newest[q] >= noted => newest'[q] >= noted
         /\ \A p \in Peer \ {q} : newest'[p] = newest[p]
BY VersionAssumption DEF TypeOK, Queue, Version

\* The coalescer takes its permit, clears the mark and serves whoever was
\* connected at that moment with what it reads afterwards.
LEMMA CoalescerInv ==
  ASSUME RoomListInv, CoalescerStep
  PROVE  RoomListInv'
<1>0. TypeOK /\ coalescer \in Coalescer /\ 0 \in Version /\ version \in Version
  BY VersionAssumption DEF RoomListInv, TypeOK, Version
<1>1. CASE Wake
  <2>1. coalescer' \in Coalescer /\ coalescer.pc = "waiting" /\ coalescer'.pc = "sleeping"
        /\ coalescer'.rooms = coalescer.rooms
    BY <1>0, <1>1 DEF Wake, rooms_of_sfu, Coalescer
  <2>2. TypeOK'
    BY <1>0, <1>1, <2>1 DEF Wake, rooms_of_sfu, TypeOK
  <2>3. SendingToPeer' /\ NoneAhead' /\ coalescer'.rooms <= version' /\ DirtyNeverStranded'
    BY <1>1, <2>1 DEF RoomListInv, Wake, rooms_of_sfu, SendingToPeer, NoneAhead, DirtyNeverStranded
  <2>4. \A p \in connected' : InHand(p)'
    BY <1>1, <2>1 DEF RoomListInv, Wake, rooms_of_sfu, InHand
  <2> QED
    BY <2>2, <2>3, <2>4 DEF RoomListInv
<1>2. CASE Swap
  <2>1. /\ coalescer' \in Coalescer /\ coalescer.pc = "sleeping"
        /\ coalescer'.rooms = coalescer.rooms
        /\ coalescer'.pc \in {"flushing", "waiting"}
        /\ room_list_dirty => coalescer'.pc = "flushing" /\ coalescer'.todo = connected
    BY <1>0, <1>2 DEF Swap, rooms_of_sfu, Coalescer, TypeOK
  <2>2. TypeOK'
    BY <1>0, <1>2, <2>1 DEF Swap, rooms_of_sfu, TypeOK
  <2>3. SendingToPeer' /\ NoneAhead' /\ coalescer'.rooms <= version' /\ DirtyNeverStranded'
    BY <1>2, <2>1 DEF RoomListInv, Swap, rooms_of_sfu, SendingToPeer, NoneAhead, DirtyNeverStranded
  <2>4. \A p \in connected' : InHand(p)'
    BY <1>2, <2>1 DEF RoomListInv, Swap, rooms_of_sfu, InHand
  <2> QED
    BY <2>2, <2>3, <2>4 DEF RoomListInv
<1>3. ASSUME NEW q \in Peer, ReadRooms(q) PROVE RoomListInv'
  <2>1. /\ coalescer' \in Coalescer /\ coalescer.pc = "flushing"
        /\ coalescer'.pc = "sending" /\ coalescer'.to = q
        /\ coalescer'.rooms = version /\ coalescer'.todo = coalescer.todo \ {q}
    BY <1>0, <1>3 DEF ReadRooms, rooms_of_sfu, Coalescer
  <2>2. TypeOK'
    BY <1>0, <1>3, <2>1 DEF ReadRooms, rooms_of_sfu, TypeOK, coalescing
  <2>3. SendingToPeer' /\ NoneAhead' /\ coalescer'.rooms <= version' /\ DirtyNeverStranded'
    BY <1>0, <1>3, <2>1 DEF RoomListInv, ReadRooms, rooms_of_sfu, SendingToPeer, NoneAhead,
                            DirtyNeverStranded, coalescing, Version
  <2>4. \A p \in connected' : InHand(p)'
    <3>1. noted <= version /\ noted \in Int /\ version \in Int
      BY <1>0 DEF RoomListInv, NoneAhead, TypeOK, Version
    <3> QED
      BY <1>3, <2>1, <3>1 DEF RoomListInv, ReadRooms, rooms_of_sfu, InHand, coalescing
  <2> QED
    BY <2>2, <2>3, <2>4 DEF RoomListInv
<1>4. CASE SendRooms
  <2> DEFINE q == coalescer.to
  <2>1. /\ coalescer' \in Coalescer /\ coalescer.pc = "sending"
        /\ coalescer'.pc = "flushing" /\ coalescer'.todo = coalescer.todo
        /\ coalescer'.rooms = 0 /\ coalescer.rooms \in Version /\ q \in Peer
    BY <1>0, <1>4 DEF RoomListInv, SendingToPeer, SendRooms, rooms_of_sfu, Coalescer
  <2>2. UNCHANGED <<version, noted, coalescing, handler, connected, answer>>
    BY <1>4 DEF SendRooms, rooms_of_sfu
  <2> HIDE DEF q
  <2>3. /\ newest' \in [Peer -> Version]
        /\ newest'[q] <= version
        /\ q \in connected /\ coalescer.rooms >= noted => newest'[q] >= noted
        /\ newest[q] >= noted => newest'[q] >= noted
        /\ \A p \in Peer \ {q} : newest'[p] = newest[p]
    <3>1. coalescer.rooms <= version /\ newest[q] <= version
      BY <2>1 DEF RoomListInv, NoneAhead
    <3>2. CASE q \in connected
      <4>1. Queue(q, coalescer.rooms)
        BY <1>4, <3>2 DEF SendRooms, rooms_of_sfu, q
      <4> QED
        BY <1>0, <2>1, <3>1, <4>1, QueueFacts
    <3>3. CASE q \notin connected
      BY <1>0, <1>4, <3>1, <3>3 DEF SendRooms, rooms_of_sfu, q, TypeOK
    <3> QED
      BY <3>2, <3>3
  <2>4. TypeOK'
    BY <1>0, <2>1, <2>2, <2>3 DEF TypeOK, coalescing
  <2>5. SendingToPeer' /\ DirtyNeverStranded' /\ coalescer'.rooms <= version'
    BY <1>0, <2>1, <2>2 DEF RoomListInv, SendingToPeer, DirtyNeverStranded, coalescing, Version
  <2>6. NoneAhead'
    BY <2>2, <2>3 DEF RoomListInv, NoneAhead
  <2>7. \A p \in connected' : InHand(p)'
    <3> SUFFICES ASSUME NEW p \in connected PROVE InHand(p)'
      BY <2>2
    <3>1. p \in Peer /\ InHand(p)
      BY <1>0 DEF RoomListInv, TypeOK
    <3>2. CASE p # q
      BY <2>1, <2>2, <2>3, <3>1, <3>2 DEF InHand, coalescing, q
    <3>3. CASE p = q
      BY <2>1, <2>2, <2>3, <3>1, <3>3 DEF InHand, coalescing
    <3> QED
      BY <3>2, <3>3
  <2> QED
    BY <2>4, <2>5, <2>6, <2>7 DEF RoomListInv
<1>5. CASE FlushDone
  <2>1. /\ coalescer' \in Coalescer /\ coalescer.pc = "flushing" /\ coalescer.todo = {}
        /\ coalescer'.pc = "waiting" /\ coalescer'.rooms = coalescer.rooms
    BY <1>0, <1>5 DEF FlushDone, rooms_of_sfu, Coalescer
  <2>2. TypeOK'
    BY <1>0, <1>5, <2>1 DEF FlushDone, rooms_of_sfu, TypeOK, coalescing
  <2>3. SendingToPeer' /\ NoneAhead' /\ coalescer'.rooms <= version' /\ DirtyNeverStranded'
    BY <1>5, <2>1 DEF RoomListInv, FlushDone, rooms_of_sfu, SendingToPeer, NoneAhead, DirtyNeverStranded,
                      coalescing
  <2>4. \A p \in connected' : InHand(p)'
    BY <1>5, <2>1 DEF RoomListInv, FlushDone, rooms_of_sfu, InHand, coalescing
  <2> QED
    BY <2>2, <2>3, <2>4 DEF RoomListInv
<1> QED
  BY <1>1, <1>2, <1>3, <1>4, <1>5 DEF CoalescerStep

\* A peer connects, asks, is answered and goes.
LEMMA PeerInv ==
  ASSUME RoomListInv, NEW q \in Peer, Connect(q) \/ Ask(q) \/ Answering(q) \/ Disconnect(q)
  PROVE  RoomListInv'
<1>0. TypeOK /\ answer \in [Peer -> Answer] /\ version \in Version /\ 0 \in Version
  BY VersionAssumption DEF RoomListInv, TypeOK, Version
<1>1. CASE Connect(q)
  <2>1. /\ answer' \in [Peer -> Answer] /\ answer'[q].pc = "read"
        /\ answer'[q].rooms = answer[q].rooms
        /\ \A p \in Peer \ {q} : answer'[p] = answer[p]
    BY <1>0, <1>1 DEF Connect, rooms_of_sfu, Answer
  <2>2. /\ newest' \in [Peer -> Version]
        /\ newest'[q] = 0 /\ \A p \in Peer \ {q} : newest'[p] = newest[p]
    BY <1>0, <1>1 DEF Connect, rooms_of_sfu, TypeOK
  <2>3. TypeOK'
    BY <1>0, <1>1, <2>1, <2>2 DEF Connect, rooms_of_sfu, TypeOK, coalescing
  <2>4. SendingToPeer' /\ DirtyNeverStranded' /\ coalescer'.rooms <= version'
    BY <1>1 DEF RoomListInv, Connect, rooms_of_sfu, SendingToPeer, DirtyNeverStranded, coalescing
  <2>5. NoneAhead'
    BY <1>0, <1>1, <2>1, <2>2 DEF RoomListInv, NoneAhead, Connect, rooms_of_sfu, Version
  <2>6. \A p \in connected' : InHand(p)'
    BY <1>0, <1>1, <2>1, <2>2 DEF RoomListInv, InHand, Connect, rooms_of_sfu, coalescing, TypeOK
  <2> QED
    BY <2>3, <2>4, <2>5, <2>6 DEF RoomListInv
<1>2. CASE Ask(q)
  <2>1. /\ answer' \in [Peer -> Answer] /\ answer'[q].pc = "read"
        /\ answer'[q].rooms = answer[q].rooms
        /\ \A p \in Peer \ {q} : answer'[p] = answer[p]
    BY <1>0, <1>2 DEF Ask, rooms_of_sfu, Answer
  <2>2. TypeOK'
    BY <1>0, <1>2, <2>1 DEF Ask, rooms_of_sfu, TypeOK, coalescing
  <2>3. SendingToPeer' /\ DirtyNeverStranded' /\ coalescer'.rooms <= version' /\ NoneAhead'
    BY <1>2, <2>1 DEF RoomListInv, Ask, rooms_of_sfu, SendingToPeer, DirtyNeverStranded, NoneAhead, coalescing
  <2>4. \A p \in connected' : InHand(p)'
    BY <1>0, <1>2, <2>1 DEF RoomListInv, InHand, Ask, rooms_of_sfu, coalescing, TypeOK
  <2> QED
    BY <2>2, <2>3, <2>4 DEF RoomListInv
<1>3. CASE ReadAnswer(q)
  <2>1. /\ answer' \in [Peer -> Answer] /\ answer'[q].pc = "send"
        /\ answer'[q].rooms = version
        /\ \A p \in Peer \ {q} : answer'[p] = answer[p]
    BY <1>0, <1>3 DEF ReadAnswer, rooms_of_sfu, Answer
  <2>2. TypeOK'
    BY <1>0, <1>3, <2>1 DEF ReadAnswer, rooms_of_sfu, TypeOK, coalescing
  <2>3. SendingToPeer' /\ DirtyNeverStranded' /\ coalescer'.rooms <= version' /\ NoneAhead'
    BY <1>0, <1>3, <2>1 DEF RoomListInv, ReadAnswer, rooms_of_sfu, SendingToPeer, NoneAhead,
                            DirtyNeverStranded, coalescing, Version
  <2>4. \A p \in connected' : InHand(p)'
    <3>1. noted <= version /\ noted \in Int /\ version \in Int
      BY <1>0 DEF RoomListInv, NoneAhead, TypeOK, Version
    <3> QED
      BY <1>0, <1>3, <2>1, <3>1 DEF RoomListInv, InHand, ReadAnswer, rooms_of_sfu, coalescing, TypeOK
  <2> QED
    BY <2>2, <2>3, <2>4 DEF RoomListInv
<1>4. CASE SendAnswer(q)
  <2>1. /\ answer' \in [Peer -> Answer] /\ answer[q].pc = "send" /\ answer[q].rooms \in Version
        /\ answer'[q].rooms = 0
        /\ \A p \in Peer \ {q} : answer'[p] = answer[p]
    BY <1>0, <1>4 DEF SendAnswer, rooms_of_sfu, Answer
  <2>2. UNCHANGED <<version, noted, coalescing, handler, coalescer, connected>> /\ Queue(q, answer[q].rooms)
    BY <1>4 DEF SendAnswer, rooms_of_sfu
  <2>3. answer[q].rooms <= version /\ newest[q] <= version
    BY DEF RoomListInv, NoneAhead
  <2>4. /\ newest' \in [Peer -> Version]
        /\ newest'[q] <= version
        /\ answer[q].rooms >= noted => newest'[q] >= noted
        /\ newest[q] >= noted => newest'[q] >= noted
        /\ \A p \in Peer \ {q} : newest'[p] = newest[p]
    BY <1>0, <2>1, <2>2, <2>3, QueueFacts
  <2>5. TypeOK'
    BY <1>0, <2>1, <2>2, <2>4 DEF TypeOK, coalescing
  <2>6. SendingToPeer' /\ DirtyNeverStranded' /\ coalescer'.rooms <= version'
    BY <2>2 DEF RoomListInv, SendingToPeer, DirtyNeverStranded, coalescing
  <2>7. NoneAhead'
    BY <1>0, <2>1, <2>2, <2>4 DEF RoomListInv, NoneAhead, Version
  <2>8. \A p \in connected' : InHand(p)'
    <3> SUFFICES ASSUME NEW p \in connected PROVE InHand(p)'
      BY <2>2
    <3>1. p \in Peer /\ InHand(p)
      BY <1>0 DEF RoomListInv, TypeOK
    <3>2. CASE p # q
      BY <2>1, <2>2, <2>4, <3>1, <3>2 DEF InHand, coalescing
    <3>3. CASE p = q
      BY <2>1, <2>2, <2>4, <3>1, <3>3 DEF InHand, coalescing
    <3> QED
      BY <3>2, <3>3
  <2> QED
    BY <2>5, <2>6, <2>7, <2>8 DEF RoomListInv
<1>5. CASE Disconnect(q)
  <2>1. TypeOK'
    BY <1>0, <1>5 DEF Disconnect, rooms_of_sfu, TypeOK, coalescing
  <2>2. SendingToPeer' /\ DirtyNeverStranded' /\ coalescer'.rooms <= version' /\ NoneAhead'
    BY <1>5 DEF RoomListInv, Disconnect, rooms_of_sfu, SendingToPeer, DirtyNeverStranded, NoneAhead, coalescing
  <2>3. \A p \in connected' : InHand(p)'
    BY <1>5 DEF RoomListInv, InHand, Disconnect, rooms_of_sfu, coalescing
  <2> QED
    BY <2>1, <2>2, <2>3 DEF RoomListInv
<1> QED
  BY <1>1, <1>2, <1>3, <1>4, <1>5 DEF Answering

\* The invariant holds throughout.
THEOREM RoomListInvariant == Spec => []RoomListInv
<1>1. RoomListInv /\ [Next]_vars => RoomListInv'
  <2> SUFFICES ASSUME RoomListInv, [Next]_vars PROVE RoomListInv'
    OBVIOUS
  <2>1. CASE Next
    BY <2>1, HandlerInv, SilentInv, CoalescerInv, PeerInv DEF Next
  <2>2. CASE UNCHANGED vars
    BY <2>2 DEF RoomListInv, vars, rooms_of_sfu, coalescing, TypeOK, SendingToPeer, NoneAhead,
                DirtyNeverStranded, InHand
  <2> QED
    BY <2>1, <2>2
<1> QED
  BY <1>1, RoomListInitInv, PTL DEF Spec

\* No wake-up is lost, for any number of handlers racing the coalescer.
THEOREM RoomListDirtyNeverStranded == Spec => []DirtyNeverStranded
<1>1. RoomListInv => DirtyNeverStranded
  BY DEF RoomListInv
<1> QED
  BY <1>1, RoomListInvariant, PTL

\* At rest, whoever is connected has been sent a list as new as the latest change
\* that broadcast_room_list was called for.
THEOREM RoomListQuiescentMeansInformed == Spec => []QuiescentMeansInformed
<1>1. RoomListInv => QuiescentMeansInformed
  <2> SUFFICES ASSUME RoomListInv, Quiescent, NEW p \in connected PROVE newest[p] >= noted
    BY DEF QuiescentMeansInformed
  <2>1. p \in Peer /\ InHand(p)
    BY DEF RoomListInv, TypeOK
  <2>2. ~ room_list_dirty
    BY DEF RoomListInv, Quiescent, DirtyNeverStranded
  <2> QED
    BY <2>1, <2>2 DEF InHand, Quiescent
<1> QED
  BY <1>1, RoomListInvariant, PTL

-----------------------------------------------------------------------------
(* The cluster's links.                                                    *)

\* The epochs of the roots that the members hold.
held == [n \in Node |-> root[n].epoch]

\* The frames of a member that holds the root of epoch e and trusts the client
\* as far as l.
Says(e, l) ==
  [kind : {"Subscriptions", "RoomRoster"}, rooms : SUBSET Room]
    \cup [kind : {"SpaceRoot"}, root : {r \in Roots : r.epoch \in 1 .. e}]
    \cup [kind : {"PeerAuth"}, level : 1 .. l]

\* The ends of a connection that d dialed to a, among the members u that run: one
\* end at least is not through with it, none is at a member that is down, and the
\* acceptor has sent nothing before it took the connection.
Ended(end, to, d, a, u) ==
  /\ end[d] # "wait"
  /\ end[d] # "gone" \/ end[a] # "gone"
  /\ \A n \in {d, a} : end[n] # "gone" => n \in u
  /\ end[a] = "wait" => to[d] = <<>>

\* What is on its way is no news to its sender, when the members' roots and trust
\* are rt and tr.
Carries(to, d, a, rt, tr) ==
  to[d] \in Seq(Says(rt[a], tr[a])) /\ to[a] \in Seq(Says(rt[d], tr[d]))

Sound(x, d, a, u, rt, tr) ==
  x \in Connection(d, a) /\ Ended(x.end, x.to, d, a, u) /\ Carries(x.to, d, a, rt, tr)

\* Connection x runs at n, and its other end is m.
Sides(x) == {x.side[1], x.side[2]}
Live(x, n, m) == x # Free /\ Sides(x) = {n, m} /\ x.end[n] = "run"

\* A table of one member's entries about every other.
Table(t, S) ==
  t = [n \in Node |-> t[n]] /\ \A n \in Node : t[n] \in [Node \ {n} -> S]

RoomState == {Absent, InUse} \cup 0 .. IDLE_ROOM_GC_SECS
Senders == Conn \cup {NoConn}

RootsTyped ==
  root \in [Node -> Roots \cup {NoRoot}] /\ equivocations \in [Node -> BOOLEAN]
SameRoots == root' = root /\ equivocations' = equivocations

Tables ==
  /\ up \subseteq Node /\ faults \in 0 .. MaxFaults /\ events \in 0 .. MaxEvents
  /\ conn = [c \in Conn |-> conn[c]]
  /\ Table(peers, Senders)
  /\ Table(remote_subs, SUBSET Room)
  /\ room \in [Node -> [Room -> RoomState]]
  /\ RootsTyped /\ held \in [Node -> 0 .. MaxEpoch]
  /\ trust \in [Node -> Trust]

\* A slot is free, or holds a connection that the smaller of two members dialed.
Slot(x, u, rt, tr) ==
  x # Free => \E d, a \in Node : d < a /\ Sound(x, d, a, u, rt, tr)

ConnsSound == \A c \in Conn : Slot(conn[c], up, held, trust)

\* A member's sender for another is that of a link which runs, to that other.
PeersLive ==
  \A n \in Node : \A m \in Node \ {n} : peers[n][m] # NoConn =>
    peers[n][m] \in Conn /\ Live(conn[peers[n][m]], n, m)

\* A dialer has registered the link it runs.
DialerOne ==
  \A c \in Conn : \A n, m \in Node :
    n < m /\ Live(conn[c], n, m) => peers[n][m] = c

\* What is known of a member's subscribers came over a link that still runs.
SubsLive ==
  \A n \in Node : \A m \in Node \ {n} : remote_subs[n][m] # {} =>
    \E c \in Conn : Live(conn[c], n, m)

LinkInv == Tables /\ ConnsSound /\ PeersLive /\ DialerOne /\ SubsLive

LEMMA EpochsTyped ==
  ASSUME RootsTyped
  PROVE  /\ held \in [Node -> 0 .. MaxEpoch]
         /\ \A n \in Node : root[n] = NoRoot <=> held[n] = 0
BY RootAssumption, ClusterAssumption DEF RootsTyped, held, NoRoot

LEMMA RootsStay ==
  ASSUME SameRoots
  PROVE  held' = held /\ (RootsTyped => RootsTyped')
BY DEF SameRoots, held, RootsTyped

\* Members that learn more may say more.
LEMMA SaysGrows ==
  ASSUME NEW e \in Nat, NEW f \in Nat, e <= f, NEW l \in Nat, NEW k \in Nat, l <= k
  PROVE  Says(e, l) \subseteq Says(f, k)
<1>1. 1 .. e \subseteq 1 .. f /\ 1 .. l \subseteq 1 .. k
  OBVIOUS
<1>2. {r \in Roots : r.epoch \in 1 .. e} \subseteq {r \in Roots : r.epoch \in 1 .. f}
  BY <1>1
<1> QED
  BY <1>1, <1>2 DEF Says

LEMMA SaysTyped ==
  ASSUME NEW e \in 0 .. MaxEpoch, NEW l \in Trust
  PROVE  Says(e, l) \subseteq ClusterMsg
<1>1. 1 .. l \subseteq Trust \ {0} /\ {r \in Roots : r.epoch \in 1 .. e} \subseteq Roots
  BY ClusterAssumption DEF Trust
<1> QED
  BY <1>1 DEF Says, ClusterMsg

\* Member p's entry about q becomes v, and nothing else changes.
SetEntry(t, p, q, v) == [t EXCEPT ![p][q] = v]
Entered(w, t, p, q, v) ==
  /\ w[p][q] = v
  /\ \A n \in Node : \A m \in Node \ {n} : ~(n = p /\ m = q) => w[n][m] = t[n][m]

LEMMA TableSet ==
  ASSUME NEW S, NEW t, Table(t, S), NEW p \in Node, NEW q \in Node, p # q, NEW v \in S,
         NEW w, w = SetEntry(t, p, q, v)
  PROVE  Table(w, S) /\ Entered(w, t, p, q, v)
<1>1. t[p] \in [Node \ {p} -> S] /\ t = [n \in Node |-> t[n]]
  BY DEF Table
<1>2. w = [n \in Node |-> w[n]] /\ \A n \in Node \ {p} : w[n] = t[n]
  BY <1>1 DEF SetEntry
<1>3. w[p] = [t[p] EXCEPT ![q] = v]
  BY <1>1 DEF SetEntry
<1>4. ASSUME NEW f, f \in [Node \ {p} -> S], NEW g, g = [f EXCEPT ![q] = v]
      PROVE  g \in [Node \ {p} -> S] /\ g[q] = v /\ \A m \in Node \ {p, q} : g[m] = f[m]
  <2>1. q \in Node \ {p}
    OBVIOUS
  <2>2. g \in [Node \ {p} -> S] /\ g[q] = v
    BY <1>4, <2>1
  <2>3. \A m \in Node \ {p, q} : g[m] = f[m]
    BY <1>4
  <2> QED
    BY <2>2, <2>3
<1>5. w[p] \in [Node \ {p} -> S] /\ w[p][q] = v /\ \A m \in Node \ {p, q} : w[p][m] = t[p][m]
  <2>1. t[p] \in [Node \ {p} -> S]
    BY <1>1
  <2> QED
    BY <1>3, <1>4, <2>1
<1>6. \A n \in Node : w[n] \in [Node \ {n} -> S]
  BY <1>2, <1>5 DEF Table
<1>7. Table(w, S)
  BY <1>2, <1>6 DEF Table
<1>8. Entered(w, t, p, q, v)
  BY <1>2, <1>5 DEF Entered
<1> QED
  BY <1>7, <1>8

\* A member forgets its entries.
Cleared(t, p, v) == [t EXCEPT ![p] = [m \in Node \ {p} |-> v]]

LEMMA TableReset ==
  ASSUME NEW S, NEW t, Table(t, S), NEW p \in Node, NEW v \in S,
         NEW w, w = Cleared(t, p, v)
  PROVE  Table(w, S)
<1>1. w = [n \in Node |-> w[n]] /\ w[p] = [m \in Node \ {p} |-> v]
  BY DEF Table, Cleared
<1>2. \A n \in Node \ {p} : w[n] = t[n]
  BY DEF Table, Cleared
<1>3. w[p] \in [Node \ {p} -> S]
  BY <1>1
<1> QED
  BY <1>1, <1>2, <1>3 DEF Table

LEMMA SeqGrows ==
  ASSUME NEW A, NEW B, A \subseteq B, NEW s \in Seq(A)
  PROVE  s \in Seq(B)
OBVIOUS

\* What the members may know.
Known(rt, tr) == rt \in [Node -> 0 .. MaxEpoch] /\ tr \in [Node -> Trust]

\* A connection changed into another one without a change of its ends.
SameEnds(x, y) == y # Free /\ Sides(y) = Sides(x) /\ y.end = x.end

\* The parts of a connection.
Parts(d, a, end, to, lost) ==
  [side |-> <<d, a>>, end |-> end, to |-> to, lost |-> lost]

LEMMA SoundParts ==
  ASSUME NEW x, NEW d, NEW a, NEW u, NEW rt, NEW tr, Sound(x, d, a, u, rt, tr)
  PROVE  /\ Sides(x) = {d, a} /\ x.side[1] = d /\ x.side[2] = a
         /\ x.end \in [{d, a} -> {"run", "wait", "gone"}]
         /\ x.to \in [{d, a} -> Seq(ClusterMsg)] /\ x.lost \in BOOLEAN
BY DEF Sound, Connection, Parts, Sides

LEMMA PartsFacts ==
  ASSUME NEW d, NEW a, NEW end, NEW to, NEW lost, NEW y, y = Parts(d, a, end, to, lost)
  PROVE  Sides(y) = {d, a} /\ y.end = end
BY DEF Parts, Sides

\* Parts that make up a connection as it should be.
Fits(d, a, end, to, lost, u, rt, tr) ==
  /\ end \in [{d, a} -> {"run", "wait", "gone"}]
  /\ to \in [{d, a} -> Seq(ClusterMsg)]
  /\ lost \in BOOLEAN
  /\ Ended(end, to, d, a, u) /\ Carries(to, d, a, rt, tr)

LEMMA MakeSound ==
  ASSUME NEW d \in Node, NEW a \in Node, NEW u, NEW rt, NEW tr, NEW end, NEW to, NEW lost,
         Fits(d, a, end, to, lost, u, rt, tr), NEW y, y = Parts(d, a, end, to, lost)
  PROVE  Sound(y, d, a, u, rt, tr) /\ y # Free /\ Sides(y) = {d, a} /\ y.end = end
<1>1. y.end = end /\ y.to = to /\ Sides(y) = {d, a}
  BY DEF Parts, Sides
<1>2. y \in Connection(d, a)
  BY DEF Connection, Parts, Fits
<1> QED
  BY <1>1, <1>2, FreeAssumption DEF Sound, Fits

LEMMA FramesTyped ==
  ASSUME NEW rt, NEW tr, Known(rt, tr), NEW n \in Node,
         NEW s \in Seq(Says(rt[n], tr[n]))
  PROVE  s \in Seq(ClusterMsg)
<1>1. Says(rt[n], tr[n]) \subseteq ClusterMsg
  BY SaysTyped DEF Known
<1> QED
  BY <1>1, SeqGrows

\* Time passes: the members learn more, and the ends that are not through with
\* the connection are still up.
LEMMA SoundLater ==
  ASSUME NEW x, NEW d \in Node, NEW a \in Node, NEW u, NEW rt \in [Node -> 0 .. MaxEpoch],
         NEW tr \in [Node -> Trust], Sound(x, d, a, u, rt, tr),
         NEW v, \A n \in {d, a} : x.end[n] # "gone" => n \in v,
         NEW ru \in [Node -> 0 .. MaxEpoch], NEW tu \in [Node -> Trust],
         \A n \in {d, a} : rt[n] <= ru[n] /\ tr[n] <= tu[n]
  PROVE  Sound(x, d, a, v, ru, tu)
<1>1. ASSUME NEW n \in {d, a}
      PROVE  Says(rt[n], tr[n]) \subseteq Says(ru[n], tu[n])
  <2>1. /\ rt[n] \in Nat /\ tr[n] \in Nat /\ ru[n] \in Nat /\ tu[n] \in Nat
        /\ rt[n] <= ru[n] /\ tr[n] <= tu[n]
    BY <1>1, ClusterAssumption DEF Trust
  <2> QED
    BY <2>1, SaysGrows
<1>2. Carries(x.to, d, a, ru, tu)
  BY <1>1, SeqGrows DEF Sound, Carries
<1> QED
  BY <1>2 DEF Sound, Ended

\* What a member sends: a refresh, the greeting of a link, news.
LEMMA SentFrames ==
  ASSUME Tables, NEW n \in Node, NEW S, S = Says(held[n], trust[n])
  PROVE  /\ Greeting(n) \in Seq(S)
         /\ Subscriptions(n) \o RoomRoster(n) \o PeerAuthRoster(n) \o SpaceRoots(n) \in Seq(S)
<1>1. held[n] \in Nat /\ trust[n] \in Nat
  BY ClusterAssumption DEF Tables, Trust
<1>2. local_rooms(n) \subseteq Room /\ local_room_roster(n) \subseteq Room
  BY DEF local_rooms, local_room_roster
<1>3. \A x \in S : <<x>> \in Seq(S)
  OBVIOUS
<1>4. <<>> \in Seq(S)
  OBVIOUS
<1>5. Subscriptions(n) \in Seq(S)
  <2>1. [kind |-> "Subscriptions", rooms |-> local_rooms(n)] \in S
    BY <1>2 DEF Says
  <2> QED
    BY <1>3, <2>1 DEF Subscriptions
<1>6. RoomRoster(n) \in Seq(S)
  <2>1. [kind |-> "RoomRoster", rooms |-> local_room_roster(n)] \in S
    BY <1>2 DEF Says
  <2> QED
    BY <1>3, <1>4, <2>1 DEF RoomRoster
<1>7. SpaceRoots(n) \in Seq(S)
  <2>1. root[n] # NoRoot => root[n] \in {r \in Roots : r.epoch \in 1 .. held[n]}
    <3>1. RootsTyped
      BY DEF Tables
    <3> QED
      BY <1>1, <3>1, RootAssumption DEF RootsTyped, held
  <2>2. root[n] # NoRoot => [kind |-> "SpaceRoot", root |-> root[n]] \in S
    BY <2>1 DEF Says
  <2> QED
    BY <1>3, <1>4, <2>2 DEF SpaceRoots
<1>8. PeerAuthRoster(n) \in Seq(S)
  <2>1. trust[n] # 0 => [kind |-> "PeerAuth", level |-> trust[n]] \in S
    BY <1>1 DEF Says
  <2> QED
    BY <1>3, <1>4, <2>1 DEF PeerAuthRoster
<1> QED
  BY <1>5, <1>6, <1>7, <1>8 DEF Greeting

LEMMA HeadTailOf ==
  ASSUME NEW S, NEW s \in Seq(S), s # <<>>
  PROVE  Head(s) \in S /\ Tail(s) \in Seq(S)
OBVIOUS

LEMMA ConcatOf ==
  ASSUME NEW S, NEW s \in Seq(S), NEW t \in Seq(S)
  PROVE  s \o t \in Seq(S)
OBVIOUS

\* A connection whose end n has sent frames, has read one, has taken the connection
\* with a greeting for d, or is through with it; and what is left of it then.
Queued(x, n, frames) ==
  [x EXCEPT !.to = [m \in DOMAIN @ |-> IF m = n THEN @[m] ELSE @[m] \o frames]]
Popped(x, n) == [x EXCEPT !.to[n] = Tail(@)]
Taken(x, n, d, g) == [x EXCEPT !.end[n] = "run", !.to[d] = g]
Closed(x, n) == [x EXCEPT !.end[n] = "gone", !.to[n] = <<>>]
Left(x, n) == IF \A k \in DOMAIN Closed(x, n).end : Closed(x, n).end[k] = "gone"
              THEN Free ELSE Closed(x, n)

\* Frames join the queue of a link that runs at their sender.
LEMMA EnqueueSound ==
  ASSUME NEW x, NEW d \in Node, NEW a \in Node, d # a, NEW u,
         NEW rt, NEW tr, Known(rt, tr), Sound(x, d, a, u, rt, tr), NEW n \in {d, a}, x.end[n] = "run",
         NEW frames \in Seq(Says(rt[n], tr[n])), NEW y,
         y = Queued(x, n, frames)
  PROVE  Sound(y, d, a, u, rt, tr) /\ SameEnds(x, y)
<1> DEFINE to == [m \in {d, a} |-> IF m = n THEN x.to[m] ELSE x.to[m] \o frames]
<1>1. /\ x.lost \in BOOLEAN /\ Sides(x) = {d, a} /\ x.side[1] = d /\ x.side[2] = a
      /\ x.end \in [{d, a} -> {"run", "wait", "gone"}]
      /\ x.to \in [{d, a} -> Seq(ClusterMsg)]
  BY SoundParts
<1>2. y = Parts(d, a, x.end, to, x.lost)
  BY <1>1 DEF Sound, Connection, Parts, Queued, Popped, Taken, Closed
<1>3. frames \in Seq(ClusterMsg)
  BY FramesTyped
<1>4. to \in [{d, a} -> Seq(ClusterMsg)]
  BY <1>1, <1>3, ConcatOf
<1>5. PICK m \in {d, a} : m # n
  OBVIOUS
<1>6. to[n] = x.to[n] /\ to[m] = x.to[m] \o frames
  BY <1>5
<1> HIDE DEF to
<1>7. Carries(to, d, a, rt, tr)
  <2>1. x.to[m] \in Seq(Says(rt[n], tr[n])) /\ x.to[n] \in Seq(Says(rt[m], tr[m]))
    BY <1>5 DEF Sound, Carries
  <2>2. to[m] \in Seq(Says(rt[n], tr[n]))
    BY <1>6, <2>1, ConcatOf
  <2> QED
    <3>1. (m = d /\ n = a) \/ (m = a /\ n = d)
      BY <1>5
    <3> QED
      BY <1>6, <2>1, <2>2, <3>1 DEF Carries
<1>8. Ended(x.end, to, d, a, u)
  BY <1>5, <1>6 DEF Sound, Ended
<1>9. Fits(d, a, x.end, to, x.lost, u, rt, tr)
  BY <1>1, <1>4, <1>7, <1>8 DEF Fits
<1>10. Sound(y, d, a, u, rt, tr) /\ y # Free /\ Sides(y) = {d, a} /\ y.end = x.end
  BY <1>2, <1>9, MakeSound
<1> QED
  BY <1>1, <1>10 DEF SameEnds

LEMMA ReadSays ==
  ASSUME NEW x, NEW d, NEW a, NEW u, NEW rt, NEW tr, Sound(x, d, a, u, rt, tr),
         NEW n \in {d, a}, NEW m \in {d, a}, m # n, x.to[n] # <<>>
  PROVE  Head(x.to[n]) \in Says(rt[m], tr[m])
<1>1. x.to[n] \in Seq(Says(rt[m], tr[m]))
  BY DEF Sound, Carries
<1> QED
  BY <1>1, HeadTailOf

\* The oldest frame is read.
LEMMA ReadSound ==
  ASSUME NEW x, NEW d \in Node, NEW a \in Node, d # a, NEW u,
         NEW rt, NEW tr, Known(rt, tr), Sound(x, d, a, u, rt, tr), NEW n \in {d, a}, x.to[n] # <<>>,
         NEW m \in {d, a}, m # n, NEW y, y = Popped(x, n)
  PROVE  Sound(y, d, a, u, rt, tr) /\ SameEnds(x, y)
<1> DEFINE to == [x.to EXCEPT ![n] = Tail(@)]
<1>1. /\ x.lost \in BOOLEAN /\ Sides(x) = {d, a} /\ x.side[1] = d /\ x.side[2] = a
      /\ x.end \in [{d, a} -> {"run", "wait", "gone"}]
      /\ x.to \in [{d, a} -> Seq(ClusterMsg)]
  BY SoundParts
<1>2. y = Parts(d, a, x.end, to, x.lost)
  BY <1>1 DEF Sound, Connection, Parts, Queued, Popped, Taken, Closed
<1>3. x.to[n] \in Seq(Says(rt[m], tr[m]))
  BY DEF Sound, Carries
<1>4. Tail(x.to[n]) \in Seq(Says(rt[m], tr[m]))
  BY <1>3, HeadTailOf
<1>5. Tail(x.to[n]) \in Seq(ClusterMsg)
  BY <1>4, FramesTyped
<1>6. /\ to[n] = Tail(x.to[n]) /\ to[m] = x.to[m] /\ to \in [{d, a} -> Seq(ClusterMsg)]
  BY <1>1, <1>5
<1> HIDE DEF to
<1>7. Carries(to, d, a, rt, tr)
  BY <1>4, <1>6 DEF Sound, Carries
<1>8. Ended(x.end, to, d, a, u)
  BY <1>6 DEF Sound, Ended
<1>9. Fits(d, a, x.end, to, x.lost, u, rt, tr)
  BY <1>1, <1>6, <1>7, <1>8 DEF Fits
<1>10. Sound(y, d, a, u, rt, tr) /\ y # Free /\ Sides(y) = {d, a} /\ y.end = x.end
  BY <1>2, <1>9, MakeSound
<1> QED
  BY <1>1, <1>10 DEF SameEnds

\* The acceptor takes the connection and greets.
LEMMA AcceptSound ==
  ASSUME NEW x, NEW d \in Node, NEW a \in Node, d # a, NEW u,
         NEW rt, NEW tr, Known(rt, tr), Sound(x, d, a, u, rt, tr), x.end[a] = "wait", NEW g \in Seq(Says(rt[a], tr[a])),
         NEW y, y = Taken(x, a, d, g)
  PROVE  /\ Sound(y, d, a, u, rt, tr)
         /\ \A p, q \in Node : Live(y, p, q) <=> Live(x, p, q) \/ (p = a /\ q = d)
<1> DEFINE to  == [x.to EXCEPT ![d] = g]
           end == [x.end EXCEPT ![a] = "run"]
<1>1. /\ x.lost \in BOOLEAN /\ Sides(x) = {d, a} /\ x.side[1] = d /\ x.side[2] = a
      /\ x.end \in [{d, a} -> {"run", "wait", "gone"}]
      /\ x.to \in [{d, a} -> Seq(ClusterMsg)]
  BY SoundParts
<1>2. y = Parts(d, a, end, to, x.lost)
  BY <1>1 DEF Sound, Connection, Parts, Queued, Popped, Taken, Closed
<1>3. g \in Seq(ClusterMsg)
  BY FramesTyped
<1>4. /\ to[d] = g /\ to[a] = x.to[a] /\ end[a] = "run" /\ end[d] = x.end[d]
      /\ to \in [{d, a} -> Seq(ClusterMsg)] /\ end \in [{d, a} -> {"run", "wait", "gone"}]
  BY <1>1, <1>3
<1> HIDE DEF to, end
<1>5. Carries(to, d, a, rt, tr)
  BY <1>4 DEF Sound, Carries
<1>6. Ended(end, to, d, a, u)
  BY <1>4 DEF Sound, Ended
<1>7. Sound(y, d, a, u, rt, tr) /\ y # Free /\ Sides(y) = {d, a} /\ y.end = end
  <2>1. Fits(d, a, end, to, x.lost, u, rt, tr)
    BY <1>1, <1>4, <1>5, <1>6 DEF Fits
  <2> QED
    BY <1>2, <2>1, MakeSound
<1>8. x # Free
  BY FreeAssumption DEF Sound
<1>9. \A p, q \in Node : Live(x, p, q) <=> {d, a} = {p, q} /\ x.end[p] = "run"
  BY <1>1, <1>8 DEF Live
<1>10. \A p, q \in Node : Live(y, p, q) <=> {d, a} = {p, q} /\ end[p] = "run"
  BY <1>7 DEF Live
<1>11. ASSUME NEW p \in Node, NEW q \in Node
       PROVE  {d, a} = {p, q} <=> (p = d /\ q = a) \/ (p = a /\ q = d)
  OBVIOUS
<1>12. ASSUME NEW p \in Node, NEW q \in Node
       PROVE  Live(y, p, q) <=> Live(x, p, q) \/ (p = a /\ q = d)
  <2>1. CASE p = d /\ q = a
    BY <1>4, <1>9, <1>10, <2>1
  <2>2. CASE p = a /\ q = d
    BY <1>4, <1>10, <1>11, <2>2
  <2>3. CASE ~(p = d /\ q = a) /\ ~(p = a /\ q = d)
    BY <1>9, <1>10, <1>11, <2>3
  <2> QED
    BY <2>1, <2>2, <2>3
<1> QED
  BY <1>7, <1>12

\* An end is through with the connection, which is freed after the second.
LEMMA LeftSound ==
  ASSUME NEW x, NEW d \in Node, NEW a \in Node, d # a, NEW u,
         NEW rt, NEW tr, Known(rt, tr), Sound(x, d, a, u, rt, tr), NEW n \in {d, a},
         NEW v, \A k \in {d, a} \ {n} : x.end[k] # "gone" => k \in v,
         NEW z, z = Left(x, n)
  PROVE  /\ z # Free => Sound(z, d, a, v, rt, tr)
         /\ \A p, q \in Node : Live(z, p, q) <=> Live(x, p, q) /\ p # n
<1> DEFINE to  == [x.to EXCEPT ![n] = <<>>]
           end == [x.end EXCEPT ![n] = "gone"]
<1>1. PICK y : y = Closed(x, n)
  OBVIOUS
<1>2. z = IF \A k \in DOMAIN y.end : y.end[k] = "gone" THEN Free ELSE y
  BY <1>1 DEF Left
<1>3. /\ x.lost \in BOOLEAN /\ Sides(x) = {d, a} /\ x.side[1] = d /\ x.side[2] = a
      /\ x.end \in [{d, a} -> {"run", "wait", "gone"}]
      /\ x.to \in [{d, a} -> Seq(ClusterMsg)]
  BY SoundParts
<1>4. y = Parts(d, a, end, to, x.lost)
  BY <1>1, <1>3 DEF Sound, Connection, Parts, Closed
<1>5. <<>> \in Seq(ClusterMsg)
  OBVIOUS
<1>6. /\ to[n] = <<>> /\ end[n] = "gone"
      /\ \A k \in {d, a} \ {n} : to[k] = x.to[k] /\ end[k] = x.end[k]
      /\ to \in [{d, a} -> Seq(ClusterMsg)] /\ end \in [{d, a} -> {"run", "wait", "gone"}]
  BY <1>3, <1>5
<1> HIDE DEF to, end
<1>7. x # Free /\ Sides(y) = {d, a} /\ y.end = end
  <2>1. x # Free
    BY FreeAssumption DEF Sound
  <2> QED
    BY <1>4, <2>1, PartsFacts
<1>8. \A p, q \in Node : Live(x, p, q) <=> {d, a} = {p, q} /\ x.end[p] = "run"
  BY <1>3, <1>7 DEF Live
<1>9. CASE \A k \in {d, a} : end[k] = "gone"
  <2>1. z = Free
    BY <1>2, <1>6, <1>7, <1>9
  <2>2. \A k \in {d, a} \ {n} : x.end[k] = "gone"
    BY <1>6, <1>9
  <2> QED
    BY <1>8, <2>1, <2>2 DEF Live
<1>10. CASE ~(\A k \in {d, a} : end[k] = "gone")
  <2>1. z = y
    BY <1>6, <1>7, <1>10, <1>2
  <2>2. Carries(to, d, a, rt, tr)
    <3>1. \A S : <<>> \in Seq(S)
      OBVIOUS
    <3> QED
      BY <1>6, <3>1 DEF Sound, Carries
  <2>3. Ended(end, to, d, a, v)
    BY <1>6, <1>10 DEF Sound, Ended
  <2>4. Sound(y, d, a, v, rt, tr) /\ y # Free
    <3>1. Fits(d, a, end, to, x.lost, v, rt, tr)
      BY <1>3, <1>6, <2>2, <2>3 DEF Fits
    <3> QED
      BY <1>4, <3>1, MakeSound
  <2>5. \A p, q \in Node : Live(y, p, q) <=> {d, a} = {p, q} /\ end[p] = "run"
    BY <1>7, <2>4 DEF Live
  <2>6. \A p, q \in Node : {d, a} = {p, q} => p \in {d, a}
    OBVIOUS
  <2>7. \A p \in {d, a} : end[p] = "run" <=> x.end[p] = "run" /\ p # n
    BY <1>6
  <2> QED
    BY <1>8, <2>1, <2>4, <2>5, <2>6, <2>7
<1> QED
  BY <1>9, <1>10

\* A lost connection carries nothing, whatever becomes of its members' knowledge.
LEMMA LostSound ==
  ASSUME NEW x, NEW d \in Node, NEW a \in Node, NEW u, NEW rt, NEW tr,
         Sound(x, d, a, u, rt, tr), NEW ru, NEW tu, NEW y, y = Lost(x)
  PROVE  Sound(y, d, a, u, ru, tu) /\ SameEnds(x, y)
<1> DEFINE to == [k \in {d, a} |-> <<>>]
<1>1. /\ Sides(x) = {d, a} /\ x.side[1] = d /\ x.side[2] = a
      /\ x.end \in [{d, a} -> {"run", "wait", "gone"}]
      /\ x.to \in [{d, a} -> Seq(ClusterMsg)]
  BY SoundParts
<1>2. PICK l : l \in BOOLEAN /\ y = Parts(d, a, x.end, to, l)
  <2>1. y = Parts(d, a, x.end, to, TRUE)
    BY <1>1 DEF Sound, Connection, Parts, Lost
  <2> QED
    BY <2>1
<1>3. /\ to[d] = <<>> /\ to[a] = <<>> /\ to \in [{d, a} -> Seq(ClusterMsg)]
  OBVIOUS
<1> HIDE DEF to
<1>4. Carries(to, d, a, ru, tu) /\ Ended(x.end, to, d, a, u)
  <2>1. \A S : <<>> \in Seq(S)
    OBVIOUS
  <2> QED
    BY <1>3, <2>1 DEF Sound, Carries, Ended
<1>5. Fits(d, a, x.end, to, l, u, ru, tu)
  BY <1>1, <1>2, <1>3, <1>4 DEF Fits
<1>6. Sound(y, d, a, u, ru, tu) /\ y # Free /\ Sides(y) = {d, a} /\ y.end = x.end
  BY <1>2, <1>5, MakeSound
<1> QED
  BY <1>1, <1>6 DEF SameEnds

LEMMA SameLive ==
  ASSUME NEW x, NEW y, x # Free, SameEnds(x, y)
  PROVE  y # Free /\ \A p, q \in Node : Live(y, p, q) <=> Live(x, p, q)
BY DEF Live, SameEnds

LEMMA NodeOrder ==
  ASSUME NEW n \in Node, NEW m \in Node, n < m
  PROVE  n # m /\ ~(m < n)
BY ClusterAssumption

\* Connection c between n and m, which d dialed to a.
Joins(c, n, m, d, a) ==
  /\ d < a /\ d # a /\ Sound(conn[c], d, a, up, held, trust)
  /\ n \in {d, a} /\ m \in {d, a} /\ m # n /\ {d, a} = {n, m} /\ Other(c, n) = m
  /\ conn[c] # Free /\ Ends(c) = {d, a} /\ Sides(conn[c]) = {d, a}

\* The two members of a connection, seen from one of them.
LEMMA SidesOf ==
  ASSUME ConnsSound, NEW c \in Conn, NEW n \in Ends(c)
  PROVE  \E d, a, m \in Node : Joins(c, n, m, d, a)
<1>1. conn[c] # Free
  BY DEF Ends
<1>2. PICK d \in Node, a \in Node : d < a /\ Sound(conn[c], d, a, up, held, trust)
  BY <1>1 DEF ConnsSound, Slot
<1>3. Sides(conn[c]) = {d, a} /\ Ends(c) = Sides(conn[c])
  BY <1>1, <1>2, SoundParts DEF Ends, Sides
<1>4. d # a
  BY <1>2, NodeOrder
<1>5. PICK m \in {d, a} : m # n
  BY <1>4
<1>6. n \in {d, a} /\ {d, a} = {n, m}
  BY <1>3, <1>5
<1>7. Other(c, n) = m
  BY <1>3, <1>5, <1>6 DEF Other
<1> QED
  BY <1>1, <1>2, <1>3, <1>4, <1>5, <1>6, <1>7 DEF Joins

\* A link that runs at a member, in the terms of the specification.
LEMMA RunningLive ==
  ASSUME ConnsSound, NEW c \in Conn, NEW n \in Node, NEW m \in Node, n # m
  PROVE  Live(conn[c], n, m) <=> Running(c, n) /\ m \in Ends(c)
<1>1. CASE conn[c] = Free
  BY <1>1 DEF Live, Running, Ends
<1>2. CASE conn[c] # Free
  <2>1. PICK d \in Node, a \in Node : d < a /\ Sound(conn[c], d, a, up, held, trust)
    BY <1>2 DEF ConnsSound, Slot
  <2>2. Sides(conn[c]) = {d, a} /\ Ends(c) = {d, a}
    BY <1>2, <2>1, SoundParts DEF Ends
  <2>3. {d, a} = {n, m} <=> n \in {d, a} /\ m \in {d, a}
    OBVIOUS
  <2> QED
    BY <1>2, <2>2, <2>3 DEF Live, Running
<1> QED
  BY <1>1, <1>2

\* Slots that a step leaves alone, while the members learn more.
LEMMA SlotLater ==
  ASSUME NEW x, NEW u, NEW rt \in [Node -> 0 .. MaxEpoch], NEW tr \in [Node -> Trust],
         Slot(x, u, rt, tr), NEW v, \A n \in Node : n \in u => n \in v,
         NEW ru \in [Node -> 0 .. MaxEpoch], NEW tu \in [Node -> Trust],
         \A n \in Node : rt[n] <= ru[n] /\ tr[n] <= tu[n]
  PROVE  Slot(x, v, ru, tu)
<1> SUFFICES ASSUME x # Free
             PROVE  \E d, a \in Node : d < a /\ Sound(x, d, a, v, ru, tu)
  BY DEF Slot
<1>1. PICK d \in Node, a \in Node : d < a /\ Sound(x, d, a, u, rt, tr)
  BY DEF Slot
<1>2. \A n \in {d, a} : x.end[n] # "gone" => n \in v
  BY <1>1 DEF Sound, Ended
<1>3. Sound(x, d, a, v, ru, tu)
  BY <1>1, <1>2, SoundLater
<1> QED
  BY <1>1, <1>3

\* No link starts or ends, and the tables are left alone.
LEMMA SameLinks ==
  ASSUME PeersLive, DialerOne, SubsLive, peers' = peers, remote_subs' = remote_subs,
         \A c \in Conn : \A n, m \in Node : Live(conn'[c], n, m) <=> Live(conn[c], n, m)
  PROVE  PeersLive' /\ DialerOne' /\ SubsLive'
<1>1. PeersLive'
  BY DEF PeersLive
<1>2. DialerOne'
  BY DEF DialerOne
<1>3. SubsLive'
  BY DEF SubsLive
<1> QED
  BY <1>1, <1>2, <1>3

\* What the members know only grows, unless one crashes.
Grows ==
  /\ \A n \in Node : n \in up => n \in up'
  /\ \A n \in Node : held[n] <= held'[n] /\ trust[n] <= trust'[n]

LEMMA SameConns ==
  ASSUME LinkInv, Tables', Grows, conn' = conn, peers' = peers, remote_subs' = remote_subs
  PROVE  LinkInv'
<1>1. ConnsSound'
  BY SlotLater DEF LinkInv, Tables, ConnsSound, Grows
<1>2. PeersLive' /\ DialerOne' /\ SubsLive'
  BY SameLinks DEF LinkInv
<1> QED
  BY <1>1, <1>2 DEF LinkInv

\* send_to_all_peers, whose frames are no news to their sender.
LEMMA EnqueueStep ==
  ASSUME LinkInv, Tables', Grows, NEW n \in Node,
         NEW frames \in Seq(Says(held'[n], trust'[n])), conn' = Enqueue(conn, n, frames),
         peers' = peers, remote_subs' = remote_subs
  PROVE  LinkInv'
<1>1. ASSUME NEW c \in Conn
      PROVE  /\ Slot(conn'[c], up', held', trust')
             /\ \A p, q \in Node : Live(conn'[c], p, q) <=> Live(conn[c], p, q)
  <2>1. Slot(conn[c], up', held', trust')
    BY SlotLater DEF LinkInv, Tables, ConnsSound, Grows
  <2>2. CASE conn[c] # Free /\ ~conn[c].lost /\ \E m \in Node \ {n} : peers[n][m] = c
    <3>1. conn'[c] = Queued(conn[c], n, frames)
      BY <2>2 DEF Enqueue, Queued
    <3>2. PICK m \in Node \ {n} : peers[n][m] = c
      BY <2>2
    <3>3. Live(conn[c], n, m)
      BY <3>2, ClusterAssumption DEF LinkInv, PeersLive
    <3>4. PICK d \in Node, a \in Node : d < a /\ Sound(conn[c], d, a, up', held', trust')
      BY <2>1, <2>2 DEF Slot
    <3>5. n \in {d, a} /\ conn[c].end[n] = "run" /\ Sides(conn[c]) = {d, a}
      BY <3>3, <3>4, SoundParts DEF Live
    <3>6. d # a
      BY <3>4, NodeOrder
    <3>7. Known(held', trust')
      BY DEF Tables, Known
    <3>8. Sound(conn'[c], d, a, up', held', trust') /\ SameEnds(conn[c], conn'[c])
      BY <3>1, <3>4, <3>5, <3>6, <3>7, EnqueueSound
    <3> QED
      BY <2>2, <3>4, <3>8, SameLive DEF Slot
  <2>3. CASE ~(conn[c] # Free /\ ~conn[c].lost /\ \E m \in Node \ {n} : peers[n][m] = c)
    <3>1. conn'[c] = conn[c]
      BY <2>3 DEF Enqueue
    <3> QED
      BY <2>1, <3>1
  <2> QED
    BY <2>2, <2>3
<1>2. ConnsSound'
  BY <1>1 DEF ConnsSound
<1>3. PeersLive' /\ DialerOne' /\ SubsLive'
  BY <1>1, SameLinks DEF LinkInv
<1> QED
  BY <1>2, <1>3 DEF LinkInv

\* read_loop: the frame comes from the other member of a link that runs, and is no
\* news to it.
LEMMA FrameFacts ==
  ASSUME LinkInv, NEW c \in Conn, NEW n \in Node, NEW kind, Frame(c, n, kind)
  PROVE  /\ \E m \in Node \ {n} :
              /\ Other(c, n) = m /\ Live(conn[c], n, m)
              /\ Head(conn[c].to[n]) \in Says(held[m], trust[m])
         /\ Head(conn[c].to[n]).kind = kind
         /\ \A b \in Conn : /\ Slot(conn'[b], up, held, trust)
                            /\ \A p, q \in Node : Live(conn'[b], p, q) <=> Live(conn[b], p, q)
         /\ conn' = [b \in Conn |-> conn'[b]]
<1>1. n \in Ends(c) /\ conn[c].end[n] = "run" /\ conn[c].to[n] # <<>>
  BY DEF Frame, Running
<1>2. PICK d \in Node, a \in Node, m \in Node : Joins(c, n, m, d, a)
  BY <1>1, SidesOf DEF LinkInv
<1>3. /\ d < a /\ d # a /\ Sound(conn[c], d, a, up, held, trust)
      /\ n \in {d, a} /\ m \in {d, a} /\ m # n /\ {d, a} = {n, m} /\ Other(c, n) = m
      /\ conn[c] # Free /\ Sides(conn[c]) = {d, a}
  BY <1>2 DEF Joins
<1>4. /\ conn'[c] = Popped(conn[c], n)
      /\ \A b \in Conn \ {c} : conn'[b] = conn[b]
  <2>1. conn = [b \in Conn |-> conn[b]]
    BY DEF LinkInv, Tables
  <2>2. conn' = [conn EXCEPT ![c].to[n] = Tail(@)]
    BY DEF Frame
  <2> QED
    BY <2>1, <2>2 DEF Popped
<1>5. conn' = [b \in Conn |-> conn'[b]]
  BY DEF LinkInv, Tables, Frame
<1>6. Known(held, trust)
  BY DEF LinkInv, Tables, Known
<1>7. Sound(conn'[c], d, a, up, held, trust) /\ SameEnds(conn[c], conn'[c])
  <2>1. Sound(conn[c], d, a, up, held, trust) /\ d # a /\ n \in {d, a} /\ m \in {d, a} /\ m # n
    BY <1>3
  <2>2. conn[c].to[n] # <<>> /\ conn'[c] = Popped(conn[c], n)
    BY <1>1, <1>4
  <2> QED
    BY <1>6, <2>1, <2>2, ReadSound
<1>8. Head(conn[c].to[n]) \in Says(held[m], trust[m])
  BY <1>1, <1>3, ReadSays
<1>9. conn'[c] # Free /\ \A p, q \in Node : Live(conn'[c], p, q) <=> Live(conn[c], p, q)
  BY <1>3, <1>7, SameLive
<1>10. Slot(conn'[c], up, held, trust)
  BY <1>3, <1>7 DEF Slot
<1>11. Live(conn[c], n, m) /\ m \in Node \ {n}
  BY <1>1, <1>3 DEF Live
<1>12. Head(conn[c].to[n]).kind = kind
  BY DEF Frame
<1> QED
  <2>1. \A b \in Conn : /\ Slot(conn'[b], up, held, trust)
                      /\ \A p, q \in Node : Live(conn'[b], p, q) <=> Live(conn[b], p, q)
    BY <1>4, <1>9, <1>10 DEF LinkInv, ConnsSound
  <2> QED
    BY <1>3, <1>5, <1>8, <1>11, <1>12, <2>1

\* A frame is read and changes what its reader knows or holds.
LEMMA ReadStep ==
  ASSUME LinkInv, Tables', Grows, NEW c \in Conn, NEW n \in Node, NEW kind, Frame(c, n, kind),
         peers' = peers,
         \A p \in Node : \A q \in Node \ {p} :
           remote_subs'[p][q] = remote_subs[p][q] \/ (p = n /\ q = Other(c, n))
  PROVE  LinkInv'
<1>1. \A b \in Conn : /\ Slot(conn'[b], up, held, trust)
                      /\ \A p, q \in Node : Live(conn'[b], p, q) <=> Live(conn[b], p, q)
  BY FrameFacts
<1>2. ConnsSound'
  <2>1. \A b \in Conn : Slot(conn'[b], up', held', trust')
    BY <1>1, SlotLater DEF LinkInv, Tables, Grows
  <2> QED
    BY <2>1 DEF ConnsSound
<1>3. PeersLive' /\ DialerOne'
  BY <1>1 DEF LinkInv, PeersLive, DialerOne
<1>4. SubsLive'
  <2>1. PICK m \in Node \ {n} : Other(c, n) = m /\ Live(conn[c], n, m)
    BY FrameFacts
  <2> QED
    BY <1>1, <2>1 DEF LinkInv, SubsLive
<1> QED
  BY <1>2, <1>3, <1>4 DEF LinkInv

\* A link that is dialed.
LEMMA NewSound ==
  ASSUME NEW d \in Node, NEW a \in Node, d # a, NEW u, d \in u, a \in u,
         NEW rt, NEW tr, Known(rt, tr), NEW g \in Seq(Says(rt[d], tr[d])),
         NEW y, y = NewConn(d, a, g)
  PROVE  /\ Sound(y, d, a, u, rt, tr) /\ y # Free
         /\ \A p, q \in Node : Live(y, p, q) <=> p = d /\ q = a
<1> DEFINE end == [n \in {d, a} |-> IF n = d THEN "run" ELSE "wait"]
           to  == [n \in {d, a} |-> IF n = a THEN g ELSE <<>>]
<1>1. PICK l : l \in BOOLEAN /\ y = Parts(d, a, end, to, l)
  <2>1. y = Parts(d, a, end, to, FALSE)
    BY DEF NewConn, Parts
  <2> QED
    BY <2>1
<1>2. g \in Seq(ClusterMsg)
  BY FramesTyped
<1>3. /\ end[d] = "run" /\ end[a] = "wait" /\ to[d] = <<>> /\ to[a] = g
      /\ end \in [{d, a} -> {"run", "wait", "gone"}] /\ to \in [{d, a} -> Seq(ClusterMsg)]
  BY <1>2
<1> HIDE DEF end, to
<1>4. Carries(to, d, a, rt, tr)
  <2>1. \A S : <<>> \in Seq(S)
    OBVIOUS
  <2> QED
    BY <1>3, <2>1 DEF Carries
<1>5. Ended(end, to, d, a, u)
  BY <1>3 DEF Ended
<1>6. Fits(d, a, end, to, l, u, rt, tr)
  BY <1>1, <1>3, <1>4, <1>5 DEF Fits
<1>7. Sound(y, d, a, u, rt, tr) /\ y # Free /\ Sides(y) = {d, a} /\ y.end = end
  BY <1>1, <1>6, MakeSound
<1>8. \A p, q \in Node : Live(y, p, q) <=> {d, a} = {p, q} /\ end[p] = "run"
  BY <1>7 DEF Live
<1>9. ASSUME NEW p \in Node, NEW q \in Node
      PROVE  {d, a} = {p, q} <=> (p = d /\ q = a) \/ (p = a /\ q = d)
  OBVIOUS
<1>10. ASSUME NEW p \in Node, NEW q \in Node
       PROVE  Live(y, p, q) <=> p = d /\ q = a
  <2>1. CASE p = d /\ q = a
    BY <1>3, <1>8, <1>9, <2>1
  <2>2. CASE p = a /\ q = d
    BY <1>3, <1>8, <2>2
  <2>3. CASE ~(p = d /\ q = a) /\ ~(p = a /\ q = d)
    BY <1>8, <1>9, <2>3
  <2> QED
    BY <2>1, <2>2, <2>3
<1> QED
  BY <1>7, <1>10

\* dial_loop dials only while it runs no link to that member.
LEMMA DialStep ==
  ASSUME LinkInv, NEW d \in Node, NEW a \in Node, NEW c \in Conn, Dial(d, a, c), Tables'
  PROVE  LinkInv'
<1>1. d < a /\ d \in up /\ a \in up /\ conn[c] = Free
  BY DEF Dial
<1>2. d # a /\ ~(a < d)
  BY <1>1, NodeOrder
<1>3. Known(held, trust)
  BY DEF LinkInv, Tables, Known
<1>4. Greeting(d) \in Seq(Says(held[d], trust[d]))
  BY SentFrames DEF LinkInv
<1>5. conn'[c] = NewConn(d, a, Greeting(d)) /\ \A b \in Conn \ {c} : conn'[b] = conn[b]
  BY DEF Dial, LinkInv, Tables
<1>6. /\ Sound(conn'[c], d, a, up, held, trust) /\ conn'[c] # Free
      /\ \A p, q \in Node : Live(conn'[c], p, q) <=> p = d /\ q = a
  BY <1>1, <1>2, <1>3, <1>4, <1>5, NewSound
<1>7. /\ peers'[d][a] = c
      /\ \A p \in Node : \A q \in Node \ {p} : ~(p = d /\ q = a) => peers'[p][q] = peers[p][q]
  <2>1. peers' = SetEntry(peers, d, a, c)
    BY DEF Dial, SetEntry
  <2>2. Table(peers, Senders) /\ c \in Senders
    BY DEF LinkInv, Tables, Senders
  <2>3. Entered(peers', peers, d, a, c)
    BY <1>2, <2>1, <2>2, TableSet
  <2> QED
    BY <2>3 DEF Entered
<1>8. up' = up /\ held' = held /\ trust' = trust /\ remote_subs' = remote_subs
  BY DEF Dial, meta, data, held
<1>9. ConnsSound'
  BY <1>1, <1>5, <1>6, <1>8 DEF LinkInv, ConnsSound, Slot
<1>10. \A p, q \in Node : ~Live(conn[c], p, q)
  BY <1>1 DEF Live
<1>11. PeersLive'
  BY <1>5, <1>6, <1>7, <1>10 DEF LinkInv, PeersLive
<1>12. \A b \in Conn : ~Live(conn[b], d, a)
  BY <1>2, RunningLive DEF Dial, LinkInv
<1>13. DialerOne'
  <2> SUFFICES ASSUME NEW b \in Conn, NEW p \in Node, NEW q \in Node, p < q, Live(conn'[b], p, q)
               PROVE  peers'[p][q] = b
    BY DEF DialerOne
  <2>1. CASE b = c
    BY <1>6, <1>7, <2>1
  <2>2. CASE b # c
    BY <1>5, <1>7, <1>12, <2>2, NodeOrder DEF LinkInv, DialerOne
  <2> QED
    BY <2>1, <2>2
<1>14. SubsLive'
  BY <1>5, <1>8, <1>10 DEF LinkInv, SubsLive
<1> QED
  BY <1>9, <1>11, <1>13, <1>14 DEF LinkInv

\* Only the acceptor's end waits.
LEMMA WaitsAtAcceptor ==
  ASSUME NEW x, NEW d, NEW a, NEW u, NEW rt, NEW tr, Sound(x, d, a, u, rt, tr),
         NEW n \in {d, a}, x.end[n] = "wait"
  PROVE  n = a
BY DEF Sound, Ended

\* handle_incoming, of a link that the smaller id dialed.
LEMMA HandleIncomingStep ==
  ASSUME LinkInv, NEW n \in Node, NEW c \in Conn, HandleIncoming(c, n), Tables'
  PROVE  LinkInv'
<1>1. n \in Ends(c) /\ conn[c].end[n] = "wait"
  BY DEF HandleIncoming
<1>2. PICK d \in Node, a \in Node, m \in Node : Joins(c, n, m, d, a)
  BY <1>1, SidesOf DEF LinkInv
<1>3. /\ d < a /\ d # a /\ Sound(conn[c], d, a, up, held, trust) /\ conn[c] # Free
      /\ n \in {d, a} /\ m \in {d, a} /\ m # n /\ Other(c, n) = m
  BY <1>2 DEF Joins
<1>4. n = a /\ m = d
  BY <1>1, <1>3, WaitsAtAcceptor
<1>5. Known(held, trust) /\ Greeting(a) \in Seq(Says(held[a], trust[a]))
  BY SentFrames DEF LinkInv, Tables, Known
<1>6. conn'[c] = Taken(conn[c], a, d, Greeting(a)) /\ \A b \in Conn \ {c} : conn'[b] = conn[b]
  <2>1. conn' = [conn EXCEPT ![c].end[a] = "run", ![c].to[d] = Greeting(a)]
    BY <1>3, <1>4 DEF HandleIncoming
  <2>2. conn = [b \in Conn |-> conn[b]]
    BY DEF LinkInv, Tables
  <2> QED
    BY <2>1, <2>2 DEF Taken
<1>7. /\ Sound(conn'[c], d, a, up, held, trust)
      /\ \A p, q \in Node : Live(conn'[c], p, q) <=> Live(conn[c], p, q) \/ (p = a /\ q = d)
  <2>1. Sound(conn[c], d, a, up, held, trust) /\ d # a /\ conn[c].end[a] = "wait"
    BY <1>1, <1>3, <1>4
  <2> QED
    BY <1>5, <1>6, <2>1, AcceptSound
<1>8. Entered(peers', peers, a, d, c)
  <2>1. peers' = SetEntry(peers, a, d, c)
    BY <1>3, <1>4 DEF HandleIncoming, SetEntry
  <2>2. Table(peers, Senders) /\ c \in Senders /\ d # a
    BY <1>3 DEF LinkInv, Tables, Senders
  <2> QED
    BY <2>1, <2>2, TableSet
<1>9. up' = up /\ held' = held /\ trust' = trust /\ remote_subs' = remote_subs
  BY DEF HandleIncoming, meta, data, held
<1>10. ConnsSound'
  BY <1>3, <1>6, <1>7, <1>9 DEF LinkInv, ConnsSound, Slot
<1>11. PeersLive'
  BY <1>3, <1>6, <1>7, <1>8 DEF LinkInv, PeersLive, Entered
<1>12. DialerOne'
  <2> SUFFICES ASSUME NEW b \in Conn, NEW p \in Node, NEW q \in Node, p < q, Live(conn'[b], p, q)
               PROVE  peers'[p][q] = b
    BY DEF DialerOne
  <2>1. ~(p = a /\ q = d) /\ p # q
    BY <1>3, NodeOrder
  <2>2. Live(conn[b], p, q)
    BY <1>6, <1>7, <2>1
  <2>3. peers[p][q] = b
    BY <2>2 DEF LinkInv, DialerOne
  <2> QED
    BY <1>8, <2>1, <2>3 DEF Entered
<1>13. SubsLive'
  BY <1>6, <1>7, <1>9 DEF LinkInv, SubsLive
<1> QED
  BY <1>10, <1>11, <1>12, <1>13 DEF LinkInv

\* An end of a connection is through with it: what is left of it.
LEMMA EndGoneFacts ==
  ASSUME LinkInv, NEW c \in Conn, NEW n \in Ends(c), conn' = EndGone(conn, c, n)
  PROVE  /\ \A b \in Conn : Slot(conn'[b], up, held, trust)
         /\ \A b \in Conn \ {c} : conn'[b] = conn[b]
         /\ \A p, q \in Node : Live(conn'[c], p, q) <=> Live(conn[c], p, q) /\ p # n
<1>1. PICK d \in Node, a \in Node, m \in Node : Joins(c, n, m, d, a)
  BY SidesOf DEF LinkInv
<1>2. /\ d < a /\ d # a /\ Sound(conn[c], d, a, up, held, trust) /\ n \in {d, a}
  BY <1>1 DEF Joins
<1>3. conn'[c] = Left(conn[c], n) /\ \A b \in Conn \ {c} : conn'[b] = conn[b]
  <2>1. conn = [b \in Conn |-> conn[b]]
    BY DEF LinkInv, Tables
  <2> QED
    BY <2>1 DEF EndGone, Left, Closed
<1>4. Known(held, trust)
  BY DEF LinkInv, Tables, Known
<1>5. \A k \in {d, a} \ {n} : conn[c].end[k] # "gone" => k \in up
  BY <1>2 DEF Sound, Ended
<1>6. /\ conn'[c] # Free => Sound(conn'[c], d, a, up, held, trust)
      /\ \A p, q \in Node : Live(conn'[c], p, q) <=> Live(conn[c], p, q) /\ p # n
  <2>1. conn'[c] = Left(conn[c], n)
    BY <1>3
  <2> QED
    BY <1>2, <1>4, <1>5, <2>1, LeftSound
<1>7. Slot(conn'[c], up, held, trust)
  BY <1>2, <1>6 DEF Slot
<1> QED
  BY <1>3, <1>6, <1>7 DEF LinkInv, ConnsSound

\* An incoming connection that is abandoned was no link yet.
LEMMA AbandonStep ==
  ASSUME LinkInv, NEW n \in Node, NEW c \in Conn, Abandon(c, n), Tables'
  PROVE  LinkInv'
<1>1. n \in Ends(c) /\ conn[c].end[n] = "wait" /\ conn' = EndGone(conn, c, n)
  BY DEF Abandon
<1>2. /\ \A b \in Conn : Slot(conn'[b], up, held, trust)
      /\ \A b \in Conn \ {c} : conn'[b] = conn[b]
      /\ \A p, q \in Node : Live(conn'[c], p, q) <=> Live(conn[c], p, q) /\ p # n
  BY <1>1, EndGoneFacts
<1>3. \A q \in Node : ~Live(conn[c], n, q)
  BY <1>1 DEF Live
<1>4. \A b \in Conn : \A p, q \in Node : Live(conn'[b], p, q) <=> Live(conn[b], p, q)
  BY <1>2, <1>3
<1>5. /\ up' = up /\ held' = held /\ trust' = trust
      /\ peers' = peers /\ remote_subs' = remote_subs
  BY DEF Abandon, meta, data, held
<1>6. ConnsSound'
  BY <1>2, <1>5 DEF ConnsSound
<1>7. PeersLive' /\ DialerOne' /\ SubsLive'
  BY <1>4, <1>5, SameLinks DEF LinkInv
<1> QED
  BY <1>6, <1>7 DEF LinkInv

\* run_link's teardown goes by the member's id.  At the dialer it finds its own link
\* in the table; at the acceptor it may take a newer link of the member with it.
LEMMA TeardownStep ==
  ASSUME LinkInv, NEW n \in Node, NEW c \in Conn, Teardown(c, n), Tables'
  PROVE  LinkInv'
<1>1. n \in Ends(c) /\ conn[c].end[n] = "run" /\ conn' = EndGone(conn, c, n)
  BY DEF Teardown, Running
<1>2. /\ \A b \in Conn : Slot(conn'[b], up, held, trust)
      /\ \A b \in Conn \ {c} : conn'[b] = conn[b]
      /\ \A p, q \in Node : Live(conn'[c], p, q) <=> Live(conn[c], p, q) /\ p # n
  BY <1>1, EndGoneFacts
<1>3. PICK m \in Node : m # n /\ Other(c, n) = m /\ conn[c] # Free /\ Sides(conn[c]) = {n, m}
  BY <1>1, SidesOf DEF LinkInv, Joins
<1>4. Live(conn[c], n, m) /\ \A q \in Node : Live(conn[c], n, q) => q = m
  BY <1>1, <1>3 DEF Live
<1>5. Entered(peers', peers, n, m, NoConn) /\ Entered(remote_subs', remote_subs, n, m, {})
  <2>1. peers' = SetEntry(peers, n, m, NoConn) /\ remote_subs' = SetEntry(remote_subs, n, m, {})
    BY <1>3 DEF Teardown, SetEntry
  <2>2. Table(peers, Senders) /\ NoConn \in Senders
    BY DEF LinkInv, Tables, Senders
  <2>3. Table(remote_subs, SUBSET Room) /\ {} \in SUBSET Room
    BY DEF LinkInv, Tables
  <2>4. Entered(peers', peers, n, m, NoConn)
    BY <1>3, <2>1, <2>2, TableSet
  <2>5. Entered(remote_subs', remote_subs, n, m, {})
    BY <1>3, <2>1, <2>3, TableSet
  <2> QED
    BY <2>4, <2>5
<1>6. up' = up /\ held' = held /\ trust' = trust
  BY DEF Teardown, meta, data, held
<1>7. ConnsSound'
  BY <1>2, <1>6 DEF ConnsSound
<1>8. ASSUME NEW b \in Conn, NEW p \in Node, NEW q \in Node, Live(conn[b], p, q), ~(p = n /\ q = m)
      PROVE  Live(conn'[b], p, q)
  BY <1>2, <1>4, <1>8
<1>9. PeersLive'
  BY <1>5, <1>8 DEF LinkInv, PeersLive, Entered
<1>10. DialerOne'
  <2> SUFFICES ASSUME NEW b \in Conn, NEW p \in Node, NEW q \in Node, p < q, Live(conn'[b], p, q)
               PROVE  peers'[p][q] = b
    BY DEF DialerOne
  <2>1. Live(conn[b], p, q) /\ ~(b = c /\ p = n) /\ p # q
    BY <1>2, NodeOrder
  <2>2. peers[p][q] = b
    BY <2>1 DEF LinkInv, DialerOne
  <2>3. ~(p = n /\ q = m)
    BY <1>4, <2>1, <2>2 DEF LinkInv, DialerOne
  <2> QED
    BY <1>5, <2>1, <2>2, <2>3 DEF Entered
<1>11. SubsLive'
  BY <1>5, <1>8 DEF LinkInv, SubsLive, Entered
<1> QED
  BY <1>7, <1>9, <1>10, <1>11 DEF LinkInv

LEMMA LoseConnStep ==
  ASSUME LinkInv, NEW c \in Conn, LoseConn(c), Tables'
  PROVE  LinkInv'
<1>1. conn[c] # Free /\ conn'[c] = Lost(conn[c]) /\ \A b \in Conn \ {c} : conn'[b] = conn[b]
  <2>1. conn = [b \in Conn |-> conn[b]]
    BY DEF LinkInv, Tables
  <2>2. conn[c] # Free /\ conn' = [conn EXCEPT ![c] = Lost(@)]
    BY DEF LoseConn
  <2> QED
    BY <2>1, <2>2
<1>2. PICK d \in Node, a \in Node : d < a /\ Sound(conn[c], d, a, up, held, trust)
  BY <1>1 DEF LinkInv, ConnsSound, Slot
<1>3. Sound(conn'[c], d, a, up, held, trust) /\ SameEnds(conn[c], conn'[c])
  BY <1>1, <1>2, LostSound
<1>4. \A b \in Conn : \A p, q \in Node : Live(conn'[b], p, q) <=> Live(conn[b], p, q)
  BY <1>1, <1>3, SameLive
<1>5. /\ up' = up /\ held' = held /\ trust' = trust
      /\ peers' = peers /\ remote_subs' = remote_subs
  BY DEF LoseConn, data, held
<1>6. ConnsSound'
  BY <1>1, <1>2, <1>3, <1>5 DEF LinkInv, ConnsSound, Slot
<1>7. PeersLive' /\ DialerOne' /\ SubsLive'
  BY <1>4, <1>5, SameLinks DEF LinkInv
<1> QED
  BY <1>6, <1>7 DEF LinkInv

\* A crash takes the member's root and what its connections carry, and leaves its
\* ends of them.
LEMMA CrashStep ==
  ASSUME LinkInv, NEW n \in Node, Crash(n), Tables'
  PROVE  LinkInv'
<1>1. /\ up' = up \ {n} /\ trust' = trust
      /\ \A k \in Node \ {n} : held'[k] = held[k]
  BY DEF Crash, LinkInv, Tables, RootsTyped, held
<1>2. Known(held, trust) /\ Known(held', trust')
  BY DEF LinkInv, Tables, Known
<1>3. ASSUME NEW c \in Conn, n \in Ends(c)
      PROVE  /\ Slot(conn'[c], up', held', trust')
             /\ \A p, q \in Node : Live(conn'[c], p, q) <=> Live(conn[c], p, q) /\ p # n
  <2>1. PICK d \in Node, a \in Node, m \in Node : Joins(c, n, m, d, a)
    BY <1>3, SidesOf DEF LinkInv
  <2>2. /\ d < a /\ d # a /\ Sound(conn[c], d, a, up, held, trust) /\ conn[c] # Free
        /\ n \in {d, a} /\ m \in {d, a} /\ m # n /\ {d, a} = {n, m}
    BY <2>1 DEF Joins
  <2>3. PICK y : y = Lost(conn[c])
    OBVIOUS
  <2>4. conn'[c] = Left(y, n)
    <3>1. conn = [b \in Conn |-> conn[b]]
      BY DEF LinkInv, Tables
    <3>2. conn'[c] = EndGone([conn EXCEPT ![c] = Lost(@)], c, n)[c]
      BY <1>3 DEF Crash
    <3>3. PICK cs : cs = [conn EXCEPT ![c] = Lost(@)]
      OBVIOUS
    <3>4. cs = [b \in Conn |-> cs[b]] /\ cs[c] = y
      BY <2>3, <3>1, <3>3
    <3> QED
      BY <3>2, <3>3, <3>4 DEF EndGone, Left, Closed
  <2>5. Sound(y, d, a, up, held', trust') /\ SameEnds(conn[c], y)
    <3>1. Sound(conn[c], d, a, up, held, trust)
      BY <2>2
    <3> QED
      BY <2>3, <3>1, LostSound
  <2>6. \A k \in {d, a} \ {n} : y.end[k] # "gone" => k \in up'
    BY <1>1, <2>5 DEF Sound, Ended
  <2>7. /\ conn'[c] # Free => Sound(conn'[c], d, a, up', held', trust')
        /\ \A p, q \in Node : Live(conn'[c], p, q) <=> Live(y, p, q) /\ p # n
    <3>1. d # a /\ n \in {d, a} /\ Sound(y, d, a, up, held', trust')
      BY <2>2, <2>5
    <3> QED
      BY <1>2, <2>4, <2>6, <3>1, LeftSound
  <2>8. \A p, q \in Node : Live(y, p, q) <=> Live(conn[c], p, q)
    BY <2>2, <2>5, SameLive
  <2> QED
    BY <2>2, <2>7, <2>8 DEF Slot
<1>4. ASSUME NEW c \in Conn, n \notin Ends(c)
      PROVE  /\ Slot(conn'[c], up', held', trust')
             /\ \A p, q \in Node : Live(conn'[c], p, q) <=> Live(conn[c], p, q) /\ p # n
  <2>1. conn'[c] = conn[c]
    BY <1>4 DEF Crash
  <2>2. Slot(conn[c], up, held, trust)
    BY DEF LinkInv, ConnsSound
  <2>3. CASE conn[c] = Free
    BY <2>1, <2>3 DEF Slot, Live
  <2>4. CASE conn[c] # Free
    <3>1. PICK d \in Node, a \in Node : d < a /\ Sound(conn[c], d, a, up, held, trust)
      BY <2>2, <2>4 DEF Slot
    <3>2. Sides(conn[c]) = {d, a} /\ Ends(c) = {d, a}
      BY <2>4, <3>1, SoundParts DEF Ends
    <3>3. \A k \in {d, a} : k \in Node \ {n}
      BY <1>4, <3>2
    <3>4. \A k \in {d, a} : conn[c].end[k] # "gone" => k \in up'
      BY <1>1, <3>1, <3>3 DEF Sound, Ended
    <3>5. \A k \in {d, a} : held[k] <= held'[k] /\ trust[k] <= trust'[k]
      <4>1. \A k \in {d, a} : held[k] \in Nat /\ trust[k] \in Nat
        BY <1>2, <3>3, ClusterAssumption DEF Known, Trust
      <4> QED
        BY <1>1, <3>3, <4>1
    <3>6. /\ held \in [Node -> 0 .. MaxEpoch] /\ trust \in [Node -> Trust]
          /\ held' \in [Node -> 0 .. MaxEpoch] /\ trust' \in [Node -> Trust]
      BY <1>2 DEF Known
    <3>7. Sound(conn[c], d, a, up', held', trust')
      BY <3>1, <3>4, <3>5, <3>6, SoundLater
    <3>8. \A p, q \in Node : Live(conn[c], p, q) => p # n
      BY <3>2, <3>3 DEF Live
    <3> QED
      BY <2>1, <3>1, <3>7, <3>8 DEF Slot
  <2> QED
    BY <2>3, <2>4
<1>5. \A c \in Conn : /\ Slot(conn'[c], up', held', trust')
                      /\ \A p, q \in Node : Live(conn'[c], p, q) <=> Live(conn[c], p, q) /\ p # n
  BY <1>3, <1>4
<1>6. /\ \A m \in Node \ {n} : peers'[n][m] = NoConn /\ remote_subs'[n][m] = {}
      /\ \A k \in Node \ {n} : peers'[k] = peers[k] /\ remote_subs'[k] = remote_subs[k]
  BY DEF Crash, LinkInv, Tables, Table
<1>7. ConnsSound'
  BY <1>5 DEF ConnsSound
<1>8. PeersLive'
  BY <1>5, <1>6 DEF LinkInv, PeersLive
<1>9. DialerOne'
  BY <1>5, <1>6 DEF LinkInv, DialerOne
<1>10. SubsLive'
  BY <1>5, <1>6 DEF LinkInv, SubsLive
<1> QED
  BY <1>7, <1>8, <1>9, <1>10 DEF LinkInv

\* What the steps do to the types.
LEMMA LinkTables ==
  ASSUME LinkInv, NEW n \in Node, NEW c \in Conn,
         \/ HandleIncoming(c, n) \/ Teardown(c, n) \/ Abandon(c, n)
         \/ \E a \in Node : Dial(n, a, c)
  PROVE  Tables'
<1>1. UNCHANGED <<meta, data>>
  BY DEF HandleIncoming, Teardown, Abandon, Dial
<1>2. conn' = [b \in Conn |-> conn'[b]]
  BY DEF HandleIncoming, Teardown, Abandon, Dial, EndGone, LinkInv, Tables
<1>3. Table(peers, Senders) /\ Table(remote_subs, SUBSET Room)
  BY DEF LinkInv, Tables
<1>4. c \in Senders /\ NoConn \in Senders /\ {} \in SUBSET Room
  BY DEF Senders
<1>5. CASE HandleIncoming(c, n) \/ Teardown(c, n)
  <2>1. n \in Ends(c)
    BY <1>5 DEF HandleIncoming, Teardown, Running
  <2>2. PICK m \in Node : m # n /\ Other(c, n) = m
    BY <2>1, SidesOf DEF LinkInv, Joins
  <2>3. \/ peers' = SetEntry(peers, n, m, c) /\ remote_subs' = remote_subs
        \/ peers' = SetEntry(peers, n, m, NoConn) /\ remote_subs' = SetEntry(remote_subs, n, m, {})
    BY <1>5, <2>2 DEF HandleIncoming, Teardown, SetEntry
  <2>4. Table(peers', Senders) /\ Table(remote_subs', SUBSET Room)
    BY <1>3, <1>4, <2>2, <2>3, TableSet
  <2> QED
    BY <1>1, <1>2, <2>4 DEF meta, data, LinkInv, Tables, RootsTyped, held
<1>6. CASE Abandon(c, n)
  BY <1>1, <1>2, <1>3, <1>6 DEF Abandon, meta, data, LinkInv, Tables, RootsTyped, held
<1>7. CASE \E a \in Node : Dial(n, a, c)
  <2>1. PICK a \in Node : Dial(n, a, c)
    BY <1>7
  <2>2. n # a
    BY <2>1, NodeOrder DEF Dial
  <2>3. peers' = SetEntry(peers, n, a, c) /\ remote_subs' = remote_subs
    BY <2>1 DEF Dial, SetEntry
  <2>4. Table(peers', Senders)
    BY <1>3, <1>4, <2>2, <2>3, TableSet
  <2> QED
    BY <1>1, <1>2, <1>3, <2>3, <2>4 DEF meta, data, LinkInv, Tables, RootsTyped, held
<1> QED
  BY <1>5, <1>6, <1>7

LEMMA SaysKind ==
  ASSUME NEW e, NEW l, NEW x \in Says(e, l)
  PROVE  /\ x.kind = "Subscriptions" => x.rooms \in SUBSET Room
         /\ x.kind = "SpaceRoot" => x.root \in Roots /\ x.root.epoch \in 1 .. e
         /\ x.kind = "PeerAuth" => x.level \in 1 .. l
BY DEF Says

\* A root makes way only for a newer one of the signer that the first one pinned.
Pinned(n) ==
  root'[n] # root[n] =>
    root[n] = NoRoot \/ (root'[n].signer = root[n].signer /\ root'[n].epoch > root[n].epoch)

\* No member loses what it knows unless it crashes, and none learns, without a
\* client's doing, what no member knew.
Spreads ==
  \A n \in Node :
    /\ trust[n] <= trust'[n]
    /\ n \in up' => held[n] <= held'[n] /\ Pinned(n)
    /\ events' = events => /\ \E m \in Node : trust'[n] <= trust[m]
                           /\ \E m \in Node : held'[n] <= held[m]

LEMMA KnownNat ==
  ASSUME Tables, NEW n \in Node
  PROVE  held[n] \in Nat /\ trust[n] \in Nat
BY ClusterAssumption DEF Tables, Trust

LEMMA StillGrows ==
  ASSUME Tables, SameRoots, trust' = trust, \A n \in Node : n \in up => n \in up'
  PROVE  Grows /\ Spreads
<1>1. held' = held
  BY RootsStay
<1>2. \A n \in Node : held[n] <= held'[n] /\ trust[n] <= trust'[n] /\ trust'[n] <= trust[n]
  BY <1>1, KnownNat
<1>3. \A n \in Node : Pinned(n)
  BY DEF SameRoots, Pinned
<1> QED
  BY <1>1, <1>2, <1>3 DEF Grows, Spreads

\* apply_peer_auth never lowers a client's trust, and grants no more than it is told.
LEMMA PeerAuthRaises ==
  ASSUME NEW was \in Trust, NEW level \in Trust, level > 0
  PROVE  /\ apply_peer_auth(was, level) \in Trust /\ was <= apply_peer_auth(was, level)
         /\ apply_peer_auth(was, level) = was \/ apply_peer_auth(was, level) = level
BY DEF apply_peer_auth, Trust

\* A store that takes in a root keeps its signer, and its epoch or a newer one.
LEMMA AcceptRaises ==
  ASSUME RootsTyped, NEW n \in Node, NEW r \in Roots, StoreRoot(n, r)
  PROVE  /\ RootsTyped' /\ held' \in [Node -> 0 .. MaxEpoch] /\ held[n] <= held'[n]
         /\ held'[n] = held[n] \/ held'[n] = r.epoch
         /\ \A k \in Node \ {n} : held'[k] = held[k]
         /\ \A k \in Node : Pinned(k)
<1>1. /\ root' = [root EXCEPT ![n] = accept_root(root[n], r)]
      /\ equivocations' = [equivocations EXCEPT ![n] = @ \/ Equivocates(root[n], r)]
  BY DEF StoreRoot
<1>2. accept_root(root[n], r) \in {root[n], r}
  BY DEF accept_root
<1>3. (equivocations[n] \/ Equivocates(root[n], r)) \in BOOLEAN
  BY DEF Equivocates
<1>4. equivocations' \in [Node -> BOOLEAN]
  BY <1>1, <1>3, Zenon DEF RootsTyped
<1>5. root' \in [Node -> Roots \cup {NoRoot}] /\ root'[n] = accept_root(root[n], r)
  BY <1>1, <1>2 DEF RootsTyped
<1>6. RootsTyped'
  BY <1>4, <1>5 DEF RootsTyped
<1>7. held' \in [Node -> 0 .. MaxEpoch] /\ held'[n] = root'[n].epoch /\ held[n] = root[n].epoch
  <2>1. held' \in [Node -> 0 .. MaxEpoch]
    BY <1>6, RootAssumption, ClusterAssumption DEF RootsTyped, held, NoRoot
  <2> QED
    BY <2>1 DEF held
<1>8. \A k \in Node \ {n} : held'[k] = held[k] /\ root'[k] = root[k]
  BY <1>1 DEF held, RootsTyped
<1>9. r.epoch \in 1 .. MaxEpoch /\ held[n] \in Nat
  BY RootAssumption, ClusterAssumption, EpochsTyped
<1>10. CASE root'[n] = root[n]
  BY <1>6, <1>7, <1>8, <1>9, <1>10 DEF Pinned
<1>11. CASE root'[n] # root[n]
  <2>1. root'[n] = r /\ (root[n] = NoRoot \/ (r.signer = root[n].signer /\ r.epoch > root[n].epoch))
    BY <1>5, <1>11 DEF accept_root
  <2>2. held[n] <= r.epoch
    BY <1>7, <1>9, <2>1 DEF NoRoot
  <2>3. Pinned(n)
    BY <2>1 DEF Pinned
  <2>4. \A k \in Node \ {n} : Pinned(k)
    BY <1>8 DEF Pinned
  <2> QED
    BY <1>6, <1>7, <1>8, <2>1, <2>2, <2>3, <2>4
<1> QED
  BY <1>10, <1>11

LEMMA ReadInv ==
  ASSUME LinkInv, NEW n \in Node, NEW c \in Conn, Read(c, n)
  PROVE  LinkInv' /\ Spreads
<1>1. UNCHANGED <<meta, peers>>
  BY DEF Read, OnSubscriptions, OnRoomRoster, OnSpaceRoot, OnPeerAuth
<1>2. Tables /\ up' = up /\ faults' = faults /\ events' = events /\ peers' = peers
  BY <1>1 DEF LinkInv, meta
<1>3. CASE OnSubscriptions(c, n)
  <2>1. Frame(c, n, "Subscriptions") /\ SameRoots /\ trust' = trust /\ room' = room
    BY <1>3 DEF OnSubscriptions, data, SameRoots
  <2>2. PICK m \in Node \ {n} : Other(c, n) = m /\ Head(conn[c].to[n]) \in Says(held[m], trust[m])
    BY <2>1, FrameFacts
  <2>3. Head(conn[c].to[n]).kind = "Subscriptions" /\ conn' = [b \in Conn |-> conn'[b]]
    BY <2>1, FrameFacts
  <2>4. Head(conn[c].to[n]).rooms \in SUBSET Room
    BY <2>2, <2>3, SaysKind
  <2>5. remote_subs' = SetEntry(remote_subs, n, m, Head(conn[c].to[n]).rooms)
    BY <1>3, <2>2 DEF OnSubscriptions, SetEntry
  <2>6. PICK rooms : rooms \in SUBSET Room /\ remote_subs' = SetEntry(remote_subs, n, m, rooms)
    BY <2>4, <2>5
  <2>7. Table(remote_subs', SUBSET Room) /\ Entered(remote_subs', remote_subs, n, m, rooms)
    BY <1>2, <2>6, TableSet DEF Tables
  <2>8. Tables'
    BY <1>2, <2>1, <2>3, <2>7, RootsStay DEF Tables
  <2>9. Grows /\ Spreads
    BY <1>2, <2>1, StillGrows
  <2>10. \A p \in Node : \A q \in Node \ {p} :
           remote_subs'[p][q] = remote_subs[p][q] \/ (p = n /\ q = Other(c, n))
    BY <2>2, <2>7 DEF Entered
  <2> QED
    BY <1>2, <2>1, <2>8, <2>9, <2>10, ReadStep
<1>4. CASE OnRoomRoster(c, n)
  <2>1. /\ Frame(c, n, "RoomRoster") /\ SameRoots /\ trust' = trust
        /\ remote_subs' = remote_subs
    BY <1>4 DEF OnRoomRoster, SameRoots
  <2>2. conn' = [b \in Conn |-> conn'[b]]
    BY <2>1, FrameFacts
  <2>3. room' \in [Node -> [Room -> RoomState]]
    <3>1. 0 \in RoomState
      BY ClusterAssumption DEF RoomState
    <3> QED
      BY <1>2, <1>4, <3>1 DEF OnRoomRoster, Tables
  <2>4. Tables'
    BY <1>2, <2>1, <2>2, <2>3, RootsStay DEF Tables
  <2>5. Grows /\ Spreads
    BY <1>2, <2>1, StillGrows
  <2> QED
    BY <1>2, <2>1, <2>4, <2>5, ReadStep
<1>5. CASE OnSpaceRoot(c, n)
  <2>1. /\ Frame(c, n, "SpaceRoot") /\ trust' = trust /\ room' = room
        /\ remote_subs' = remote_subs
    BY <1>5 DEF OnSpaceRoot
  <2>2. PICK m \in Node \ {n} : Head(conn[c].to[n]) \in Says(held[m], trust[m])
    BY <2>1, FrameFacts
  <2>3. Head(conn[c].to[n]).kind = "SpaceRoot" /\ conn' = [b \in Conn |-> conn'[b]]
    BY <2>1, FrameFacts
  <2>4. PICK r \in Roots : r.epoch \in 1 .. held[m] /\ StoreRoot(n, r)
    BY <1>5, <2>2, <2>3, SaysKind DEF OnSpaceRoot
  <2>5. /\ held[n] \in 0 .. MaxEpoch /\ held[m] \in 0 .. MaxEpoch
        /\ \A k \in Node : held[k] \in Nat /\ trust[k] \in Nat
    BY <1>2, KnownNat DEF Tables
  <2>6. RootsTyped
    BY <1>2 DEF Tables
  <2>7. /\ RootsTyped' /\ held' \in [Node -> 0 .. MaxEpoch] /\ held[n] <= held'[n]
        /\ held'[n] = held[n] \/ held'[n] = r.epoch
        /\ \A k \in Node \ {n} : held'[k] = held[k]
        /\ \A k \in Node : Pinned(k)
    BY <2>4, <2>6, AcceptRaises
  <2>8. Tables'
    BY <1>2, <2>1, <2>3, <2>7 DEF Tables
  <2>9. Grows /\ Spreads
    <3>1. ASSUME NEW k \in Node
          PROVE  /\ held[k] <= held'[k] /\ trust[k] <= trust'[k]
                 /\ trust'[k] <= trust[k] /\ \E j \in Node : held'[k] <= held[j]
      <4>1. CASE k = n
        BY <2>1, <2>4, <2>5, <2>7, <4>1
      <4>2. CASE k # n
        BY <2>1, <2>5, <2>7, <4>2
      <4> QED
        BY <4>1, <4>2
    <3> QED
      BY <1>2, <2>7, <3>1 DEF Grows, Spreads
  <2> QED
    BY <1>2, <2>1, <2>8, <2>9, ReadStep
<1>6. CASE OnPeerAuth(c, n)
  <2>1. /\ Frame(c, n, "PeerAuth") /\ SameRoots /\ held' = held /\ room' = room
        /\ remote_subs' = remote_subs
    BY <1>6, RootsStay DEF OnPeerAuth, SameRoots
  <2>2. PICK m \in Node \ {n} : Head(conn[c].to[n]) \in Says(held[m], trust[m])
    BY <2>1, FrameFacts
  <2>3. Head(conn[c].to[n]).kind = "PeerAuth" /\ conn' = [b \in Conn |-> conn'[b]]
    BY <2>1, FrameFacts
  <2>4. PICK l : l \in 1 .. trust[m] /\ trust' = [trust EXCEPT ![n] = apply_peer_auth(@, l)]
    BY <1>6, <2>2, <2>3, SaysKind DEF OnPeerAuth
  <2>5. /\ trust[n] \in Trust /\ trust[m] \in Trust
        /\ \A k \in Node : held[k] \in Nat /\ trust[k] \in Nat
    BY <1>2, KnownNat DEF Tables
  <2>6. l \in Trust /\ l > 0 /\ l <= trust[m]
    BY <2>4, <2>5 DEF Trust
  <2>7. /\ apply_peer_auth(trust[n], l) \in Trust /\ trust[n] <= apply_peer_auth(trust[n], l)
        /\ apply_peer_auth(trust[n], l) = trust[n] \/ apply_peer_auth(trust[n], l) = l
    BY <2>5, <2>6, PeerAuthRaises
  <2>8. /\ trust' \in [Node -> Trust] /\ trust'[n] = apply_peer_auth(trust[n], l)
        /\ \A k \in Node \ {n} : trust'[k] = trust[k]
    BY <1>2, <2>4, <2>7 DEF Tables
  <2>9. Tables'
    BY <1>2, <2>1, <2>3, <2>8, RootsStay DEF Tables
  <2>10. Grows /\ Spreads
    <3>1. ASSUME NEW k \in Node
          PROVE  /\ held[k] <= held'[k] /\ trust[k] <= trust'[k]
                 /\ held'[k] <= held[k] /\ \E j \in Node : trust'[k] <= trust[j]
      <4>1. CASE k = n
        BY <2>1, <2>5, <2>6, <2>7, <2>8, <4>1
      <4>2. CASE k # n
        BY <2>1, <2>5, <2>8, <4>2
      <4> QED
        BY <4>1, <4>2
    <3>2. \A k \in Node : Pinned(k)
      BY <2>1 DEF SameRoots, Pinned
    <3> QED
      BY <1>2, <3>1, <3>2 DEF Grows, Spreads
  <2> QED
    BY <1>2, <2>1, <2>9, <2>10, ReadStep
<1> QED
  BY <1>3, <1>4, <1>5, <1>6 DEF Read

\* Steps of timers and clients that leave the links alone.
LEMMA RoomInv ==
  ASSUME LinkInv,
         \/ IdleTick \/ clusterVars' = clusterVars
         \/ \E n \in Node : \/ Gc(n) \/ Restart(n)
                            \/ \E r \in Room : Enter(n, r) \/ Leave(n, r)
  PROVE  LinkInv' /\ Spreads
<1>1. /\ Tables /\ conn' = conn /\ peers' = peers /\ remote_subs' = remote_subs
      /\ SameRoots /\ trust' = trust
  BY DEF IdleTick, clusterVars, meta, data, Gc, Restart, Enter, Leave, LinkInv, SameRoots
<1>2. up' \subseteq Node /\ \A n \in Node : n \in up => n \in up'
  BY <1>1 DEF IdleTick, clusterVars, meta, Gc, Restart, Enter, Leave, Event, Tables
<1>3. faults' \in 0 .. MaxFaults /\ events' \in 0 .. MaxEvents
  BY <1>1, ClusterAssumption
     DEF IdleTick, clusterVars, meta, Gc, Restart, Enter, Leave, Event, Tables
<1>4. room' \in [Node -> [Room -> RoomState]]
  <2>1. Absent \in RoomState /\ InUse \in RoomState /\ 0 \in RoomState
    BY ClusterAssumption DEF RoomState
  <2>2. CASE IdleTick
    <3>1. \A t \in RoomState : t \in 0 .. (IDLE_ROOM_GC_SECS - 1) => t + 1 \in RoomState
      BY ClusterAssumption DEF RoomState
    <3> QED
      BY <1>1, <2>2, <3>1 DEF IdleTick, Tables
  <2>3. ASSUME NEW n \in Node, Gc(n)
        PROVE  room' \in [Node -> [Room -> RoomState]]
    BY <1>1, <2>1, <2>3 DEF Gc, Tables
  <2>4. ASSUME NEW n \in Node, NEW r \in Room, Enter(n, r) \/ Leave(n, r)
        PROVE  room' \in [Node -> [Room -> RoomState]]
    <3>1. PICK t \in RoomState : room' = [room EXCEPT ![n][r] = t]
      BY <2>1, <2>4 DEF Enter, Leave
    <3>2. room \in [Node -> [Room -> RoomState]]
      BY <1>1 DEF Tables
    <3> QED
      BY <3>1, <3>2
  <2>5. CASE clusterVars' = clusterVars \/ \E n \in Node : Restart(n)
    BY <1>1, <2>5 DEF clusterVars, Restart, data, Tables
  <2> QED
    BY <2>2, <2>3, <2>4, <2>5
<1>5. Tables'
  BY <1>1, <1>2, <1>3, <1>4, RootsStay DEF Tables
<1>6. Grows /\ Spreads
  BY <1>1, <1>2, StillGrows
<1> QED
  BY <1>1, <1>5, <1>6, SameConns

LEMMA SendInv ==
  ASSUME LinkInv, NEW n \in Node,
         \/ Refresh(n)
         \/ \E r \in Roots : Announce(n, r)
         \/ \E level \in Trust : TrustClient(n, level)
  PROVE  LinkInv' /\ Spreads
<1>1. /\ Tables /\ up' = up /\ faults' = faults /\ room' = room
      /\ peers' = peers /\ remote_subs' = remote_subs
  BY DEF Refresh, Announce, TrustClient, Event, meta, data, LinkInv
<1>2. events' \in 0 .. MaxEvents /\ conn' = [b \in Conn |-> conn'[b]]
  <2>1. events' = events \/ (events < MaxEvents /\ events' = events + 1)
    BY DEF Refresh, Announce, TrustClient, Event, meta
  <2>2. conn' = conn \/ \E frames : conn' = Enqueue(conn, n, frames)
    BY DEF Refresh, Announce, TrustClient
  <2>3. conn' = [b \in Conn |-> conn'[b]]
    BY <1>1, <2>2 DEF Enqueue, Tables
  <2> QED
    BY <1>1, <2>1, <2>3, ClusterAssumption DEF Tables
<1>3. \A k \in Node : held[k] \in Nat /\ trust[k] \in Nat
  BY <1>1, KnownNat
<1>4. CASE Refresh(n)
  <2>1. SameRoots /\ held' = held /\ trust' = trust
    BY <1>4, RootsStay DEF Refresh, data, SameRoots
  <2>2. PICK frames \in Seq(Says(held[n], trust[n])) : conn' = Enqueue(conn, n, frames)
    BY <1>1, <1>4, SentFrames DEF Refresh
  <2>3. Grows /\ Spreads
    BY <1>1, <2>1, StillGrows
  <2>4. Tables'
    BY <1>1, <1>2, <2>1, RootsStay DEF Tables
  <2>5. frames \in Seq(Says(held'[n], trust'[n]))
    BY <2>1
  <2> QED
    BY <1>1, <2>2, <2>3, <2>4, <2>5, EnqueueStep
<1>5. ASSUME NEW r \in Roots, Announce(n, r)
      PROVE  LinkInv' /\ Spreads
  <2>1. StoreRoot(n, r) /\ trust' = trust /\ events' = events + 1
    BY <1>5 DEF Announce, Event
  <2>2. RootsTyped
    BY <1>1 DEF Tables
  <2>3. /\ RootsTyped' /\ held' \in [Node -> 0 .. MaxEpoch] /\ held[n] <= held'[n]
        /\ \A k \in Node \ {n} : held'[k] = held[k]
        /\ \A k \in Node : Pinned(k)
    BY <2>1, <2>2, AcceptRaises
  <2>4. Tables'
    BY <1>1, <1>2, <2>1, <2>3 DEF Tables
  <2>5. \A k \in Node : held[k] <= held'[k] /\ trust[k] <= trust'[k]
    BY <1>3, <2>1, <2>3
  <2>6. events' # events
    BY <1>1, <2>1 DEF Tables
  <2>7. Grows /\ Spreads
    BY <1>1, <2>3, <2>5, <2>6 DEF Grows, Spreads
  <2>8. CASE root' = root
    BY <1>1, <1>5, <2>4, <2>7, <2>8, SameConns DEF Announce
  <2>9. CASE root' # root
    <3>1. root'[n] = r
      BY <2>1, <2>2, <2>9 DEF StoreRoot, accept_root, RootsTyped
    <3>2. held'[n] = r.epoch /\ r.epoch \in 1 .. r.epoch
      BY <3>1, RootAssumption, ClusterAssumption DEF held
    <3>3. r \in {x \in Roots : x.epoch \in 1 .. r.epoch}
      BY <3>2
    <3>4. [kind |-> "SpaceRoot", root |-> r] \in Says(r.epoch, trust'[n])
      BY <3>3 DEF Says
    <3>5. <<[kind |-> "SpaceRoot", root |-> r]>> \in Seq(Says(held'[n], trust'[n]))
      BY <3>2, <3>4
    <3>6. PICK frames \in Seq(Says(held'[n], trust'[n])) : conn' = Enqueue(conn, n, frames)
      BY <1>5, <2>9, <3>5 DEF Announce
    <3> QED
      BY <1>1, <2>4, <2>7, <3>6, EnqueueStep
  <2> QED
    BY <2>8, <2>9
<1>6. ASSUME NEW level \in Trust, TrustClient(n, level)
      PROVE  LinkInv' /\ Spreads
  <2>1. /\ level > trust[n] /\ trust' = [trust EXCEPT ![n] = level] /\ SameRoots
        /\ held' = held /\ events' = events + 1
    BY <1>6, RootsStay DEF TrustClient, Event, SameRoots
  <2>2. /\ trust' \in [Node -> Trust] /\ trust'[n] = level
        /\ \A k \in Node \ {n} : trust'[k] = trust[k]
    BY <1>1, <2>1 DEF Tables
  <2>3. Tables'
    BY <1>1, <1>2, <2>1, <2>2, RootsStay DEF Tables
  <2>4. <<[kind |-> "PeerAuth", level |-> level]>> \in Seq(Says(held'[n], trust'[n]))
    <3>1. level \in 1 .. level
      BY <1>3, <2>1 DEF Trust
    <3>2. [kind |-> "PeerAuth", level |-> level] \in Says(held'[n], level)
      BY <3>1 DEF Says
    <3> QED
      BY <2>2, <3>2
  <2>5. PICK frames \in Seq(Says(held'[n], trust'[n])) : conn' = Enqueue(conn, n, frames)
    BY <1>6, <2>4 DEF TrustClient
  <2>6. \A k \in Node : held[k] <= held'[k] /\ trust[k] <= trust'[k]
    BY <1>3, <2>1, <2>2 DEF Trust
  <2>7. events' # events
    BY <1>1, <2>1 DEF Tables
  <2>8. Grows /\ Spreads
    BY <1>1, <2>1, <2>6, <2>7 DEF Grows, Spreads, SameRoots, Pinned
  <2> QED
    BY <1>1, <2>3, <2>5, <2>8, EnqueueStep
<1> QED
  BY <1>4, <1>5, <1>6

LEMMA FaultInv ==
  ASSUME LinkInv,
         (\E c \in Conn : LoseConn(c)) \/ (\E n \in Node : Crash(n))
  PROVE  LinkInv' /\ Spreads
<1>1. Tables /\ faults' \in 0 .. MaxFaults /\ events' = events /\ trust' = trust
  <2>1. Fault /\ trust' = trust
    BY DEF LoseConn, Crash, data
  <2>2. Tables
    BY DEF LinkInv
  <2> QED
    BY <2>1, <2>2, ClusterAssumption DEF Fault, Tables
<1>2. \A k \in Node : held[k] \in Nat /\ trust[k] \in Nat
  BY <1>1, KnownNat
<1>3. ASSUME NEW c \in Conn, LoseConn(c)
      PROVE  LinkInv' /\ Spreads
  <2>1. /\ up' = up /\ peers' = peers /\ remote_subs' = remote_subs /\ room' = room
        /\ SameRoots /\ conn' = [conn EXCEPT ![c] = Lost(@)]
    BY <1>3 DEF LoseConn, data, SameRoots
  <2>2. Tables'
    BY <1>1, <2>1, RootsStay DEF Tables
  <2>3. Spreads
    BY <1>1, <2>1, StillGrows
  <2> QED
    BY <1>3, <2>2, <2>3, LoseConnStep
<1>4. ASSUME NEW n \in Node, Crash(n)
      PROVE  LinkInv' /\ Spreads
  <2>1. /\ up' = up \ {n} /\ conn' = [b \in Conn |-> conn'[b]]
        /\ room' = [room EXCEPT ![n] = [r \in Room |-> Absent]]
        /\ root' = [root EXCEPT ![n] = NoRoot]
        /\ equivocations' = [equivocations EXCEPT ![n] = FALSE]
    BY <1>4 DEF Crash
  <2>2. room' \in [Node -> [Room -> RoomState]]
    BY <1>1, <2>1 DEF Tables, RoomState
  <2>3. /\ RootsTyped' /\ held' \in [Node -> 0 .. MaxEpoch] /\ held'[n] = 0
        /\ \A k \in Node \ {n} : held'[k] = held[k] /\ root'[k] = root[k]
    <3>1. RootsTyped
      BY <1>1 DEF Tables
    <3>2. RootsTyped' /\ root'[n] = NoRoot /\ \A k \in Node \ {n} : root'[k] = root[k]
      BY <2>1, <3>1 DEF RootsTyped
    <3>3. held' \in [Node -> 0 .. MaxEpoch]
      BY <3>2, RootAssumption, ClusterAssumption DEF RootsTyped, held, NoRoot
    <3> QED
      BY <3>2, <3>3 DEF held, NoRoot
  <2>4. Table(peers', Senders) /\ Table(remote_subs', SUBSET Room)
    <3>1. NoConn \in Senders /\ {} \in SUBSET Room
      BY DEF Senders
    <3>2. peers' = Cleared(peers, n, NoConn) /\ remote_subs' = Cleared(remote_subs, n, {})
      BY <1>4 DEF Crash, Cleared
    <3>3. Table(peers, Senders) /\ Table(remote_subs, SUBSET Room)
      BY <1>1 DEF Tables
    <3> QED
      BY <3>1, <3>2, <3>3, TableReset
  <2>5. Tables'
    BY <1>1, <2>1, <2>2, <2>3, <2>4 DEF Tables
  <2>6. ASSUME NEW k \in Node
        PROVE  /\ trust[k] <= trust'[k] /\ trust'[k] <= trust[k]
               /\ k \in up' => held[k] <= held'[k] /\ Pinned(k)
               /\ held'[k] <= held[k]
    BY <1>1, <1>2, <2>1, <2>3 DEF Pinned
  <2>7. Spreads
    BY <2>6 DEF Spreads
  <2> QED
    BY <1>4, <2>5, <2>7, CrashStep
<1> QED
  BY <1>3, <1>4

LEMMA LinkStepInv ==
  ASSUME LinkInv, NEW n \in Node, NEW c \in Conn,
         \/ HandleIncoming(c, n) \/ Teardown(c, n) \/ Abandon(c, n)
         \/ \E a \in Node : Dial(n, a, c)
  PROVE  LinkInv' /\ Spreads
<1>1. UNCHANGED <<meta, data>>
  BY DEF HandleIncoming, Teardown, Abandon, Dial
<1>2. Tables'
  BY LinkTables
<1>3. Tables /\ up' = up /\ SameRoots /\ trust' = trust
  BY <1>1 DEF meta, data, LinkInv, SameRoots
<1>4. Spreads
  BY <1>3, StillGrows
<1> QED
  BY <1>2, <1>4, HandleIncomingStep, TeardownStep, AbandonStep, DialStep

LEMMA InitLinkInv ==
  ASSUME ClusterInit
  PROVE  LinkInv
<1>1. Tables
  <2>1. Table(peers, Senders) /\ Table(remote_subs, SUBSET Room)
    BY DEF ClusterInit, Table, Senders
  <2>2. room \in [Node -> [Room -> RoomState]]
    BY DEF ClusterInit, RoomState
  <2> QED
    BY <2>1, <2>2, ClusterAssumption DEF ClusterInit, Tables, RootsTyped, held, NoRoot, Trust
<1>2. \A c \in Conn : conn[c] = Free
  BY DEF ClusterInit
<1>3. ConnsSound /\ DialerOne
  BY <1>2 DEF ConnsSound, Slot, DialerOne, Live
<1>4. PeersLive /\ SubsLive
  BY DEF ClusterInit, PeersLive, SubsLive
<1> QED
  BY <1>1, <1>3, <1>4 DEF LinkInv

LEMMA NextLinkInv ==
  ASSUME LinkInv, [ClusterNext]_clusterVars
  PROVE  LinkInv' /\ Spreads
<1>1. CASE clusterVars' = clusterVars \/ IdleTick
  BY <1>1, RoomInv
<1>2. CASE \E c \in Conn : LoseConn(c)
  BY <1>2, FaultInv
<1>3. ASSUME NEW n \in Node, Refresh(n) \/ Gc(n) \/ Crash(n) \/ Restart(n)
      PROVE  LinkInv' /\ Spreads
  BY <1>3, RoomInv, SendInv, FaultInv
<1>4. ASSUME NEW n \in Node, NEW c \in Conn,
             \/ HandleIncoming(c, n) \/ Teardown(c, n) \/ Abandon(c, n) \/ Read(c, n)
             \/ \E m \in Node : Dial(n, m, c)
      PROVE  LinkInv' /\ Spreads
  BY <1>4, LinkStepInv, ReadInv
<1>5. ASSUME NEW n \in Node, \E r \in Room : Enter(n, r) \/ Leave(n, r)
      PROVE  LinkInv' /\ Spreads
  BY <1>5, RoomInv
<1>6. ASSUME NEW n \in Node, \/ \E r \in Roots : Announce(n, r)
                             \/ \E level \in Trust : TrustClient(n, level)
      PROVE  LinkInv' /\ Spreads
  BY <1>6, SendInv
<1> QED
  BY <1>1, <1>2, <1>3, <1>4, <1>5, <1>6 DEF ClusterNext

\* peers holds links that run, each to the member it stands for; a dialer's running
\* link is the one it has registered, so that it never runs two to a member, and a
\* member that is down runs none (run_link's insert and remove, dial_loop).
LinksRegistered ==
  /\ \A n \in Node : \A m \in Node \ {n} : peers[n][m] # NoConn =>
       /\ peers[n][m] \in Conn /\ Running(peers[n][m], n) /\ m \in Ends(peers[n][m])
  /\ \A c \in Conn : \A n, m \in Node :
       n < m /\ Running(c, n) /\ m \in Ends(c) => peers[n][m] = c
  /\ \A c \in Conn : \A n \in Node : Running(c, n) => n \in up

\* remote_subs names rooms of another member only while a link to it runs, so that
\* members_for_room picks no member that is gone (run_link's teardown).
SubscribersLinked ==
  \A n \in Node : \A m \in Node \ {n} : remote_subs[n][m] # {} =>
    \E c \in Conn : Running(c, n) /\ m \in Ends(c)

\* A member that runs replaces a root only by a newer one of the signer it has
\* pinned, its trust never goes back, and gossip alone spreads no epoch and no trust beyond what some member has
\* (SpaceRootStore::accept, apply_peer_auth).
GossipIntegrity == [][Spreads]_clusterVars

LEMMA ClusterInvariant == ClusterSpec => []LinkInv
<1>1. ClusterInit => LinkInv
  BY InitLinkInv
<1>2. LinkInv /\ [ClusterNext]_clusterVars => LinkInv'
  BY NextLinkInv
<1> QED
  BY <1>1, <1>2, PTL DEF ClusterSpec

\* The state of the cluster's links is what cluster_link.rs declares.
THEOREM ClusterTypeCorrect == ClusterSpec => []ClusterTypeOK
<1>1. ASSUME LinkInv PROVE ClusterTypeOK
  <2>1. Tables /\ ConnsSound
    BY <1>1 DEF LinkInv
  <2>2. \A c \in Conn : conn[c] = Free \/ \E d, a \in Node : conn[c] \in Connection(d, a)
    BY <2>1 DEF ConnsSound, Slot, Sound
  <2>3. \A n \in Node : /\ peers[n] \in [Node \ {n} -> Conn \cup {NoConn}]
                        /\ remote_subs[n] \in [Node \ {n} -> SUBSET Room]
    BY <2>1 DEF Tables, Table, Senders
  <2> QED
    BY <2>1, <2>2, <2>3 DEF ClusterTypeOK, Tables, RootsTyped, RoomState
<1> QED
  BY <1>1, ClusterInvariant, PTL

\* The tables of senders and the links that run agree, whatever is lost or crashes.
THEOREM LinkTable == ClusterSpec => []LinksRegistered
<1>1. ASSUME LinkInv PROVE LinksRegistered
  <2>1. ConnsSound /\ PeersLive /\ DialerOne
    BY <1>1 DEF LinkInv
  <2>2. \A n \in Node : \A m \in Node \ {n} : peers[n][m] # NoConn =>
          /\ peers[n][m] \in Conn /\ Running(peers[n][m], n) /\ m \in Ends(peers[n][m])
    BY <2>1, RunningLive DEF PeersLive
  <2>3. \A c \in Conn : \A n, m \in Node :
          n < m /\ Running(c, n) /\ m \in Ends(c) => peers[n][m] = c
    BY <2>1, RunningLive, NodeOrder DEF DialerOne
  <2>4. ASSUME NEW c \in Conn, NEW n \in Node, Running(c, n)
        PROVE  n \in up
    <3>1. n \in Ends(c) /\ conn[c].end[n] = "run"
      BY <2>4 DEF Running
    <3>2. PICK d \in Node, a \in Node, m \in Node : Joins(c, n, m, d, a)
      BY <2>1, <3>1, SidesOf
    <3> QED
      BY <3>1, <3>2 DEF Joins, Sound, Ended
  <2> QED
    BY <2>2, <2>3, <2>4 DEF LinksRegistered
<1> QED
  BY <1>1, ClusterInvariant, PTL

\* What a member knows of another's subscribers does not outlive their links.
THEOREM SubscribersHaveLinks == ClusterSpec => []SubscribersLinked
<1>1. ASSUME LinkInv PROVE SubscribersLinked
  <2>1. ConnsSound /\ SubsLive
    BY <1>1 DEF LinkInv
  <2> QED
    BY <2>1, RunningLive DEF SubsLive, SubscribersLinked
<1> QED
  BY <1>1, ClusterInvariant, PTL

\* Roots and trust spread by gossip, and are never lowered or made up by it.
THEOREM GossipIsSound == ClusterSpec => GossipIntegrity
<1>1. LinkInv /\ [ClusterNext]_clusterVars => Spreads
  BY NextLinkInv
<1> QED
  BY <1>1, ClusterInvariant, PTL DEF ClusterSpec, GossipIntegrity
=============================================================================
