------------------------- MODULE DirectSessionProofs ------------------------
(***************************************************************************)
(* Proof that a client's entry for its peer is never stranded: for every   *)
(* number of connections, and whatever dials, sessions, losses and crashes *)
(* overlap, an entry that keeps the reconnect timer from dialing has a     *)
(* task or a queued event that will clear it.                              *)
(***************************************************************************)
EXTENDS DirectSession, WellFoundedInduction, FiniteSetTheorems, TLAPS

\* The types of TypeOK.
Entry == [state : {"absent", "disconnected", "connecting", "connected"},
          tx : Conn \cup {None}]
Event == [kind : {"QuicConnected", "QuicDisconnected"}, conn : Conn]
Connection == [dialer : Peer \cup {None}, st : {"free", "dialing", "open", "closed"}]
Phase == {"none", "dialing", "ready", "run"}

\* The queue q speaks of connection c.
Mentions(q, c) == \E i \in DOMAIN q : q[i].conn = c

\* A session announced in q is one of the running ones, or its end is announced
\* further back: QuicConnected never comes last for a session that is over.
Ordered(q, running) ==
  \A i \in DOMAIN q : q[i].kind = "QuicConnected" =>
    \/ q[i].conn \in running
    \/ \E j \in DOMAIN q : j > i /\ q[j].conn = q[i].conn

Running(p) == {c \in Conn : task[p][c] = "run"}

\* A dialing connection belongs to its dialer's task alone, a free one to nobody.
Slot(c) ==
  /\ conn[c].st = "free" => \A p \in Peer : task[p][c] = "none"
  /\ conn[c].st = "dialing" =>
       /\ conn[c].dialer \in Peer /\ task[conn[c].dialer][c] = "dialing"
       /\ \A p \in Peer \ {conn[c].dialer} : task[p][c] = "none"
  /\ \A p \in Peer : task[p][c] = "dialing" => conn[c].st = "dialing" /\ conn[c].dialer = p

Slots == \A c \in Conn : Slot(c)

InOrder == \A p \in Peer : Ordered(internal[p], Running(p))

\* TypeOK in these terms.
Typed ==
  /\ up \subseteq Peer
  /\ peers \in [Peer -> Entry]
  /\ reconnect \in [Peer -> {"none", "waiting", "due"}]
  /\ internal \in [Peer -> Seq(Event)]
  /\ conn \in [Conn -> Connection]
  /\ task \in [Peer -> [Conn -> Phase]]
  /\ faults \in 0 .. MaxFaults

\* The inductive invariant.
SessionInv == Typed /\ Slots /\ InOrder /\ BeliefIsBacked

-----------------------------------------------------------------------------
(* Queues.                                                                 *)

\* What is queued stays queued, and so does what is added.
LEMMA MentionsAppend ==
  ASSUME NEW q \in Seq(Event), NEW e \in Event
  PROVE  /\ Append(q, e) \in Seq(Event)
         /\ Mentions(Append(q, e), e.conn)
         /\ \A c : Mentions(q, c) => Mentions(Append(q, e), c)
<1>1. /\ Append(q, e) \in Seq(Event)
      /\ DOMAIN Append(q, e) = 1 .. Len(q) + 1 /\ DOMAIN q = 1 .. Len(q) /\ Len(q) \in Nat
      /\ Append(q, e)[Len(q) + 1] = e
      /\ \A i \in DOMAIN q : Append(q, e)[i] = q[i]
  OBVIOUS
<1>2. Len(q) + 1 \in DOMAIN Append(q, e) /\ DOMAIN q \subseteq DOMAIN Append(q, e)
  BY <1>1
<1> QED
  BY <1>1, <1>2 DEF Mentions

\* More running sessions, and an event whose session runs or that announces the
\* end of the only one that no longer does, keep the order.
LEMMA OrderedAppend ==
  ASSUME NEW q \in Seq(Event), NEW e \in Event, NEW R, NEW S, Ordered(q, R),
         R \ S \subseteq {e.conn}, e.kind = "QuicConnected" => e.conn \in S
  PROVE  Ordered(Append(q, e), S)
<1> DEFINE t == Append(q, e)
<1>1. /\ DOMAIN t = 1 .. Len(q) + 1 /\ DOMAIN q = 1 .. Len(q) /\ Len(q) \in Nat
      /\ t[Len(q) + 1] = e
      /\ \A i \in DOMAIN q : t[i] = q[i]
  OBVIOUS
<1> HIDE DEF t
<1> SUFFICES ASSUME NEW i \in DOMAIN t, t[i].kind = "QuicConnected"
             PROVE  t[i].conn \in S \/ \E j \in DOMAIN t : j > i /\ t[j].conn = t[i].conn
  BY DEF Ordered, t
<1>2. CASE i = Len(q) + 1
  BY <1>1, <1>2
<1>3. CASE i # Len(q) + 1
  <2>1. i \in DOMAIN q /\ t[i] = q[i]
    BY <1>1, <1>3
  <2>2. CASE \E j \in DOMAIN q : j > i /\ q[j].conn = q[i].conn
    BY <1>1, <2>1, <2>2
  <2>3. CASE q[i].conn \in R
    <3>1. CASE q[i].conn \in S
      BY <2>1, <3>1
    <3>2. CASE q[i].conn = e.conn
      <4>1. Len(q) + 1 \in DOMAIN t /\ Len(q) + 1 > i
        BY <1>1, <2>1
      <4> QED
        BY <1>1, <2>1, <3>2, <4>1
    <3> QED
      BY <2>3, <3>1, <3>2
  <2> QED
    BY <2>1, <2>2, <2>3 DEF Ordered
<1> QED
  BY <1>2, <1>3

\* More running sessions keep the order of an unchanged queue.
LEMMA OrderedMore ==
  ASSUME NEW q, NEW R, NEW S, Ordered(q, R), R \subseteq S
  PROVE  Ordered(q, S)
BY DEF Ordered

\* Taking the first event: a session it announces still runs or is still
\* mentioned.
LEMMA OrderedTail ==
  ASSUME NEW q \in Seq(Event), q # <<>>, NEW R, Ordered(q, R)
  PROVE  /\ Head(q) \in Event /\ Tail(q) \in Seq(Event)
         /\ Ordered(Tail(q), R)
         /\ Head(q).kind = "QuicConnected" =>
              Head(q).conn \in R \/ Mentions(Tail(q), Head(q).conn)
<1> DEFINE t == Tail(q)
<1>1. /\ Head(q) \in Event /\ t \in Seq(Event) /\ Len(q) \in Nat \ {0}
      /\ DOMAIN q = 1 .. Len(q) /\ DOMAIN t = 1 .. Len(q) - 1
      /\ Head(q) = q[1]
      /\ \A i \in DOMAIN t : t[i] = q[i + 1]
  OBVIOUS
<1> HIDE DEF t
<1>2. ASSUME NEW i \in DOMAIN q, NEW j \in DOMAIN q, j > i
      PROVE  j - 1 \in DOMAIN t /\ t[j - 1] = q[j] /\ j - 1 > i - 1
  BY <1>1, <1>2
<1>3. Head(q).kind = "QuicConnected" => Head(q).conn \in R \/ Mentions(t, Head(q).conn)
  <2> SUFFICES ASSUME q[1].kind = "QuicConnected", ~(q[1].conn \in R)
               PROVE  Mentions(t, q[1].conn)
    BY <1>1
  <2>1. 1 \in DOMAIN q
    BY <1>1
  <2>2. PICK j \in DOMAIN q : j > 1 /\ q[j].conn = q[1].conn
    BY <2>1 DEF Ordered
  <2> QED
    BY <1>2, <2>1, <2>2 DEF Mentions
<1>4. Ordered(t, R)
  <2> SUFFICES ASSUME NEW i \in DOMAIN t, t[i].kind = "QuicConnected", ~(t[i].conn \in R)
               PROVE  \E j \in DOMAIN t : j > i /\ t[j].conn = t[i].conn
    BY DEF Ordered
  <2>1. i + 1 \in DOMAIN q /\ q[i + 1] = t[i] /\ i \in Int
    BY <1>1
  <2>2. PICK j \in DOMAIN q : j > i + 1 /\ q[j].conn = q[i + 1].conn
    BY <2>1 DEF Ordered
  <2>3. j - 1 \in DOMAIN t /\ t[j - 1] = q[j] /\ j - 1 > (i + 1) - 1
    BY <1>2, <2>1, <2>2
  <2>4. j - 1 > i
    BY <2>1, <2>3
  <2> QED
    BY <2>1, <2>2, <2>3, <2>4
<1> QED
  BY <1>1, <1>3, <1>4 DEF t

\* The other client, and the lowest of some slots.
LEMMA OtherType ==
  ASSUME NEW p \in Peer
  PROVE  Other(p) \in Peer /\ Other(p) # p
<1>1. \E q \in Peer : q # p
  BY SessionAssumption
<1> QED
  BY <1>1 DEF Other

LEMMA MinSlot ==
  ASSUME NEW S \in SUBSET Conn, S # {}
  PROVE  Min(S) \in S
<1>1. S \in SUBSET Nat
  BY SessionAssumption
<1>2. PICK x \in S : \A y \in S : ~(<<y, x>> \in OpToRel(<, Nat))
  BY <1>1, NatLessThanWellFounded, WFMin
<1>3. \A y \in S : ~(y < x)
  BY <1>1, <1>2 DEF OpToRel
<1>4. \A y \in S : x <= y
  BY <1>1, <1>3
<1> QED
  BY <1>4 DEF Min

-----------------------------------------------------------------------------
(* Steps.                                                                  *)

\* p's entry as BeliefIsBacked has it.
Backed(p) ==
  /\ peers[p].state = "connecting" => \E c \in Conn : Awaited(p, c)
  /\ peers[p].state = "connected" => peers[p].tx # None /\ Awaited(p, peers[p].tx)

\* An unchanged entry stays backed while nothing awaited is dropped.
LEMMA BackedKept ==
  ASSUME SessionInv, NEW p \in Peer, peers'[p] = peers[p],
         \A c \in Conn : Awaited(p, c) => Awaited(p, c)'
  PROVE  Backed(p)'
<1>1. Backed(p)
  BY DEF SessionInv, BeliefIsBacked, Backed
<1>2. peers[p].tx \in Conn \cup {None}
  BY DEF SessionInv, Typed, Entry
<1>3. ASSUME peers[p].state = "connecting"
      PROVE  \E c \in Conn : Awaited(p, c)'
  BY <1>1, <1>3 DEF Backed
<1>4. ASSUME peers[p].state = "connected"
      PROVE  peers[p].tx # None /\ Awaited(p, peers[p].tx)'
  <2>1. peers[p].tx \in Conn /\ Awaited(p, peers[p].tx)
    BY <1>1, <1>2, <1>4 DEF Backed
  <2> QED
    BY <1>1, <1>4, <2>1 DEF Backed
<1> QED
  BY <1>3, <1>4 DEF Backed, Awaited

\* Nothing of the entries, queues, connections and tasks changes.
LEMMA QuietStep ==
  ASSUME SessionInv, UNCHANGED <<peers, internal, conn, task>>
  PROVE  Slots' /\ InOrder' /\ BeliefIsBacked'
BY DEF SessionInv, Slots, Slot, InOrder, Running, BeliefIsBacked, Awaited

\* A dial takes a slot that nobody knows of.
LEMMA ConnectStep ==
  ASSUME SessionInv, NEW p \in Peer, connect_direct_quic(p), internal' = internal
  PROVE  /\ peers' \in [Peer -> Entry]
         /\ conn' \in [Conn -> Connection]
         /\ task' \in [Peer -> [Conn -> Phase]]
         /\ Slots' /\ InOrder' /\ BeliefIsBacked'
<1>0. Typed /\ Slots /\ InOrder /\ BeliefIsBacked
  BY DEF SessionInv
<1>1. CASE UNCHANGED <<peers, conn, task>>
  BY <1>0, <1>1, QuietStep DEF Typed, Entry, Connection, Phase
<1>2. CASE ~UNCHANGED <<peers, conn, task>>
  <2> DEFINE c == Min({x \in Conn : Unused(x)})
  <2>1. /\ \E x \in Conn : Unused(x)
        /\ peers' = [peers EXCEPT ![p].state = "connecting"]
        /\ conn' = [conn EXCEPT ![c] = [dialer |-> p, st |-> "dialing"]]
        /\ task' = [task EXCEPT ![p][c] = "dialing"]
    BY <1>2 DEF connect_direct_quic
  <2>2. c \in Conn /\ Unused(c)
    <3>1. {x \in Conn : Unused(x)} \in SUBSET Conn /\ {x \in Conn : Unused(x)} # {}
      BY <2>1
    <3>2. Min({x \in Conn : Unused(x)}) \in {x \in Conn : Unused(x)}
      BY <3>1, MinSlot
    <3> QED
      BY <3>2
  <2> HIDE DEF c
  <2>3. /\ \A q \in Peer : task[q][c] = "none"
        /\ \A q \in Peer : ~Mentions(internal[q], c)
        /\ conn[c].st = "free"
    BY <1>0, <2>2 DEF Slots, Slot, Unused, Mentions
  <2>4. /\ task'[p][c] = "dialing"
        /\ \A q \in Peer, x \in Conn : q # p \/ x # c => task'[q][x] = task[q][x]
        /\ conn'[c].dialer = p /\ conn'[c].st = "dialing"
        /\ \A x \in Conn : x # c => conn'[x] = conn[x]
    BY <1>0, <2>1, <2>2 DEF Typed
  <2>5. /\ peers' \in [Peer -> Entry]
        /\ peers'[p].state = "connecting"
        /\ \A q \in Peer : q # p => peers'[q] = peers[q]
    <3>1. /\ peers \in [Peer -> Entry]
          /\ peers[p].tx \in Conn \cup {None}
      BY <1>0 DEF Typed, Entry
    <3>2. peers' = [peers EXCEPT ![p] = [peers[p] EXCEPT !.state = "connecting"]]
      BY <2>1
    <3>3. /\ [peers[p] EXCEPT !.state = "connecting"] \in Entry
          /\ [peers[p] EXCEPT !.state = "connecting"].state = "connecting"
      BY <3>1 DEF Entry
    <3> QED
      BY <3>1, <3>2, <3>3
  <2>6. /\ conn' \in [Conn -> Connection]
        /\ task' \in [Peer -> [Conn -> Phase]]
    BY <1>0, <2>1, <2>2 DEF Typed, Connection, Phase
  <2>7. Slots'
    <3> SUFFICES ASSUME NEW x \in Conn
                 PROVE  Slot(x)'
      BY DEF Slots
    <3>1. CASE x = c
      BY <2>3, <2>4, <3>1 DEF Slot
    <3>2. CASE x # c
      <4>1. conn'[x] = conn[x] /\ \A q \in Peer : task'[q][x] = task[q][x]
        BY <2>4, <3>2
      <4> QED
        BY <1>0, <4>1 DEF Slots, Slot
    <3> QED
      BY <3>1, <3>2
  <2>8. InOrder'
    <3> SUFFICES ASSUME NEW q \in Peer
                 PROVE  Ordered(internal[q], Running(q)')
      BY DEF InOrder
    <3>1. Running(q) \subseteq Running(q)'
      BY <2>3, <2>4 DEF Running
    <3> QED
      BY <1>0, <3>1, OrderedMore DEF InOrder
  <2>9. ASSUME NEW q \in Peer
        PROVE  Backed(q)'
    <3>1. CASE q = p
      BY <2>2, <2>4, <2>5, <3>1 DEF Backed, Awaited
    <3>2. CASE q # p
      <4>1. ASSUME NEW x \in Conn, Awaited(q, x)
            PROVE  Awaited(q, x)'
        <5>1. x # c
          BY <2>3, <4>1 DEF Awaited, Mentions
        <5> QED
          BY <2>4, <3>2, <4>1, <5>1 DEF Awaited
      <4> QED
        BY <2>5, <3>2, <4>1, BackedKept
    <3> QED
      BY <3>1, <3>2
  <2> QED
    BY <2>5, <2>6, <2>7, <2>8, <2>9 DEF BeliefIsBacked, Backed
<1> QED
  BY <1>1, <1>2

\* Telling the manager.
LEMMA TellFacts ==
  ASSUME internal \in [Peer -> Seq(Event)], NEW p \in Peer, NEW c \in Conn,
         NEW kind \in {"QuicConnected", "QuicDisconnected"}, Tell(p, kind, c)
  PROVE  /\ internal' \in [Peer -> Seq(Event)]
         /\ [kind |-> kind, conn |-> c] \in Event
         /\ internal'[p] = Append(internal[p], [kind |-> kind, conn |-> c])
         /\ Mentions(internal'[p], c)
         /\ \A q \in Peer : q # p => internal'[q] = internal[q]
         /\ \A q \in Peer, x \in Conn : Mentions(internal[q], x) => Mentions(internal'[q], x)
<1> DEFINE e == [kind |-> kind, conn |-> c]
<1>1. e \in Event /\ e.conn = c
  BY DEF Event
<1>2. /\ internal'[p] = Append(internal[p], e)
      /\ \A q \in Peer : q # p => internal'[q] = internal[q]
      /\ internal' = [internal EXCEPT ![p] = Append(internal[p], e)]
  BY DEF Tell
<1> HIDE DEF e
<1>3. internal[p] \in Seq(Event)
  OBVIOUS
<1>4. /\ Append(internal[p], e) \in Seq(Event)
      /\ Mentions(Append(internal[p], e), e.conn)
      /\ \A x : Mentions(internal[p], x) => Mentions(Append(internal[p], e), x)
  BY <1>1, <1>3, MentionsAppend
<1>5. internal' \in [Peer -> Seq(Event)]
  BY <1>2, <1>4
<1>6. ASSUME NEW q \in Peer, NEW x \in Conn, Mentions(internal[q], x)
      PROVE  Mentions(internal'[q], x)
  <2>1. CASE q = p
    BY <1>2, <1>4, <1>6, <2>1
  <2>2. CASE q # p
    BY <1>2, <1>6, <2>2
  <2> QED
    BY <2>1, <2>2
<1> QED
  BY <1>1, <1>2, <1>4, <1>5, <1>6 DEF e

\* A handshake that succeeds.
LEMMA DialSucceedsStep ==
  ASSUME SessionInv, NEW c \in Conn, DialSucceeds(c)
  PROVE  SessionInv'
<1> DEFINE p == conn[c].dialer
           q == Other(p)
<1>0. Typed /\ Slots /\ InOrder /\ BeliefIsBacked
  BY DEF SessionInv
<1>1. /\ p \in Peer /\ conn[c].st = "dialing" /\ task[p][c] = "dialing"
      /\ \A x \in Peer \ {p} : task[x][c] = "none"
  BY <1>0 DEF DialSucceeds, Slots, Slot
<1>2. /\ conn' = [conn EXCEPT ![c].st = "open"]
      /\ task' = [task EXCEPT ![p][c] = "ready", ![q][c] = "ready"]
      /\ UNCHANGED <<up, peers, reconnect, internal, faults>>
  BY DEF DialSucceeds
<1> HIDE DEF p
<1>3. q \in Peer /\ q # p
  BY <1>1, OtherType
<1> HIDE DEF q
<1>4. conn \in [Conn -> Connection] /\ task \in [Peer -> [Conn -> Phase]]
  BY <1>0 DEF Typed
<1>5. /\ task' \in [Peer -> [Conn -> Phase]]
      /\ task'[p][c] = "ready"
      /\ \A x \in Peer : task'[x][c] \in {"ready", "none"} /\ (x # p => task[x][c] = "none")
      /\ \A x \in Peer, y \in Conn : y # c => task'[x][y] = task[x][y]
  BY <1>1, <1>2, <1>3, <1>4 DEF Phase
<1>6. /\ conn' \in [Conn -> Connection]
      /\ conn'[c].dialer = p /\ conn'[c].st = "open"
      /\ \A y \in Conn : y # c => conn'[y] = conn[y]
  BY <1>2, <1>4 DEF Connection, p
<1>7. Typed'
  BY <1>0, <1>2, <1>5, <1>6 DEF Typed
<1>8. Slots'
  <2> SUFFICES ASSUME NEW x \in Conn
               PROVE  Slot(x)'
    BY DEF Slots
  <2>1. CASE x = c
    BY <1>5, <1>6, <2>1 DEF Slot
  <2>2. CASE x # c
    <3>1. conn'[x] = conn[x] /\ \A r \in Peer : task'[r][x] = task[r][x]
      BY <1>5, <1>6, <2>2
    <3> QED
      BY <1>0, <3>1 DEF Slots, Slot
  <2> QED
    BY <2>1, <2>2
<1>9. InOrder'
  <2> SUFFICES ASSUME NEW x \in Peer
               PROVE  Ordered(internal[x], Running(x)')
    BY <1>2 DEF InOrder
  <2>1. Running(x) \subseteq Running(x)'
    <3> SUFFICES ASSUME NEW y \in Conn, task[x][y] = "run"
                 PROVE  task'[x][y] = "run"
      BY DEF Running
    <3>1. y # c
      BY <1>1, <1>5
    <3> QED
      BY <1>5, <3>1
  <2> QED
    BY <1>0, <2>1, OrderedMore DEF InOrder
<1>10. ASSUME NEW x \in Peer
       PROVE  Backed(x)'
  <2>1. ASSUME NEW y \in Conn, Awaited(x, y)
        PROVE  Awaited(x, y)'
    <3>1. CASE y # c
      BY <1>2, <1>5, <1>6, <2>1, <3>1 DEF Awaited
    <3>2. CASE y = c /\ x = p
      BY <1>5, <1>6, <3>2 DEF Awaited
    <3>3. CASE y = c /\ x # p
      BY <1>2, <1>5, <2>1, <3>3 DEF Awaited
    <3> QED
      BY <3>1, <3>2, <3>3
  <2> QED
    BY <1>2, <2>1, BackedKept
<1> QED
  BY <1>7, <1>8, <1>9, <1>10 DEF SessionInv, BeliefIsBacked, Backed

\* One task of p goes from one phase to another, and no connection begins.
LEMMA TaskChange ==
  ASSUME Typed, NEW p \in Peer, NEW c \in Conn, NEW t \in Phase \ {"dialing"},
         task' = [task EXCEPT ![p][c] = t]
  PROVE  /\ task' \in [Peer -> [Conn -> Phase]]
         /\ task'[p][c] = t
         /\ \A q \in Peer, x \in Conn : q # p \/ x # c => task'[q][x] = task[q][x]
BY DEF Typed

\* A handshake that fails.
LEMMA DialFailsStep ==
  ASSUME SessionInv, NEW c \in Conn, DialFails(c)
  PROVE  SessionInv'
<1> DEFINE p == conn[c].dialer
           e == [kind |-> "QuicDisconnected", conn |-> c]
<1>0. Typed /\ Slots /\ InOrder /\ BeliefIsBacked
  BY DEF SessionInv
<1>1. /\ p \in Peer /\ conn[c].st = "dialing" /\ task[p][c] = "dialing"
      /\ \A x \in Peer \ {p} : task[x][c] = "none"
  BY <1>0 DEF DialFails, Slots, Slot
<1>2. /\ Tell(p, "QuicDisconnected", c)
      /\ task' = [task EXCEPT ![p][c] = "none"]
      /\ conn' = [conn EXCEPT ![c] = FreeConn]
      /\ UNCHANGED <<up, peers, reconnect>>
  BY DEF DialFails
<1>3. faults' \in 0 .. MaxFaults
  BY <1>0, SessionAssumption DEF DialFails, Fault, Typed
<1> HIDE DEF p
<1>4. /\ task' \in [Peer -> [Conn -> Phase]] /\ task'[p][c] = "none"
      /\ \A q \in Peer, x \in Conn : q # p \/ x # c => task'[q][x] = task[q][x]
  <2>1. "none" \in Phase \ {"dialing"}
    BY DEF Phase
  <2> QED
    BY <1>0, <1>1, <1>2, <2>1 DEF Typed
<1>5. /\ internal' \in [Peer -> Seq(Event)] /\ e \in Event
      /\ internal'[p] = Append(internal[p], e) /\ Mentions(internal'[p], c)
      /\ \A q \in Peer : q # p => internal'[q] = internal[q]
      /\ \A q \in Peer, x \in Conn : Mentions(internal[q], x) => Mentions(internal'[q], x)
  BY <1>0, <1>1, <1>2, TellFacts DEF Typed
<1>6. /\ conn' \in [Conn -> Connection] /\ conn'[c].st = "free"
      /\ \A x \in Conn : x # c => conn'[x] = conn[x]
  BY <1>0, <1>2 DEF Typed, FreeConn, Connection
<1>7. Typed'
  BY <1>0, <1>2, <1>3, <1>4, <1>5, <1>6 DEF Typed
<1>8. Slots'
  <2> SUFFICES ASSUME NEW x \in Conn
               PROVE  Slot(x)'
    BY DEF Slots
  <2>1. CASE x = c
    <3>1. \A q \in Peer : task'[q][c] = "none"
      BY <1>1, <1>4
    <3> QED
      BY <1>6, <2>1, <3>1 DEF Slot
  <2>2. CASE x # c
    <3>1. conn'[x] = conn[x] /\ \A q \in Peer : task'[q][x] = task[q][x]
      BY <1>4, <1>6, <2>2
    <3> QED
      BY <1>0, <3>1 DEF Slots, Slot
  <2> QED
    BY <2>1, <2>2
<1>9. InOrder'
  <2> SUFFICES ASSUME NEW q \in Peer
               PROVE  Ordered(internal'[q], Running(q)')
    BY DEF InOrder
  <2>1. Running(q) \subseteq Running(q)' /\ Ordered(internal[q], Running(q))
    BY <1>0, <1>1, <1>4 DEF Running, InOrder
  <2>2. CASE q = p
    <3>1. /\ internal[p] \in Seq(Event) /\ e.kind # "QuicConnected"
          /\ Running(q) \ Running(q)' \subseteq {e.conn}
      BY <1>0, <1>1, <2>1 DEF Typed
    <3> HIDE DEF e
    <3>2. Ordered(Append(internal[p], e), Running(q)')
      BY <1>5, <2>1, <2>2, <3>1, OrderedAppend
    <3> QED
      BY <1>5, <2>2, <3>2
  <2>3. CASE q # p
    BY <1>5, <2>1, <2>3, OrderedMore
  <2> QED
    BY <2>2, <2>3
<1>10. ASSUME NEW q \in Peer
       PROVE  Backed(q)'
  <2>1. ASSUME NEW x \in Conn, Awaited(q, x)
        PROVE  Awaited(q, x)'
    <3>1. CASE Mentions(internal[q], x)
      BY <1>5, <3>1 DEF Awaited, Mentions
    <3>2. CASE q = p /\ x = c
      BY <1>5, <3>2 DEF Awaited, Mentions
    <3>3. CASE ~Mentions(internal[q], x) /\ (q # p \/ x # c)
      <4>1. task'[q][x] = task[q][x] /\ task[q][x] # "none"
        BY <1>4, <2>1, <3>3 DEF Awaited, Mentions
      <4>2. x # c
        BY <1>1, <3>3, <4>1
      <4> QED
        BY <1>6, <2>1, <3>3, <4>1, <4>2 DEF Awaited, Mentions
    <3> QED
      BY <3>1, <3>2, <3>3
  <2> QED
    BY <1>2, <2>1, BackedKept
<1> QED
  BY <1>7, <1>8, <1>9, <1>10 DEF SessionInv, BeliefIsBacked, Backed

\* A session begins: the manager is told while the task runs.
LEMMA SessionStartsStep ==
  ASSUME SessionInv, NEW p \in Peer, NEW c \in Conn, SessionStarts(p, c)
  PROVE  SessionInv'
<1> DEFINE e == [kind |-> "QuicConnected", conn |-> c]
<1>0. Typed /\ Slots /\ InOrder /\ BeliefIsBacked
  BY DEF SessionInv
<1>2. /\ task[p][c] = "ready" /\ Tell(p, "QuicConnected", c)
      /\ task' = [task EXCEPT ![p][c] = "run"]
      /\ UNCHANGED <<up, peers, reconnect, conn, faults>>
  BY DEF SessionStarts
<1>4. /\ task' \in [Peer -> [Conn -> Phase]] /\ task'[p][c] = "run"
      /\ \A q \in Peer, x \in Conn : q # p \/ x # c => task'[q][x] = task[q][x]
  BY <1>0, <1>2, TaskChange DEF Phase
<1>5. /\ internal' \in [Peer -> Seq(Event)] /\ e \in Event
      /\ internal'[p] = Append(internal[p], e) /\ Mentions(internal'[p], c)
      /\ \A q \in Peer : q # p => internal'[q] = internal[q]
      /\ \A q \in Peer, x \in Conn : Mentions(internal[q], x) => Mentions(internal'[q], x)
  BY <1>0, <1>2, TellFacts DEF Typed
<1>7. Typed'
  BY <1>0, <1>2, <1>4, <1>5 DEF Typed
<1>8. Slots'
  <2> SUFFICES ASSUME NEW x \in Conn
               PROVE  Slot(x)'
    BY DEF Slots
  <2>1. CASE x = c
    <3>1. conn[c].st # "free" /\ conn[c].st # "dialing"
      BY <1>0, <1>2 DEF Slots, Slot
    <3>2. \A q \in Peer : task'[q][c] = "dialing" => task[q][c] = "dialing"
      BY <1>4
    <3> QED
      BY <1>0, <1>2, <2>1, <3>1, <3>2 DEF Slots, Slot
  <2>2. CASE x # c
    <3>1. conn'[x] = conn[x] /\ \A q \in Peer : task'[q][x] = task[q][x]
      BY <1>2, <1>4, <2>2
    <3> QED
      BY <1>0, <3>1 DEF Slots, Slot
  <2> QED
    BY <2>1, <2>2
<1>9. InOrder'
  <2> SUFFICES ASSUME NEW q \in Peer
               PROVE  Ordered(internal'[q], Running(q)')
    BY DEF InOrder
  <2>1. Running(q) \subseteq Running(q)' /\ Ordered(internal[q], Running(q))
    BY <1>0, <1>4 DEF Running, InOrder
  <2>2. CASE q = p
    <3>1. /\ internal[p] \in Seq(Event) /\ e.conn \in Running(q)'
          /\ Running(q) \ Running(q)' \subseteq {e.conn}
      BY <1>0, <1>4, <2>1, <2>2 DEF Typed, Running
    <3> HIDE DEF e
    <3>2. Ordered(Append(internal[p], e), Running(q)')
      BY <1>5, <2>1, <2>2, <3>1, OrderedAppend
    <3> QED
      BY <1>5, <2>2, <3>2
  <2>3. CASE q # p
    BY <1>5, <2>1, <2>3, OrderedMore
  <2> QED
    BY <2>2, <2>3
<1>10. ASSUME NEW q \in Peer
       PROVE  Backed(q)'
  <2>1. ASSUME NEW x \in Conn, Awaited(q, x)
        PROVE  Awaited(q, x)'
    <3>1. CASE Mentions(internal[q], x)
      BY <1>5, <3>1 DEF Awaited, Mentions
    <3>2. CASE q = p /\ x = c
      BY <1>4, <3>2 DEF Awaited
    <3>3. CASE ~Mentions(internal[q], x) /\ (q # p \/ x # c)
      BY <1>2, <1>4, <2>1, <3>3 DEF Awaited, Mentions
    <3> QED
      BY <3>1, <3>2, <3>3
  <2> QED
    BY <1>2, <2>1, BackedKept
<1> QED
  BY <1>7, <1>8, <1>9, <1>10 DEF SessionInv, BeliefIsBacked, Backed

\* A session ends, or an incoming handshake fails: p's task for c goes, and a
\* session's end is announced.
LEMMA TaskEndsStep ==
  ASSUME SessionInv, NEW p \in Peer, NEW c \in Conn, SessionEnds(p, c) \/ AcceptFails(p, c)
  PROVE  SessionInv'
<1> DEFINE e == [kind |-> "QuicDisconnected", conn |-> c]
<1>0. Typed /\ Slots /\ InOrder /\ BeliefIsBacked
  BY DEF SessionInv
<1>2. /\ conn[c].st = "closed"
      /\ task' = [task EXCEPT ![p][c] = "none"]
      /\ conn' = Swept(conn, task')
      /\ UNCHANGED <<up, peers, reconnect, faults>>
  BY DEF SessionEnds, AcceptFails
<1>4. /\ task' \in [Peer -> [Conn -> Phase]] /\ task'[p][c] = "none"
      /\ \A q \in Peer, x \in Conn : q # p \/ x # c => task'[q][x] = task[q][x]
  <2>1. "none" \in Phase \ {"dialing"}
    BY DEF Phase
  <2> QED
    BY <1>0, <1>2, <2>1, TaskChange
<1>5. /\ conn' \in [Conn -> Connection]
      /\ \A x \in Conn : \/ conn'[x] = conn[x]
                         \/ /\ conn'[x].st = "free"
                            /\ \A q \in Peer : task'[q][x] = "none"
  <2>1. conn \in [Conn -> Connection]
    BY <1>0 DEF Typed
  <2> QED
    BY <1>2, <2>1 DEF Swept, FreeConn, Connection
<1>6. /\ internal' \in [Peer -> Seq(Event)]
      /\ \A q \in Peer : q # p => internal'[q] = internal[q]
      /\ \A q \in Peer, x \in Conn : Mentions(internal[q], x) => Mentions(internal'[q], x)
      /\ \/ /\ internal' = internal /\ task[p][c] = "ready" /\ conn[c].dialer # p
         \/ /\ e \in Event
            /\ internal'[p] = Append(internal[p], e) /\ Mentions(internal'[p], c)
  <2>1. CASE SessionEnds(p, c)
    BY <1>0, <2>1, TellFacts DEF Typed, SessionEnds
  <2>2. CASE AcceptFails(p, c)
    BY <1>0, <2>2 DEF Typed, AcceptFails
  <2> QED
    BY <2>1, <2>2
<1>7. Typed'
  BY <1>0, <1>2, <1>4, <1>5, <1>6 DEF Typed
<1>8. Slots'
  <2> SUFFICES ASSUME NEW x \in Conn
               PROVE  Slot(x)'
    BY DEF Slots
  <2>1. CASE conn'[x] = conn[x] /\ x = c
    <3>1. \A q \in Peer : task[q][c] # "dialing"
      BY <1>0, <1>2 DEF Slots, Slot
    <3>2. \A q \in Peer : task'[q][c] # "dialing"
      BY <1>4, <3>1
    <3> QED
      BY <1>2, <2>1, <3>2 DEF Slot
  <2>2. CASE conn'[x] = conn[x] /\ x # c
    <3>1. \A q \in Peer : task'[q][x] = task[q][x]
      BY <1>4, <2>2
    <3> QED
      BY <1>0, <2>2, <3>1 DEF Slots, Slot
  <2>3. CASE conn'[x].st = "free" /\ \A q \in Peer : task'[q][x] = "none"
    BY <2>3 DEF Slot
  <2> QED
    BY <1>5, <2>1, <2>2, <2>3
<1>9. InOrder'
  <2> SUFFICES ASSUME NEW q \in Peer
               PROVE  Ordered(internal'[q], Running(q)')
    BY DEF InOrder
  <2>1. Ordered(internal[q], Running(q)) /\ internal[q] \in Seq(Event)
    BY <1>0 DEF InOrder, Typed
  <2>2. /\ Running(q) \ Running(q)' \subseteq {c}
        /\ q # p \/ task[p][c] = "ready" => Running(q) \subseteq Running(q)'
    BY <1>4 DEF Running
  <2>3. CASE internal'[q] = internal[q] /\ (q # p \/ task[p][c] = "ready")
    BY <2>1, <2>2, <2>3, OrderedMore
  <2>4. CASE q = p /\ e \in Event /\ internal'[p] = Append(internal[p], e)
    <3>1. e.conn = c /\ e.kind # "QuicConnected"
      OBVIOUS
    <3> HIDE DEF e
    <3>2. Ordered(Append(internal[q], e), Running(q)')
      BY <2>1, <2>2, <2>4, <3>1, OrderedAppend
    <3> QED
      BY <2>4, <3>2
  <2> QED
    BY <1>6, <2>3, <2>4
<1>10. ASSUME NEW q \in Peer
       PROVE  Backed(q)'
  <2>1. ASSUME NEW x \in Conn, Awaited(q, x)
        PROVE  Awaited(q, x)'
    <3>1. CASE Mentions(internal'[q], x)
      BY <3>1 DEF Awaited, Mentions
    <3>2. CASE ~Mentions(internal'[q], x)
      <4>1. ~Mentions(internal[q], x)
        BY <1>6, <3>2
      <4>2. q # p \/ x # c
        <5>1. ~(task[p][c] = "ready" /\ conn[c].dialer # p /\ q = p /\ x = c)
          BY <2>1, <4>1 DEF Awaited, Mentions
        <5> QED
          BY <1>6, <3>2, <5>1
      <4>3. task'[q][x] = task[q][x] /\ task[q][x] # "none"
        BY <1>4, <2>1, <4>1, <4>2 DEF Awaited, Mentions
      <4>4. conn'[x] = conn[x]
        BY <1>5, <4>3
      <4> QED
        BY <2>1, <4>1, <4>3, <4>4 DEF Awaited, Mentions
    <3> QED
      BY <3>1, <3>2
  <2> QED
    BY <1>2, <2>1, BackedKept
<1> QED
  BY <1>7, <1>8, <1>9, <1>10 DEF SessionInv, BeliefIsBacked, Backed

\* A connection is lost: the tasks have yet to notice.
LEMMA ConnectionLostStep ==
  ASSUME SessionInv, NEW c \in Conn, ConnectionLost(c)
  PROVE  SessionInv'
<1>0. Typed /\ Slots /\ InOrder /\ BeliefIsBacked
  BY DEF SessionInv
<1>1. /\ conn[c].st = "open" /\ conn' = [conn EXCEPT ![c].st = "closed"]
      /\ UNCHANGED <<up, peers, reconnect, internal, task>>
  BY DEF ConnectionLost
<1>2. faults' \in 0 .. MaxFaults
  BY <1>0, SessionAssumption DEF ConnectionLost, Fault, Typed
<1>3. /\ conn' \in [Conn -> Connection]
      /\ conn'[c].st = "closed"
      /\ \A x \in Conn : conn'[x].dialer = conn[x].dialer /\ (x # c => conn'[x] = conn[x])
  BY <1>0, <1>1 DEF Typed, Connection
<1>4. Typed'
  BY <1>0, <1>1, <1>2, <1>3 DEF Typed
<1>5. Slots'
  <2> SUFFICES ASSUME NEW x \in Conn
               PROVE  Slot(x)'
    BY DEF Slots
  <2>1. CASE x = c
    BY <1>0, <1>1, <1>3, <2>1 DEF Slots, Slot
  <2>2. CASE x # c
    BY <1>0, <1>1, <1>3, <2>2 DEF Slots, Slot
  <2> QED
    BY <2>1, <2>2
<1>6. InOrder'
  BY <1>0, <1>1 DEF InOrder, Running
<1>7. ASSUME NEW q \in Peer
      PROVE  Backed(q)'
  <2>1. \A x \in Conn : Awaited(q, x) => Awaited(q, x)'
    BY <1>1, <1>3 DEF Awaited
  <2> QED
    BY <1>1, <2>1, BackedKept
<1> QED
  BY <1>4, <1>5, <1>6, <1>7 DEF SessionInv, BeliefIsBacked, Backed

\* A client stops: its own entry, queue and tasks are gone, the other's stay.
LEMMA CrashStep ==
  ASSUME SessionInv, NEW p \in Peer, Crash(p)
  PROVE  SessionInv'
<1> DEFINE cs == [c \in Conn |-> IF task[p][c] = "none" THEN conn[c]
                                 ELSE [conn[c] EXCEPT !.st = "closed"]]
<1>0. Typed /\ Slots /\ InOrder /\ BeliefIsBacked
  BY DEF SessionInv
<1>1. /\ up' = up \ {p}
      /\ peers' = [peers EXCEPT ![p] = Absent]
      /\ reconnect' = [reconnect EXCEPT ![p] = "none"]
      /\ internal' = [internal EXCEPT ![p] = <<>>]
      /\ task' = [task EXCEPT ![p] = [c \in Conn |-> "none"]]
      /\ conn' = Swept(cs, task')
  BY DEF Crash
<1>2. faults' \in 0 .. MaxFaults
  BY <1>0, SessionAssumption DEF Crash, Fault, Typed
<1>3. /\ task' \in [Peer -> [Conn -> Phase]]
      /\ \A x \in Conn : task'[p][x] = "none"
      /\ \A q \in Peer : q # p => task'[q] = task[q]
  BY <1>0, <1>1 DEF Typed, Phase
<1>4. /\ cs \in [Conn -> Connection]
      /\ \A x \in Conn : /\ cs[x].dialer = conn[x].dialer
                         /\ \/ task[p][x] = "none" /\ cs[x] = conn[x]
                            \/ task[p][x] # "none" /\ cs[x].st = "closed"
  BY <1>0 DEF Typed, Connection
<1> HIDE DEF cs
<1>5. /\ conn' \in [Conn -> Connection]
      /\ \A x \in Conn : \/ conn'[x] = cs[x]
                         \/ /\ conn'[x].st = "free"
                            /\ \A q \in Peer : task'[q][x] = "none"
  BY <1>1, <1>4 DEF Swept, FreeConn, Connection
<1>6. /\ internal' \in [Peer -> Seq(Event)] /\ internal'[p] = <<>>
      /\ \A q \in Peer : q # p => internal'[q] = internal[q]
  BY <1>0, <1>1 DEF Typed
<1>7. /\ peers' \in [Peer -> Entry] /\ peers'[p].state = "absent"
      /\ \A q \in Peer : q # p => peers'[q] = peers[q]
  BY <1>0, <1>1 DEF Typed, Absent, Entry
<1>8. Typed'
  BY <1>0, <1>1, <1>2, <1>3, <1>5, <1>6, <1>7 DEF Typed
<1>9. Slots'
  <2> SUFFICES ASSUME NEW x \in Conn
               PROVE  Slot(x)'
    BY DEF Slots
  <2>1. CASE conn'[x].st = "free" /\ \A q \in Peer : task'[q][x] = "none"
    BY <2>1 DEF Slot
  <2>2. CASE conn'[x] = cs[x] /\ task[p][x] = "none"
    <3>1. conn'[x] = conn[x] /\ \A q \in Peer : task'[q][x] = task[q][x]
      BY <1>3, <1>4, <2>2
    <3> QED
      BY <1>0, <3>1 DEF Slots, Slot
  <2>3. CASE conn'[x] = cs[x] /\ task[p][x] # "none"
    <3>1. conn'[x].st = "closed"
      BY <1>4, <2>3
    <3>2. \A q \in Peer : task'[q][x] # "dialing"
      <4> SUFFICES ASSUME NEW q \in Peer, q # p, task[q][x] = "dialing"
                   PROVE  FALSE
        BY <1>3
      <4> QED
        BY <1>0, <2>3 DEF Slots, Slot
    <3> QED
      BY <3>1, <3>2 DEF Slot
  <2> QED
    BY <1>5, <2>1, <2>2, <2>3
<1>10. InOrder'
  <2> SUFFICES ASSUME NEW q \in Peer
               PROVE  Ordered(internal'[q], Running(q)')
    BY DEF InOrder
  <2>1. CASE q = p
    BY <1>6, <2>1 DEF Ordered
  <2>2. CASE q # p
    <3>1. Running(q)' = Running(q)
      BY <1>3, <2>2 DEF Running
    <3> QED
      BY <1>0, <1>6, <2>2, <3>1 DEF InOrder
  <2> QED
    BY <2>1, <2>2
<1>11. ASSUME NEW q \in Peer
       PROVE  Backed(q)'
  <2>1. CASE q = p
    BY <1>7, <2>1 DEF Backed
  <2>2. CASE q # p
    <3>1. ASSUME NEW x \in Conn, Awaited(q, x)
          PROVE  Awaited(q, x)'
      <4>1. CASE Mentions(internal[q], x)
        BY <1>6, <2>2, <4>1 DEF Awaited, Mentions
      <4>2. CASE ~Mentions(internal[q], x)
        <5>1. task'[q][x] = task[q][x] /\ task[q][x] # "none"
          BY <1>3, <2>2, <3>1, <4>2 DEF Awaited, Mentions
        <5>2. conn'[x].dialer = conn[x].dialer
          BY <1>4, <1>5, <5>1
        <5> QED
          BY <3>1, <4>2, <5>1, <5>2 DEF Awaited, Mentions
      <4> QED
        BY <4>1, <4>2
    <3> QED
      BY <1>7, <2>2, <3>1, BackedKept
  <2> QED
    BY <2>1, <2>2
<1> QED
  BY <1>8, <1>9, <1>10, <1>11 DEF SessionInv, BeliefIsBacked, Backed

\* The manager takes an event: a session it announces still runs, or its end
\* is further back in the queue.
LEMMA EventStep ==
  ASSUME SessionInv, NEW p \in Peer, handle_internal_event(p)
  PROVE  SessionInv'
<1> DEFINE ev == Head(internal[p])
           q0 == internal[p]
<1>0. Typed /\ Slots /\ InOrder /\ BeliefIsBacked
  BY DEF SessionInv
<1>1. q0 \in Seq(Event) /\ q0 # <<>> /\ Ordered(q0, Running(p))
  BY <1>0 DEF Typed, InOrder, handle_internal_event
<1>2. /\ ev \in Event /\ Tail(q0) \in Seq(Event) /\ Ordered(Tail(q0), Running(p))
      /\ ev.kind = "QuicConnected" => ev.conn \in Running(p) \/ Mentions(Tail(q0), ev.conn)
  BY <1>1, OrderedTail
<1>3. /\ IF ev.kind = "QuicConnected" THEN QuicConnected(p, ev.conn)
         ELSE QuicDisconnected(p, ev.conn)
      /\ internal' = [internal EXCEPT ![p] = Tail(q0)]
      /\ UNCHANGED <<up, task, faults>>
  BY DEF handle_internal_event
<1> HIDE DEF ev, q0
<1>4. /\ conn' = conn
      /\ peers' \in [Peer -> Entry]
      /\ \A q \in Peer : q # p => peers'[q] = peers[q]
      /\ reconnect' \in [Peer -> {"none", "waiting", "due"}]
      /\ \/ /\ ev.kind = "QuicConnected"
            /\ peers'[p] = [state |-> "connected", tx |-> ev.conn]
         \/ peers'[p].state \in {"absent", "disconnected"}
  <2>1. CASE ev.kind = "QuicConnected"
    <3>1. [state |-> "connected", tx |-> ev.conn] \in Entry
      BY <1>2 DEF Event, Entry
    <3> QED
      BY <1>0, <1>3, <2>1, <3>1 DEF Typed, QuicConnected
  <2>2. CASE ev.kind # "QuicConnected"
    <3> DEFINE n == IF peers[p].state = "absent" THEN peers[p]
                    ELSE [state |-> "disconnected", tx |-> None]
    <3>1. n \in Entry /\ n.state \in {"absent", "disconnected"}
      BY <1>0 DEF Typed, Entry
    <3>2. peers' = [peers EXCEPT ![p] = n] /\ conn' = conn
      BY <1>3, <2>2 DEF QuicDisconnected
    <3>3. Scheduled(p) \in {"none", "waiting", "due"}
      BY <1>0 DEF Typed, Scheduled
    <3>4. reconnect' \in [Peer -> {"none", "waiting", "due"}]
      BY <1>0, <1>3, <2>2, <3>3 DEF Typed, QuicDisconnected
    <3> HIDE DEF n
    <3> QED
      BY <1>0, <3>1, <3>2, <3>4 DEF Typed
  <2> QED
    BY <2>1, <2>2
<1>5. /\ internal' \in [Peer -> Seq(Event)] /\ internal'[p] = Tail(q0)
      /\ \A q \in Peer : q # p => internal'[q] = internal[q]
  BY <1>0, <1>2, <1>3 DEF Typed
<1>6. Typed'
  BY <1>0, <1>3, <1>4, <1>5 DEF Typed
<1>7. Slots'
  BY <1>0, <1>3, <1>4 DEF Slots, Slot
<1>8. InOrder'
  <2> SUFFICES ASSUME NEW q \in Peer
               PROVE  Ordered(internal'[q], Running(q)')
    BY DEF InOrder
  <2>1. Running(q)' = Running(q)
    BY <1>3 DEF Running
  <2> QED
    BY <1>0, <1>2, <1>5, <2>1 DEF InOrder
<1>9. ASSUME NEW q \in Peer
      PROVE  Backed(q)'
  <2>1. CASE q # p
    <3>1. \A x \in Conn : Awaited(q, x) => Awaited(q, x)'
      BY <1>3, <1>4, <1>5, <2>1 DEF Awaited
    <3> QED
      BY <1>4, <2>1, <3>1, BackedKept
  <2>2. CASE q = p /\ peers'[p].state \in {"absent", "disconnected"}
    BY <2>2 DEF Backed
  <2>3. CASE q = p /\ ev.kind = "QuicConnected"
             /\ peers'[p] = [state |-> "connected", tx |-> ev.conn]
    <3>1. PICK x \in Conn : x = ev.conn
      BY <1>2 DEF Event
    <3>2. Awaited(p, x)'
      <4>1. CASE x \in Running(p)
        BY <1>3, <4>1 DEF Running, Awaited
      <4>2. CASE Mentions(Tail(q0), x)
        BY <1>5, <4>2 DEF Mentions, Awaited
      <4> QED
        BY <1>2, <2>3, <3>1, <4>1, <4>2
    <3>3. peers'[p].state = "connected" /\ peers'[p].tx = x /\ x # None
      BY <2>3, <3>1, SessionAssumption
    <3> QED
      BY <2>3, <3>2, <3>3 DEF Backed, Awaited
  <2> QED
    BY <1>4, <2>1, <2>2, <2>3
<1> QED
  BY <1>6, <1>7, <1>8, <1>9 DEF SessionInv, BeliefIsBacked, Backed

\* The two clients are down.
LEMMA InitSessionInv == Init => SessionInv
<1> SUFFICES ASSUME Init
             PROVE  SessionInv
  OBVIOUS
<1>1. Typed
  BY SessionAssumption DEF Init, Typed, Entry, Event, Connection, Phase, Absent, FreeConn
<1>2. Slots
  BY DEF Init, Slots, Slot, FreeConn
<1>3. InOrder
  BY DEF Init, InOrder, Ordered
<1>4. BeliefIsBacked
  BY DEF Init, BeliefIsBacked, Absent
<1> QED
  BY <1>1, <1>2, <1>3, <1>4 DEF SessionInv

\* Every step preserves the invariant.
LEMMA NextSessionInv == SessionInv /\ [Next]_vars => SessionInv'
<1> SUFFICES ASSUME SessionInv, [Next]_vars
             PROVE  SessionInv'
  OBVIOUS
<1>0. Typed /\ Slots /\ InOrder /\ BeliefIsBacked
  BY DEF SessionInv
<1>1. ASSUME NEW p \in Peer, Start(p)
      PROVE  SessionInv'
  <2>1. /\ up' = up \cup {p} /\ UNCHANGED <<reconnect, internal, faults>>
        /\ connect_direct_quic(p) \/ UNCHANGED <<peers, conn, task>>
    BY <1>1 DEF Start
  <2>2. CASE connect_direct_quic(p)
    BY <1>0, <2>1, <2>2, ConnectStep DEF SessionInv, Typed
  <2>3. CASE UNCHANGED <<peers, conn, task>>
    BY <1>0, <2>1, <2>3, QuietStep DEF SessionInv, Typed
  <2> QED
    BY <2>1, <2>2, <2>3
<1>2. ASSUME NEW p \in Peer, tick_peer_reconnects(p)
      PROVE  SessionInv'
  <2>1. /\ reconnect' = [reconnect EXCEPT ![p] = "waiting"]
        /\ connect_direct_quic(p) /\ UNCHANGED <<up, internal, faults>>
    BY <1>2 DEF tick_peer_reconnects
  <2> QED
    BY <1>0, <2>1, ConnectStep DEF SessionInv, Typed
<1>3. ASSUME NEW p \in Peer, BackoffElapses(p)
      PROVE  SessionInv'
  <2>1. /\ reconnect' = [reconnect EXCEPT ![p] = "due"]
        /\ UNCHANGED <<up, peers, internal, conn, task, faults>>
    BY <1>3 DEF BackoffElapses
  <2> QED
    BY <1>0, <2>1, QuietStep DEF SessionInv, Typed
<1>4. CASE UNCHANGED vars
  <2>1. UNCHANGED <<up, peers, reconnect, internal, conn, task, faults>>
    BY <1>4 DEF vars
  <2> QED
    BY <1>0, <2>1, QuietStep DEF SessionInv, Typed
<1>5. ASSUME NEW p \in Peer, NEW c \in Conn, TaskStep(p, c)
      PROVE  SessionInv'
  BY <1>5, SessionStartsStep, TaskEndsStep DEF TaskStep
<1>6. ASSUME NEW c \in Conn, DialSettles(c)
      PROVE  SessionInv'
  BY <1>6, DialSucceedsStep, DialFailsStep DEF DialSettles
<1> QED
  BY <1>1, <1>2, <1>3, <1>4, <1>5, <1>6, CrashStep, EventStep, ConnectionLostStep DEF Next

\* Every reachable state satisfies the invariant.
THEOREM SessionInvariant == Spec => []SessionInv
BY InitSessionInv, NextSessionInv, PTL DEF Spec

\* Entries, timers, queues, connections and tasks keep their types.
THEOREM SessionTypeCorrect == Spec => []TypeOK
<1>1. SessionInv => TypeOK
  BY DEF SessionInv, Typed, TypeOK, Entry, Event, Connection, Phase
<1> QED
  BY <1>1, SessionInvariant, PTL

\* An entry that says connecting or connected, and so keeps the reconnect timer
\* of peer_session.rs from dialing, is never stranded: its dial goes on, its
\* session's task runs, or the event that will clear it is queued, however many
\* connections, failures and crashes overlap.
THEOREM SessionBeliefIsBacked == Spec => []BeliefIsBacked
<1>1. SessionInv => BeliefIsBacked
  BY DEF SessionInv
<1> QED
  BY <1>1, SessionInvariant, PTL
=============================================================================
