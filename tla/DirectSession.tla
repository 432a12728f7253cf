---------------------------- MODULE DirectSession ----------------------------
(* The direct QUIC session of two clients that trust each other              *)
(* (connection_manager/manager/peer_session.rs and mod.rs, and the session   *)
(* task of connection_manager/quic.rs).  Each client dials at its start and  *)
(* after a loss, accepts what the other dials, and tells its manager about   *)
(* every session by the id of the peer alone, in one queue.  So both may     *)
(* dial at once, two connections may live side by side, and the end of an    *)
(* old one is reported as the end of "the" session.                          *)
EXTENDS Naturals, Sequences, FiniteSets, FiniteSetsExt

CONSTANTS
  Peer,       \* the two clients
  Conn,       \* slots for the connections that exist at a time
  Endpoint,   \* the clients whose address the other has stored
  None,
  MaxFaults   \* bound: failed dials, lost connections and crashes

ASSUME SessionAssumption ==
  /\ \E a, b \in Peer : a # b /\ Peer = {a, b}
  /\ Conn \subseteq Nat
  /\ None \notin Conn
  /\ Endpoint \subseteq Peer
  /\ MaxFaults \in Nat

VARIABLES
  up,         \* the clients that run
  peers,      \* peers[p]: p's entry for the other: its state and quic_out_tx
  reconnect,  \* reconnect[p]: pending_peer_reconnects: "none", "waiting" or "due"
  internal,   \* internal[p]: the queue of InternalEvents
  conn,       \* conn[c]: who dialed it, and "free", "dialing", "open" or "closed"
  task,       \* task[p][c]: p's task for c: "none", "dialing", "ready" or "run"
  faults

vars == <<up, peers, reconnect, internal, conn, task, faults>>

Other(p) == CHOOSE q \in Peer : q # p

Absent == [state |-> "absent", tx |-> None]
FreeConn == [dialer |-> None, st |-> "free"]

TypeOK ==
  /\ up \subseteq Peer
  /\ peers \in [Peer -> [state : {"absent", "disconnected", "connecting", "connected"},
                         tx : Conn \cup {None}]]
  /\ reconnect \in [Peer -> {"none", "waiting", "due"}]
  /\ internal \in [Peer -> Seq([kind : {"QuicConnected", "QuicDisconnected"}, conn : Conn])]
  /\ conn \in [Conn -> [dialer : Peer \cup {None}, st : {"free", "dialing", "open", "closed"}]]
  /\ task \in [Peer -> [Conn -> {"none", "dialing", "ready", "run"}]]
  /\ faults \in 0 .. MaxFaults

Init ==
  /\ up = {}
  /\ peers = [p \in Peer |-> Absent]
  /\ reconnect = [p \in Peer |-> "none"]
  /\ internal = [p \in Peer |-> <<>>]
  /\ conn = [c \in Conn |-> FreeConn]
  /\ task = [p \in Peer |-> [c \in Conn |-> "none"]]
  /\ faults = 0

Fault == faults < MaxFaults /\ faults' = faults + 1

\* A slot is used again when nobody refers to the connection any more.
Unused(c) ==
  /\ conn[c].st = "free"
  /\ \A p \in Peer : /\ peers[p].tx # c
                     /\ \A i \in DOMAIN internal[p] : internal[p][i].conn # c

\* conn with the closed connections forgotten that no task has.
Swept(cs, tasks) ==
  [c \in Conn |-> IF cs[c].st = "closed" /\ \A p \in Peer : tasks[p][c] = "none"
                  THEN FreeConn ELSE cs[c]]

Tell(p, kind, c) ==
  internal' = [internal EXCEPT ![p] = Append(@, [kind |-> kind, conn |-> c])]

-----------------------------------------------------------------------------
(* Dialing.                                                                  *)

\* No dial on top of one, nor while there is a session; the entry keeps its
\* sender.  The handshake runs in a task of its own.
connect_direct_quic(p) ==
  IF peers[p].state \in {"connecting", "connected"}
  THEN UNCHANGED <<peers, conn, task>>
  ELSE LET c == Min({x \in Conn : Unused(x)}) IN
       /\ \E x \in Conn : Unused(x)
       /\ peers' = [peers EXCEPT ![p].state = "connecting"]
       /\ conn' = [conn EXCEPT ![c] = [dialer |-> p, st |-> "dialing"]]
       /\ task' = [task EXCEPT ![p][c] = "dialing"]

\* The client starts, and dials the trusted peer if it has an address.
Start(p) ==
  /\ p \notin up
  /\ up' = up \cup {p}
  /\ IF Other(p) \in Endpoint THEN connect_direct_quic(p) ELSE UNCHANGED <<peers, conn, task>>
  /\ UNCHANGED <<reconnect, internal, faults>>

\* connecting.await, and incoming.await on the other side.
DialSucceeds(c) ==
  LET p == conn[c].dialer IN
  /\ conn[c].st = "dialing"
  /\ Other(p) \in up
  /\ conn' = [conn EXCEPT ![c].st = "open"]
  /\ task' = [task EXCEPT ![p][c] = "ready", ![Other(p)][c] = "ready"]
  /\ UNCHANGED <<up, peers, reconnect, internal, faults>>

\* Mutant: the dial gives up without an event.
DialFailsSilently(c) ==
  LET p == conn[c].dialer IN
  /\ conn[c].st = "dialing"
  /\ IF Other(p) \in up THEN Fault ELSE UNCHANGED faults
  /\ task' = [task EXCEPT ![p][c] = "none"]
  /\ conn' = [conn EXCEPT ![c] = FreeConn]
  /\ UNCHANGED <<up, peers, reconnect, internal>>

DialFails(c) ==
  LET p == conn[c].dialer IN
  /\ conn[c].st = "dialing"
  /\ IF Other(p) \in up THEN Fault ELSE UNCHANGED faults
  /\ Tell(p, "QuicDisconnected", c)
  /\ task' = [task EXCEPT ![p][c] = "none"]
  /\ conn' = [conn EXCEPT ![c] = FreeConn]
  /\ UNCHANGED <<up, peers, reconnect>>

-----------------------------------------------------------------------------
(* run_quic_peer_session.  Its read loop lasts as long as the connection; a  *)
(* sender that the manager drops ends the writer only.                       *)

SessionStarts(p, c) ==
  /\ task[p][c] = "ready"
  /\ Tell(p, "QuicConnected", c)
  /\ task' = [task EXCEPT ![p][c] = "run"]
  /\ UNCHANGED <<up, peers, reconnect, conn, faults>>

SessionEnds(p, c) ==
  /\ task[p][c] = "run" /\ conn[c].st = "closed"
  /\ Tell(p, "QuicDisconnected", c)
  /\ task' = [task EXCEPT ![p][c] = "none"]
  /\ conn' = Swept(conn, task')
  /\ UNCHANGED <<up, peers, reconnect, faults>>

\* The handshake of an incoming connection fails: nobody is told.
AcceptFails(p, c) ==
  /\ task[p][c] = "ready" /\ conn[c].st = "closed" /\ conn[c].dialer # p
  /\ task' = [task EXCEPT ![p][c] = "none"]
  /\ conn' = Swept(conn, task')
  /\ UNCHANGED <<up, peers, reconnect, internal, faults>>

\* The path is gone; the two ends notice at their own time.
ConnectionLost(c) ==
  /\ conn[c].st = "open"
  /\ Fault
  /\ conn' = [conn EXCEPT ![c].st = "closed"]
  /\ UNCHANGED <<up, peers, reconnect, internal, task>>

\* A client stops; only the peer store survives.
Crash(p) ==
  /\ p \in up
  /\ Fault
  /\ up' = up \ {p}
  /\ peers' = [peers EXCEPT ![p] = Absent]
  /\ reconnect' = [reconnect EXCEPT ![p] = "none"]
  /\ internal' = [internal EXCEPT ![p] = <<>>]
  /\ task' = [task EXCEPT ![p] = [c \in Conn |-> "none"]]
  /\ conn' = Swept([c \in Conn |-> IF task[p][c] = "none" THEN conn[c]
                                   ELSE [conn[c] EXCEPT !.st = "closed"]], task')

-----------------------------------------------------------------------------
(* The manager's loop: events, and the reconnect timer.                      *)

\* Mutant: a session that replaces another closes it.
QuicConnectedClosesOld(p, c) ==
  /\ peers' = [peers EXCEPT ![p] = [state |-> "connected", tx |-> c]]
  /\ reconnect' = [reconnect EXCEPT ![p] = "none"]
  /\ conn' = [x \in Conn |-> IF x # c /\ peers[p].tx = x /\ conn[x].st = "open"
                             THEN [conn[x] EXCEPT !.st = "closed"] ELSE conn[x]]

\* The newest session takes the entry, whoever dialed it.
QuicConnected(p, c) ==
  /\ peers' = [peers EXCEPT ![p] = [state |-> "connected", tx |-> c]]
  /\ reconnect' = [reconnect EXCEPT ![p] = "none"]
  /\ UNCHANGED conn

\* schedule_peer_reconnect
Scheduled(p) == IF Other(p) \in Endpoint THEN "waiting" ELSE reconnect[p]

\* The event names the peer only: the entry goes, whichever session has ended.
QuicDisconnected(p, c) ==
  /\ peers' = [peers EXCEPT ![p] = IF @.state = "absent" THEN @
                                   ELSE [state |-> "disconnected", tx |-> None]]
  /\ reconnect' = [reconnect EXCEPT ![p] = Scheduled(p)]
  /\ UNCHANGED conn

handle_internal_event(p) ==
  /\ internal[p] # <<>>
  /\ LET ev == Head(internal[p]) IN
     IF ev.kind = "QuicConnected" THEN QuicConnected(p, ev.conn) ELSE QuicDisconnected(p, ev.conn)
  /\ internal' = [internal EXCEPT ![p] = Tail(@)]
  /\ UNCHANGED <<up, task, faults>>

\* The backoff is over, or the network has changed and forgives it.
BackoffElapses(p) ==
  /\ reconnect[p] = "waiting"
  /\ reconnect' = [reconnect EXCEPT ![p] = "due"]
  /\ UNCHANGED <<up, peers, internal, conn, task, faults>>

\* The entry stays, with its next time moved on, until a session clears it.
tick_peer_reconnects(p) ==
  /\ reconnect[p] = "due"
  /\ peers[p].state \in {"absent", "disconnected"}
  /\ reconnect' = [reconnect EXCEPT ![p] = "waiting"]
  /\ connect_direct_quic(p)
  /\ UNCHANGED <<up, internal, faults>>

-----------------------------------------------------------------------------

DialSettles(c) == DialSucceeds(c) \/ DialFails(c)
TaskStep(p, c) == SessionStarts(p, c) \/ SessionEnds(p, c) \/ AcceptFails(p, c)

Next ==
  \/ \E p \in Peer : \/ Start(p) \/ Crash(p)
                     \/ handle_internal_event(p) \/ BackoffElapses(p) \/ tick_peer_reconnects(p)
                     \/ \E c \in Conn : TaskStep(p, c)
  \/ \E c \in Conn : DialSettles(c) \/ ConnectionLost(c)

Spec == Init /\ [][Next]_vars

\* Clients run again after a crash, their tasks and timers go on, a handshake
\* ends one way or the other.  Nothing makes a connection fail.
FairSpec ==
  /\ Spec
  /\ \A p \in Peer : /\ WF_vars(Start(p))
                     /\ WF_vars(handle_internal_event(p))
                     /\ WF_vars(BackoffElapses(p)) /\ WF_vars(tick_peer_reconnects(p))
                     /\ \A c \in Conn : WF_vars(TaskStep(p, c))
  /\ \A c \in Conn : WF_vars(DialSettles(c))

-----------------------------------------------------------------------------
(* Properties.                                                               *)

\* p's own dials and sessions whose end it will still be told of.
Awaited(p, c) ==
  \/ task[p][c] = "dialing"
  \/ task[p][c] = "ready" /\ conn[c].dialer = p
  \/ task[p][c] = "run"
  \/ \E i \in DOMAIN internal[p] : internal[p][i].conn = c

\* An entry that says connecting or connected, which keeps the reconnect timer
\* from dialing, is never stranded: the dial goes on, the session's task runs,
\* or the event that will clear the entry is in the queue.
BeliefIsBacked ==
  \A p \in Peer :
    /\ peers[p].state = "connecting" => \E c \in Conn : Awaited(p, c)
    /\ peers[p].state = "connected" => peers[p].tx # None /\ Awaited(p, peers[p].tx)

\* Both managers hold a session over a connection that is open.
Joined == \A p \in Peer : peers[p].state = "connected" /\ conn[peers[p].tx].st = "open"

\* Two clients that know each other's address end up joined for good, after
\* simultaneous dials, failures, crashes, and late news of connections that are
\* no longer the ones in use.
SessionsConverge == <>[]Joined
=============================================================================
