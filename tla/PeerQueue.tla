------------------------------ MODULE PeerQueue -----------------------------
(***************************************************************************)
(* The byte-bounded write queue of one peer (PeerTx and PeerRx in          *)
(* conquerd-supernode/src/signaling.rs) with the writer and reader tasks   *)
(* around it: handle_ws_connection for a WebSocket, and                    *)
(* handle_relay_signaling_stream (main.rs) for a QUIC signaling stream.    *)
(*                                                                         *)
(* Every task of the supernode may send to a peer at once.  send is three  *)
(* atomic operations and a push; recv looks for the notification, pops and *)
(* subtracts; each is a step here.  A frame is its length.  The            *)
(* notification is the one permit a tokio Notify stores.                   *)
(***************************************************************************)
EXTENDS Integers, Sequences, FiniteSets, Sizes

CONSTANTS
  Thread,                \* tasks that send to this peer
  Length,                \* the lengths of frames
  PEER_QUEUE_MAX_BYTES,
  MAX_FRAME,             \* the QUIC writer's limit on a frame
  Transport,             \* "ws" or "quic"
  MaxSends               \* sends stop here (bound of the model)

ASSUME QueueAssumption ==
  /\ IsFiniteSet(Thread)
  /\ Length \subseteq Nat \ {0}
  /\ PEER_QUEUE_MAX_BYTES \in Nat
  /\ MAX_FRAME \in Nat
  /\ Transport \in {"ws", "quic"}
  /\ MaxSends \in Nat

VARIABLES
  queued,    \* the shared byte counter
  channel,   \* the unbounded channel
  permit,    \* of overflow
  sender,    \* thread -> its call of send
  writer,    \* the writer task and the frame it holds
  reader,    \* "reading", or "closed": the read loop left and the transport torn down
  sends,     \* calls of send so far
  written,   \* history: the frames written to the transport
  refused    \* history: send has returned false for a full queue

history == <<written, refused>>
vars == <<queued, channel, permit, sender, writer, reader, sends, history>>

Bytes(frames) == TotalLength(frames, DOMAIN frames)

TypeOK ==
  /\ queued \in Nat
  /\ channel \in Seq(Length)
  /\ permit \in BOOLEAN
  /\ sender \in [Thread -> [pc : {"idle", "push", "rollback", "notify", "undo"}, len : Length \cup {0}]]
  /\ writer \in [pc  : {"recv", "poll", "parked", "release", "writing", "closing", "done"},
               len : Length \cup {0}]
  /\ reader \in {"reading", "closed"}
  /\ sends \in 0 .. MaxSends
  /\ written \in Seq(Length)
  /\ refused \in BOOLEAN

Idle == [pc |-> "idle", len |-> 0]

Init ==
  /\ queued = 0
  /\ channel = <<>>
  /\ permit = FALSE
  /\ sender = [t \in Thread |-> Idle]
  /\ writer = [pc |-> "recv", len |-> 0]
  /\ reader = "reading"
  /\ sends = 0
  /\ written = <<>>
  /\ refused = FALSE

-----------------------------------------------------------------------------
(* PeerTx::send.                                                           *)

Overruns(n) == queued + n > PEER_QUEUE_MAX_BYTES

\* fetch_add and the comparison with what it returned.
FetchAdd(t, n) ==
  /\ sender[t].pc = "idle"
  /\ sends < MaxSends
  /\ sends' = sends + 1
  /\ queued' = queued + n
  /\ sender' = [sender EXCEPT ![t] = [pc  |-> IF Overruns(n) THEN "rollback" ELSE "push",
                                      len |-> n]]
  /\ UNCHANGED <<channel, permit, writer, reader, history>>

\* Mutant: the refused bytes stay on the counter.
RollbackForgotten(t) ==
  /\ sender[t].pc = "rollback"
  /\ sender' = [sender EXCEPT ![t].pc = "notify"]
  /\ UNCHANGED <<queued, channel, permit, writer, reader, sends, history>>

Rollback(t) ==
  /\ sender[t].pc = "rollback"
  /\ queued' = queued - sender[t].len
  /\ sender' = [sender EXCEPT ![t].pc = "notify"]
  /\ UNCHANGED <<channel, permit, writer, reader, sends, history>>

notify_one(t) ==
  /\ sender[t].pc = "notify"
  /\ permit' = TRUE
  /\ refused' = TRUE
  /\ sender' = [sender EXCEPT ![t] = Idle]
  /\ UNCHANGED <<queued, channel, writer, reader, sends, written>>

\* The push fails once the writer has dropped the receiving half.
Push(t) ==
  /\ sender[t].pc = "push"
  /\ IF writer.pc = "done"
     THEN /\ sender' = [sender EXCEPT ![t].pc = "undo"]
          /\ UNCHANGED channel
     ELSE /\ channel' = Append(channel, sender[t].len)
          /\ sender' = [sender EXCEPT ![t] = Idle]
  /\ UNCHANGED <<queued, permit, writer, reader, sends, written, refused>>

Undo(t) ==
  /\ sender[t].pc = "undo"
  /\ queued' = queued - sender[t].len
  /\ sender' = [sender EXCEPT ![t] = Idle]
  /\ UNCHANGED <<channel, permit, writer, reader, sends, history>>

Send(t) == Rollback(t) \/ notify_one(t) \/ Push(t) \/ Undo(t)

-----------------------------------------------------------------------------
(* The writer task: PeerRx::recv, a biased select that polls the           *)
(* notification and then the channel, and the write to the transport.      *)

WriterGoes(pc) == writer' = [pc |-> pc, len |-> 0]

\* Mutant: the notification is heeded only when the queue is empty.
RecvOverflowDrained ==
  /\ writer.pc = "recv"
  /\ permit /\ channel = <<>>
  /\ permit' = FALSE
  /\ WriterGoes("done")
  /\ UNCHANGED <<queued, channel, sender, reader, sends, history>>

RecvOverflow ==
  /\ writer.pc = "recv"
  /\ permit
  /\ permit' = FALSE
  /\ WriterGoes("done")
  /\ UNCHANGED <<queued, channel, sender, reader, sends, history>>

\* Mutant: the select is not biased towards the notification.
PollEither ==
  /\ writer.pc = "recv"
  /\ WriterGoes("poll")
  /\ UNCHANGED <<queued, channel, permit, sender, reader, sends, history>>

\* overflow.notified() is not ready: the select goes on to the channel.
PollNotified ==
  /\ writer.pc = "recv"
  /\ ~ permit
  /\ WriterGoes("poll")
  /\ UNCHANGED <<queued, channel, permit, sender, reader, sends, history>>

\* rx.recv() is ready.  A notification that came after the first poll is handed
\* back when the select drops that branch: its permit is there for the next call.
RecvFrame ==
  /\ writer.pc = "poll"
  /\ channel # <<>>
  /\ channel' = Tail(channel)
  /\ writer' = [pc |-> "release", len |-> Head(channel)]
  /\ UNCHANGED <<queued, permit, sender, reader, sends, history>>

\* Neither is ready.
Park ==
  /\ writer.pc = "poll"
  /\ channel = <<>>
  /\ WriterGoes("parked")
  /\ UNCHANGED <<queued, channel, permit, sender, reader, sends, history>>

Wake ==
  /\ writer.pc = "parked"
  /\ permit \/ channel # <<>>
  /\ WriterGoes("recv")
  /\ UNCHANGED <<queued, channel, permit, sender, reader, sends, history>>

\* fetch_sub; the QUIC writer then skips a frame beyond MAX_FRAME.
Release ==
  /\ writer.pc = "release"
  /\ queued' = queued - writer.len
  /\ writer' = IF Transport = "quic" /\ writer.len > MAX_FRAME
               THEN [pc |-> "recv", len |-> 0]
               ELSE [writer EXCEPT !.pc = "writing"]
  /\ UNCHANGED <<channel, permit, sender, reader, sends, history>>

WriterStep == RecvOverflow \/ PollNotified \/ RecvFrame \/ Park \/ Wake \/ Release

\* The transport takes the frame: the peer reads what is sent to it.
PeerTakes ==
  /\ writer.pc = "writing"
  /\ written' = Append(written, writer.len)
  /\ WriterGoes("recv")
  /\ UNCHANGED <<queued, channel, permit, sender, reader, sends, refused>>

\* The server shuts down while the writer waits: the WebSocket's sends a close frame.
Shutdown ==
  /\ Transport = "ws"
  /\ writer.pc \in {"recv", "parked"}
  /\ WriterGoes("closing")
  /\ UNCHANGED <<queued, channel, permit, sender, reader, sends, history>>

\* A write fails, or the close frame is out.
WriterEnds ==
  /\ writer.pc \in {"writing", "closing"}
  /\ WriterGoes("done")
  /\ UNCHANGED <<queued, channel, permit, sender, reader, sends, history>>

-----------------------------------------------------------------------------
(* The read loop, and what follows it: write_task.abort().                 *)

Close ==
  /\ reader' = "closed"
  /\ WriterGoes("done")
  /\ UNCHANGED <<queued, channel, permit, sender, sends, history>>

\* A message or ping of the peer makes the loop look at write_task.is_finished().
PeerSpeaks ==
  /\ reader = "reading"
  /\ writer.pc = "done"
  /\ Close

PeerCloses ==
  /\ reader = "reading"
  /\ Close

-----------------------------------------------------------------------------

Next ==
  \/ \E t \in Thread : Send(t) \/ \E n \in Length : FetchAdd(t, n)
  \/ WriterStep \/ PeerTakes \/ Shutdown \/ WriterEnds
  \/ PeerSpeaks \/ PeerCloses

Spec == Init /\ [][Next]_vars

\* The supernode's own tasks run; nothing is assumed of the peer.
FairSpec ==
  /\ Spec
  /\ \A t \in Thread : WF_vars(Send(t))
  /\ WF_vars(WriterStep)

-----------------------------------------------------------------------------
(* Properties.                                                             *)

\* Bytes added by the tasks that are about to take one of `steps'.
Added(steps) ==
  TotalLength([t \in Thread |-> sender[t].len], {t \in Thread : sender[t].pc \in steps})

InFlight == Added({"push", "rollback", "undo"})

\* The counter is exactly the frames queued, those being added or rolled back
\* and the one being released: nothing leaks that would close a healthy peer's
\* transport later, and no subtraction wraps around.
AccountingExact ==
  writer.pc # "done" =>
    queued = Bytes(channel) + InFlight + (IF writer.pc = "release" THEN writer.len ELSE 0)

\* The bounded FIFO pipe this queue stands for.
Pipe == INSTANCE BoundedPipe WITH
  Ceiling <- PEER_QUEUE_MAX_BYTES,
  queue   <- channel,
  hand    <- IF writer.pc \in {"release", "writing"} THEN <<writer.len>> ELSE <<>>,
  out     <- written,
  mode    <- IF writer.pc = "done" THEN "closed"
             ELSE IF ~ refused THEN "open"
             ELSE IF writer.pc = "poll" THEN "refusing" ELSE "refused"

\* However many tasks race their fetch_add, rollback, push and notification
\* against the writer, the queue behaves as a bounded FIFO pipe: the frames that
\* wait never exceed the ceiling, "never a silent drop", and after a refusal the
\* writer takes at most one further frame, the one it may be reaching for.
ImplementsPipe == Pipe!Spec

\* A refused frame ends the writer task, wherever it was when the queue overran,
\* unless the peer never takes the frame that is being written to it: nothing is
\* assumed of the peer.
OverflowStopsWriter ==
  refused ~> (writer.pc = "done" \/ [](writer.pc \in {"writing", "closing"}))

\* "Past this mark the peer's transport is closed" (PEER_QUEUE_MAX_BYTES).  It does
\* not hold of a peer that stops reading, nor of one that stays silent: the read
\* loop looks at the writer only when a message arrives.
OverflowClosesTransport == refused ~> reader = "closed"
=============================================================================
