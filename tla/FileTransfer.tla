---------------------------- MODULE FileTransfer ----------------------------
(***************************************************************************)
(* One file on its way from a sender to its peers: FileTransferManager     *)
(* (conquerd-client file_transfer.rs) on both sides, with the handlers and *)
(* the dispatch of connection_manager/manager (inbound.rs, mod.rs) around  *)
(* it.  `mode' tells a 1:1 transfer (core.file.v1, offered to Friend) from *)
(* a room transfer (room.file.v1, offered to every peer and pulled by      *)
(* those who accept it).                                                   *)
(*                                                                         *)
(* Contents are told by the version of the sender's file they come from:   *)
(* version 1 is what was hashed for the offer.  A file that is streamed is *)
(* opened anew for every chunk, so each may come from another version, or  *)
(* from none.  Frames may overtake each other and, once handed to a        *)
(* transport, may be lost with it; remove_file may fail and clients may    *)
(* exit.  The sender counts time in ticks of TRANSFER_RETAIN_SECS.         *)
(***************************************************************************)
EXTENDS Integers, FiniteSets

CONSTANTS
  Peer,              \* receivers
  Friend,            \* the receiver of a 1:1 transfer
  Nobody,            \* `to' of a stream nobody asked for yet
  Total,             \* chunks of the payload
  CHUNK_BUDGET,      \* ROOM_FILE_CHUNK_BUDGET
  STALL_GIVE_UP,     \* STALL_GIVE_UP_SECS, TRANSFER_RETAIN_SECS and
  TRANSFER_RETAIN,   \*   OFFER_TTL_SECS in ticks
  OFFER_TTL,
  MaxPasses,         \* bounds of the model: streams started of a room file,
  MaxLost            \*   frames lost and chunks dropped

ASSUME FileAssumption ==
  /\ Friend \in Peer /\ Nobody \notin Peer
  /\ {Total, CHUNK_BUDGET, STALL_GIVE_UP, TRANSFER_RETAIN, OFFER_TTL} \subseteq Nat \ {0}
  /\ {MaxPasses, MaxLost} \subseteq Nat

VARIABLES
  mode,      \* "direct" or "room"
  large,     \* the file is larger than INLINE_MAX
  out,       \* the sender's OutboundTransfer
  inb,       \* peer -> its InboundTransfer
  part,      \* peer -> there is a .part file on its disk
  net,       \* frames handed to a transport and not yet handled
  lost       \* frames lost and chunks dropped so far

vars == <<mode, large, out, inb, part, net, lost>>

Gone == 0
Version == 1 .. 2
Offered == 1
Chunk == 0 .. Total - 1

TransferState ==
  {"pending", "transferring", "complete", "failed", "rejected", "cancelled"}

\* Otherwise the manager has no record of the transfer: not yet, not any more
\* because gc dropped it, it was revoked or declined, or the client exited.
StateOrNone == TransferState \cup {"none", "dropped", "revoked", "exited"}

is_terminal(state) == state \in {"complete", "failed", "rejected", "cancelled"}

Never == -1

OutboundTransfer ==
  [state : StateOrNone, chunks_sent : 0 .. Total, to : Peer \cup {Nobody},
   age : Nat, finished : Nat \cup {Never}, stalled : Nat \cup {Never}, pass : 0 .. MaxPasses]

\* `got': version of each chunk that has come, Gone for a hole.
InboundTransfer ==
  [state : StateOrNone, got : [Chunk -> Version \cup {Gone}], complete_requested : BOOLEAN]

Frame ==
  [type : {"Offer", "Accept", "Reject", "Ack", "Error", "Refusal", "Request", "Revoke"},
   peer : Peer]
    \cup [type : {"Complete"}, peer : Peer, pass : 0 .. MaxPasses]
    \cup [type : {"Chunk"}, peer : Peer, pass : 0 .. MaxPasses, index : Chunk, version : Version]

TypeOK ==
  /\ mode \in {"direct", "room"} /\ large \in BOOLEAN
  /\ out \in OutboundTransfer
  /\ inb \in [Peer -> InboundTransfer]
  /\ part \in [Peer -> BOOLEAN]
  /\ net \subseteq Frame
  /\ lost \in 0 .. MaxLost

Audience == IF mode = "room" THEN Peer ELSE {Friend}

\* A room file is always read from its path, a 1:1 file only when it is large.
Streaming == mode = "room" \/ large

NoOutbound ==
  [state |-> "none", chunks_sent |-> 0, to |-> Nobody, age |-> 0,
   finished |-> Never, stalled |-> Never, pass |-> 0]

NoInbound ==
  [state |-> "none", got |-> [i \in Chunk |-> Gone], complete_requested |-> FALSE]

Control(type, peers) == [type : {type}, peer : peers]

Init ==
  /\ mode \in {"direct", "room"}
  /\ large \in BOOLEAN
  /\ out = NoOutbound
  /\ inb = [p \in Peer |-> NoInbound]
  /\ part = [p \in Peer |-> FALSE]
  /\ net = {}
  /\ lost = 0

-----------------------------------------------------------------------------
(* The sender: a turn of next_chunk_events and what becomes of its frames  *)
(* in dispatch_transfer_events or dispatch_room_transfer_events.           *)

Smaller(a, b) == IF a <= b THEN a ELSE b

\* What a read of a chunk may return; the user rewrites, removes and restores
\* a file that is read from its path as he likes.
Readable == IF Streaming THEN Version ELSE {Offered}

Slice(x, budget) == Smaller(budget, Total - x.chunks_sent)

\* How many chunks a turn may emit for x: a read that fails ends it early.
Emitted(x, budget) == IF Streaming THEN 0 .. Slice(x, budget) ELSE {Slice(x, budget)}

ReadFails(x, budget, n) == n < Slice(x, budget)

\* COMPLETE follows the last chunk.
Done(x, n) == x.chunks_sent + n >= Total

Finished(x, state) == [x EXCEPT !.state = state, !.finished = 0]

\* Mutant: every stalled turn starts the window again.
note_send_stalledAgain(x) == [x EXCEPT !.stalled = 0]

note_send_stalled(x) ==
  IF x.stalled # Never /\ x.stalled >= STALL_GIVE_UP THEN Finished(x, "failed")
  ELSE [x EXCEPT !.stalled = IF @ = Never THEN 0 ELSE @]

note_send_progress(x) == [x EXCEPT !.stalled = Never]

\* Mutant: refused chunks stay counted.
unsend_chunksKept(x, n) == x

unsend_chunks(x, n) ==
  [x EXCEPT !.chunks_sent = @ - n,
            !.state = IF n > 0 /\ @ = "complete" THEN "transferring" ELSE @]

\* Of the n chunks emitted `sent' are handed to a transport before one is refused
\* and the rest held back; COMPLETE is if `completed'.
AfterTurn(x, budget, n, sent, completed) ==
  LET counted == [x EXCEPT !.chunks_sent = @ + n]
      read    == IF ReadFails(x, budget, n) THEN Finished(counted, "failed") ELSE counted
      marked  == IF completed THEN Finished(read, "complete") ELSE read
      unsent  == unsend_chunks(marked, n - sent)
  IN IF sent < n \/ (Done(x, n) /\ ~completed) THEN note_send_stalled(unsent)
     ELSE IF sent > 0 THEN note_send_progress(unsent)
     ELSE unsent

\* `versions': what was read for the chunks that were sent.
TurnFrames(x, peer, versions, completed) ==
  {[type |-> "Chunk", peer |-> peer, pass |-> x.pass, index |-> i, version |-> versions[i]] :
     i \in DOMAIN versions}
    \cup (IF completed THEN [type : {"Complete"}, peer : {peer}, pass : {x.pass}] ELSE {})

Turn(x, budget, handled) ==
  \E n \in Emitted(x, budget) : \E sent \in 0 .. n, completed \in BOOLEAN :
    /\ completed => Done(x, n) /\ sent = n
    /\ out' = AfterTurn(x, budget, n, sent, completed)
    /\ \E versions \in [x.chunks_sent .. x.chunks_sent + sent - 1 -> Readable] :
         net' = (net \ handled) \cup
                TurnFrames(x, IF mode = "room" THEN x.to ELSE Friend, versions, completed)

has_outbound == out.state \in TransferState

\* SendFile and SendSfuFile, once.
SendFile ==
  /\ out.state = "none"
  /\ out' = [out EXCEPT !.state = "pending"]
  /\ net' = net \cup Control("Offer", Audience)
  /\ UNCHANGED <<mode, large, inb, part, lost>>

\* FileTransferAccept: a transfer that is gone is answered with an error.
FileTransferAccept(m) ==
  /\ m.type = "Accept"
  /\ IF ~has_outbound
     THEN out' = out /\ net' = (net \ {m}) \cup Control("Refusal", {m.peer})
     ELSE IF out.state = "pending"
     THEN Turn([out EXCEPT !.state = "transferring"],
               IF Streaming THEN CHUNK_BUDGET ELSE Total, {m})
     ELSE out' = out /\ net' = net \ {m}
  /\ UNCHANGED <<mode, large, inb, part, lost>>

\* FileTransferReject, Ack and Error, handled whatever the transfer's state.
SenderTold(m) ==
  /\ m.type \in {"Reject", "Ack", "Error"}
  /\ out' = IF ~has_outbound THEN out
            ELSE IF m.type = "Ack" THEN Finished(out, "complete")
            ELSE [out EXCEPT !.state = IF m.type = "Reject" THEN "rejected" ELSE "failed"]
  /\ net' = net \ {m}
  /\ UNCHANGED <<mode, large, inb, part, lost>>

start_stream_for(p) ==
  [out EXCEPT !.chunks_sent = 0, !.to = p, !.state = "transferring",
              !.finished = Never, !.pass = @ + 1]

\* SfuFileRequest: the stream starts over, for the new requester.
SfuFileRequest(m) ==
  /\ m.type = "Request"
  /\ IF ~has_outbound
     THEN out' = out /\ net' = (net \ {m}) \cup Control("Revoke", {m.peer})
     ELSE out.pass < MaxPasses /\ Turn(start_stream_for(m.peer), CHUNK_BUDGET, {m})
  /\ UNCHANGED <<mode, large, inb, part, lost>>

\* pump_room_file_streams.
PumpStream ==
  /\ out.state = "transferring"
  /\ Turn(out, CHUNK_BUDGET, {})
  /\ UNCHANGED <<mode, large, inb, part, lost>>

\* RevokeFile: only the peers of a room are told.
RevokeFile ==
  /\ has_outbound
  /\ out' = [NoOutbound EXCEPT !.state = "revoked"]
  /\ net' = net \cup (IF mode = "room" THEN Control("Revoke", Peer) ELSE {})
  /\ UNCHANGED <<mode, large, inb, part, lost>>

\* The sender's client exits, and its records with it.
ExitSender ==
  /\ has_outbound
  /\ out' = [NoOutbound EXCEPT !.state = "exited"]
  /\ UNCHANGED <<mode, large, inb, part, net, lost>>

\* CancelFile at the sender of a 1:1 transfer; nobody is told.
CancelOutbound ==
  /\ mode = "direct" /\ out.state \in {"pending", "transferring"}
  /\ out' = [out EXCEPT !.state = "cancelled"]
  /\ UNCHANGED <<mode, large, inb, part, net, lost>>

Stamped(x) ==
  IF x.finished = Never /\ is_terminal(x.state) THEN [x EXCEPT !.finished = 0] ELSE x

Kept(x) ==
  IF x.finished # Never THEN x.finished < TRANSFER_RETAIN ELSE x.age < OFFER_TTL

GcOutbound ==
  /\ has_outbound
  /\ out' = LET x == Stamped(out) IN
            IF Kept(x) THEN x ELSE [NoOutbound EXCEPT !.state = "dropped", !.age = x.age]
  /\ out' # out
  /\ UNCHANGED <<mode, large, inb, part, net, lost>>

-----------------------------------------------------------------------------
(* A receiver.                                                             *)

has_inbound(p) == inb[p].state \in TransferState

\* Frames about a transfer reach the other side of a 1:1 transfer only: a room
\* has no accept, reject, acknowledgement or error.
Reply(type, p) == IF mode = "direct" THEN Control(type, {p}) ELSE {}

Receive(p, x, frames, handled) ==
  /\ inb' = [inb EXCEPT ![p] = x]
  /\ net' = (net \ handled) \cup frames
  /\ UNCHANGED <<mode, large, out, lost>>

\* An offer opens a .part file for a large file; without storage it is refused.
FileOffer(p, m, storage) ==
  /\ m.type = "Offer" /\ m.peer = p
  /\ large \/ storage
  /\ IF storage
     THEN /\ Receive(p, [NoInbound EXCEPT !.state = "pending"], {}, {m})
          /\ part' = [part EXCEPT ![p] = large]
     ELSE Receive(p, inb[p], Reply("Reject", p), {m}) /\ UNCHANGED part

\* AcceptFile and AcceptRoomFile; a room file is requested again and again.
AcceptFile(p) ==
  /\ has_inbound(p)
  /\ mode = "direct" => inb[p].state = "pending"
  /\ Receive(p, IF inb[p].state = "pending"
                THEN [inb[p] EXCEPT !.state = "transferring"] ELSE inb[p],
             Control(IF mode = "direct" THEN "Accept" ELSE "Request", {p}), {})
  /\ UNCHANGED part

\* RejectFile of a 1:1 offer; its .part file stays for gc.
RejectFile(p) ==
  /\ mode = "direct" /\ has_inbound(p)
  /\ Receive(p, [inb[p] EXCEPT !.state = "rejected"], Control("Reject", {p}), {})
  /\ UNCHANGED part

\* CancelFile at the receiver of a 1:1 transfer.
CancelInbound(p) ==
  /\ mode = "direct"
  /\ \/ /\ inb[p].state = "pending"
        /\ Receive(p, [inb[p] EXCEPT !.state = "rejected"], Control("Reject", {p}), {})
     \/ /\ inb[p].state = "transferring"
        /\ Receive(p, [inb[p] EXCEPT !.state = "cancelled"], Control("Error", {p}), {})
  /\ UNCHANGED part

\* remove_file, whose failure is at most logged.
RemovePart(p) == \E removed \in BOOLEAN : part' = [part EXCEPT ![p] = @ /\ ~removed]

\* discard_inbound: by DeclineRoomFile or because the sender revoked the file.
DiscardInbound(p, handled) ==
  /\ Receive(p, [NoInbound EXCEPT !.state = "revoked"], {}, handled)
  /\ RemovePart(p)

DeclineRoomFile(p) == mode = "room" /\ has_inbound(p) /\ DiscardInbound(p, {})

SfuFileRevoke(p, m) ==
  /\ m.type = "Revoke" /\ m.peer = p
  /\ IF has_inbound(p) THEN DiscardInbound(p, {m})
     ELSE Receive(p, inb[p], {}, {m}) /\ UNCHANGED part

\* finish_inbound of x with every chunk in: the content must have the offered
\* hash; `storage' is false when it cannot be decoded, read back or renamed.
FinishInbound(p, x, storage, handled) ==
  IF storage /\ \A i \in Chunk : x.got[i] = Offered
  THEN /\ Receive(p, [x EXCEPT !.state = "complete"], Reply("Ack", p), handled)
       /\ part' = [part EXCEPT ![p] = FALSE]
  ELSE /\ Receive(p, [x EXCEPT !.state = "failed"], Reply("Error", p), handled)
       /\ RemovePart(p)

Whole(x) == \A i \in Chunk : x.got[i] # Gone

\* A chunk is stored once.
FileChunk(p, m, storage) ==
  /\ m.type = "Chunk" /\ m.peer = p
  /\ LET stored == /\ inb[p].state = "transferring"
                   /\ inb[p].got[m.index] = Gone
         x == IF stored THEN [inb[p] EXCEPT !.got[m.index] = m.version] ELSE inb[p]
     IN IF stored /\ x.complete_requested /\ Whole(x)
        THEN FinishInbound(p, x, storage, {m})
        ELSE Receive(p, x, {}, {m}) /\ UNCHANGED part

\* COMPLETE may come before the last chunk.
FileComplete(p, m, storage) ==
  /\ m.type = "Complete" /\ m.peer = p
  /\ IF inb[p].state # "transferring"
     THEN Receive(p, inb[p], {}, {m}) /\ UNCHANGED part
     ELSE IF Whole(inb[p])
     THEN FinishInbound(p, inb[p], storage, {m})
     ELSE /\ Receive(p, [inb[p] EXCEPT !.complete_requested = TRUE], {}, {m})
          /\ UNCHANGED part

\* A FileTransferError for the receiver: on_transfer_error looks among the
\* outbound transfers only.
ReceiverTold(p, m) ==
  /\ m.type = "Refusal" /\ m.peer = p
  /\ Receive(p, inb[p], {}, {m})
  /\ UNCHANGED part

\* gc at a receiver, whose time is not kept: the 300 s of a finished transfer or
\* the hour of any other may have passed.  The record goes, its .part file if it can.
GcInbound(p) ==
  /\ has_inbound(p)
  /\ Receive(p, [NoInbound EXCEPT !.state = "dropped"], {}, {})
  /\ RemovePart(p)

\* A receiver's client exits: no later one knows of the .part file.
ExitReceiver(p) ==
  /\ has_inbound(p)
  /\ Receive(p, [NoInbound EXCEPT !.state = "exited"], {}, {})
  /\ UNCHANGED part

-----------------------------------------------------------------------------
(* The world around them.                                                  *)

\* Ages stop where nothing depends on them any more.
Older(n, limit) == IF n = Never THEN Never ELSE Smaller(n + 1, limit)

Tick ==
  /\ out' = [out EXCEPT !.age = IF has_outbound THEN Older(@, OFFER_TTL) ELSE @,
                        !.finished = Older(@, TRANSFER_RETAIN),
                        !.stalled = Older(@, STALL_GIVE_UP)]
  /\ out' # out
  /\ UNCHANGED <<mode, large, inb, part, net, lost>>

DropFrame(m) ==
  /\ lost < MaxLost
  /\ net' = net \ {m}
  /\ lost' = lost + 1
  /\ UNCHANGED <<mode, large, out, inb, part>>

\* A transport dies with the frame.
Lose(m) == DropFrame(m)

\* A chunk of a room file that is not sealed, or not under a key this peer holds.
UnopenedChunk(m) == m.type = "Chunk" /\ mode = "room" /\ DropFrame(m)

\* The .part file does not take the chunk, which does not count as received.
UnwrittenChunk(m) ==
  /\ m.type = "Chunk" /\ large
  /\ inb[m.peer].state = "transferring" /\ inb[m.peer].got[m.index] = Gone
  /\ DropFrame(m)

Next ==
  \/ SendFile \/ PumpStream \/ RevokeFile \/ CancelOutbound \/ GcOutbound \/ ExitSender
  \/ Tick
  \/ \E m \in net :
       \/ FileTransferAccept(m) \/ SenderTold(m) \/ SfuFileRequest(m)
       \/ Lose(m) \/ UnopenedChunk(m) \/ UnwrittenChunk(m)
       \/ SfuFileRevoke(m.peer, m) \/ ReceiverTold(m.peer, m)
       \/ \E storage \in BOOLEAN :
            \/ FileOffer(m.peer, m, storage)
            \/ FileChunk(m.peer, m, storage)
            \/ FileComplete(m.peer, m, storage)
  \/ \E p \in Peer :
       \/ AcceptFile(p) \/ RejectFile(p) \/ CancelInbound(p) \/ DeclineRoomFile(p)
       \/ GcInbound(p) \/ ExitReceiver(p)

Spec == Init /\ [][Next]_vars

\* The pump's interval goes on, and time does.
FairSpec == Spec /\ WF_vars(PumpStream) /\ WF_vars(Tick)

-----------------------------------------------------------------------------
(* Properties.                                                             *)

\* Refused frames leave no hole: once the sender counts its stream as complete
\* and nothing is on its way, the peer it was for is not waiting for a chunk.
NoHoles ==
  out.state = "complete" /\ net = {} /\ lost = 0 =>
    \A p \in (IF mode = "room" THEN {out.to} ELSE {Friend}) \ {Nobody} :
      inb[p].state # "transferring"

\* "Inbound records own a `.part` file, so dropping one must delete it" (gc).
NoOrphanPart == \A p \in Peer : part[p] => has_inbound(p)

\* A stream comes to an end, with all of it sent or given up for want of a
\* transport, without waiting for gc to drop the transfer an hour later.
StreamsEnd == out.state = "transferring" ~> out.state # "transferring"

\* "each acceptor gets their own pass over the source" (start_stream_for).
AcceptorsServed ==
  out.state = "complete" /\ net = {} /\ lost = 0 =>
    \A p \in Peer : inb[p].state # "transferring"

\* "Outbound offers stay answerable for OFFER_TTL_SECS so a room member who
\* accepts late still gets a re-stream" (gc).
OfferAnswerable == out.state = "dropped" => out.age >= OFFER_TTL

\* "Say so, or the peer waits forever for chunks that will never come" (the
\* handler of FileTransferAccept): a peer told that the file is no longer
\* shared does not wait.
RefusalHeard ==
  [][\A p \in Peer : \A m \in net : ReceiverTold(p, m) => inb'[p].state # "transferring"]_vars
=============================================================================
