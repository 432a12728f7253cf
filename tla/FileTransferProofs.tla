-------------------------- MODULE FileTransferProofs ------------------------
(***************************************************************************)
(* What a transfer of any number of chunks to any number of peers promises *)
(* with frames reordered and lost, streams started over and the sender's   *)
(* file rewritten under it.                                                *)
(***************************************************************************)
EXTENDS FileTransfer, TLAPS

-----------------------------------------------------------------------------
(* The inductive invariant.                                                *)

\* A peer that has accepted, and one for which the transfer is also over.
Answered == StateOrNone \ {"none", "pending"}

Over == Answered \ {"transferring"}

\* Whom the sender's stream is for.
Target == (IF mode = "room" THEN {out.to} ELSE {Friend}) \ {Nobody}

\* Nothing happens before the offer.
Quiet == out.state = "none" => net = {} /\ \A p \in Peer : inb[p].state = "none"

\* What a frame on its way tells of the peer that it is for or from.
Asked ==
  \A m \in net :
    /\ m.type = "Offer" => inb[m.peer].state = "none"
    /\ m.type = "Accept" => mode = "direct" /\ inb[m.peer].state \in Answered
    /\ m.type = "Request" => mode = "room" /\ inb[m.peer].state \in Answered
    /\ m.type = "Ack" => mode = "direct" /\ inb[m.peer].state \in Over

\* A 1:1 transfer concerns one peer.
Confined ==
  mode = "direct" =>
    /\ \A p \in Peer \ {Friend} : inb[p].state = "none"
    /\ \A m \in net : m.peer = Friend

Aimed == mode = "room" /\ out.state = "transferring" => out.to # Nobody

\* Only a peer that has accepted is sent chunks.
Served ==
  out.chunks_sent > 0 \/ out.state \in {"transferring", "complete"} =>
    \A p \in Target : inb[p].state \in Answered

\* Each chunk that counts as sent has come or is on its way.
Streamed ==
  lost = 0 =>
    \A p \in Target : inb[p].state = "transferring" =>
      \A i \in 0 .. out.chunks_sent - 1 :
        inb[p].got[i] # Gone \/ \E m \in net : m.type = "Chunk" /\ m.peer = p /\ m.index = i

\* So has COMPLETE once the stream counts as complete.
Completed ==
  lost = 0 /\ out.state = "complete" =>
    \A p \in Target : inb[p].state = "transferring" =>
      /\ out.chunks_sent = Total
      /\ inb[p].complete_requested \/ \E m \in net : m.type = "Complete" /\ m.peer = p

\* A receiver that has seen COMPLETE and goes on misses a chunk.
Wanting ==
  \A p \in Peer :
    /\ inb[p].state = "pending" => ~ inb[p].complete_requested
    /\ inb[p].state = "transferring" /\ inb[p].complete_requested => ~ Whole(inb[p])

FileInv ==
  /\ TypeOK /\ Quiet /\ Asked /\ Confined /\ Aimed
  /\ Served /\ Streamed /\ Completed /\ Wanting

-----------------------------------------------------------------------------
(* Frames and records.                                                     *)

LEMMA Constants ==
  /\ Total \in Nat /\ Total > 0 /\ CHUNK_BUDGET \in Nat /\ CHUNK_BUDGET > 0
  /\ STALL_GIVE_UP \in Nat /\ TRANSFER_RETAIN \in Nat /\ OFFER_TTL \in Nat
  /\ MaxPasses \in Nat /\ MaxLost \in Nat
  /\ Friend \in Peer /\ Nobody \notin Peer
BY FileAssumption

LEMMA FrameFields ==
  ASSUME NEW m \in Frame
  PROVE  /\ m.peer \in Peer
         /\ m.type \in {"Offer", "Accept", "Reject", "Ack", "Error", "Refusal", "Request",
                        "Revoke", "Complete", "Chunk"}
         /\ m.type = "Chunk" => m.index \in Chunk /\ m.version \in Version
BY DEF Frame

LEMMA ControlFrames ==
  ASSUME NEW P \in SUBSET Peer,
         NEW type \in {"Offer", "Accept", "Reject", "Ack", "Error", "Refusal", "Request", "Revoke"}
  PROVE  /\ Control(type, P) \subseteq Frame
         /\ \A m \in Control(type, P) : m.type = type /\ m.peer \in P
BY DEF Control, Frame

LEMMA FreshInbound ==
  /\ NoInbound \in InboundTransfer
  /\ \A s \in StateOrNone : [NoInbound EXCEPT !.state = s] \in InboundTransfer
BY DEF NoInbound, InboundTransfer, StateOrNone, TransferState

LEMMA FreshOutbound ==
  /\ NoOutbound \in OutboundTransfer
  /\ \A s \in StateOrNone : [NoOutbound EXCEPT !.state = s] \in OutboundTransfer
  /\ \A s \in StateOrNone, a \in Nat :
       [NoOutbound EXCEPT !.state = s, !.age = a] \in OutboundTransfer
<1>1. 0 \in 0 .. Total /\ 0 \in 0 .. MaxPasses /\ 0 \in Nat
  BY Constants
<1>2. "none" \in StateOrNone
  BY DEF StateOrNone
<1> QED
  BY <1>1, <1>2 DEF NoOutbound, OutboundTransfer, Never

LEMMA FileInit == Init => FileInv
<1> SUFFICES ASSUME Init PROVE FileInv
  OBVIOUS
<1>1. TypeOK
  <2>1. 0 \in 0 .. MaxLost
    BY Constants
  <2>2. NoInbound \in InboundTransfer /\ NoOutbound \in OutboundTransfer
    BY FreshInbound, FreshOutbound
  <2> QED
    BY <2>1, <2>2 DEF Init, TypeOK
<1>3. Quiet /\ Asked /\ Confined /\ Wanting
  BY DEF Init, Quiet, Asked, Confined, Wanting, NoInbound
<1>4. Aimed /\ Served /\ Streamed /\ Completed
  BY DEF Init, Aimed, Served, Streamed, Completed, NoOutbound, NoInbound
<1> QED
  BY <1>1, <1>3, <1>4 DEF FileInv

-----------------------------------------------------------------------------
(* A turn of the sender.                                                   *)

\* A turn counts exactly the chunks that a transport has taken, and the stream
\* counts as complete only with all of them and COMPLETE taken.
LEMMA AfterTurnCounts ==
  ASSUME NEW x \in OutboundTransfer, x.state = "transferring", NEW budget \in Nat,
         NEW n \in Emitted(x, budget), NEW sent \in 0 .. n, NEW completed \in BOOLEAN,
         completed => Done(x, n) /\ sent = n
  PROVE  LET y == AfterTurn(x, budget, n, sent, completed)
         IN  /\ y \in OutboundTransfer
             /\ y.chunks_sent = x.chunks_sent + sent
             /\ y.to = x.to
             /\ y.state \in {"transferring", "complete", "failed"}
             /\ y.state = "complete" => completed /\ y.chunks_sent = Total
<1> DEFINE counted == [x EXCEPT !.chunks_sent = @ + n]
           read == IF ReadFails(x, budget, n) THEN Finished(counted, "failed") ELSE counted
           marked == IF completed THEN Finished(read, "complete") ELSE read
           unsent == unsend_chunks(marked, n - sent)
           y == AfterTurn(x, budget, n, sent, completed)
<1>1. /\ x.chunks_sent \in 0 .. Total /\ Total \in Nat
      /\ n \in Nat /\ x.chunks_sent + n <= Total /\ sent \in Nat /\ sent <= n
  <2>1. x.chunks_sent \in 0 .. Total /\ Total \in Nat
    BY Constants DEF OutboundTransfer
  <2> QED
    BY <2>1 DEF Emitted, Slice, Smaller
<1>2. /\ counted \in OutboundTransfer
      /\ counted.chunks_sent = x.chunks_sent + n
      /\ counted.to = x.to /\ counted.state = "transferring"
  BY <1>1 DEF OutboundTransfer
<1>3. /\ read \in OutboundTransfer
      /\ read.chunks_sent = x.chunks_sent + n
      /\ read.to = x.to /\ read.state \in {"transferring", "failed"}
  BY <1>2 DEF OutboundTransfer, Finished, StateOrNone, TransferState
<1>4. /\ marked \in OutboundTransfer
      /\ marked.chunks_sent = x.chunks_sent + n
      /\ marked.to = x.to /\ marked.state \in {"transferring", "failed", "complete"}
      /\ marked.state = "complete" <=> completed
  <2> HIDE DEF read
  <2> QED
    BY <1>3 DEF OutboundTransfer, Finished, StateOrNone, TransferState
<1>5. /\ unsent \in OutboundTransfer
      /\ unsent.chunks_sent = x.chunks_sent + sent
      /\ unsent.to = x.to /\ unsent.state \in {"transferring", "failed", "complete"}
      /\ unsent.state = "complete" => completed
  <2> HIDE DEF marked
  <2>1. (x.chunks_sent + n) - (n - sent) = x.chunks_sent + sent /\ x.chunks_sent + sent \in 0 .. Total
    BY <1>1
  <2> QED
    BY <1>1, <1>4, <2>1 DEF OutboundTransfer, unsend_chunks, StateOrNone, TransferState
<1>6. y = IF sent < n \/ (Done(x, n) /\ ~ completed) THEN note_send_stalled(unsent)
          ELSE IF sent > 0 THEN note_send_progress(unsent)
          ELSE unsent
  BY DEF AfterTurn
<1>7. /\ y \in OutboundTransfer
      /\ y.chunks_sent = x.chunks_sent + sent
      /\ y.to = x.to
      /\ y.state \in {unsent.state, "failed"}
  <2> HIDE DEF unsent, y
  <2> QED
    BY <1>5, <1>6 DEF OutboundTransfer, note_send_stalled, note_send_progress, Finished, Never,
                      StateOrNone, TransferState
<1>8. completed => x.chunks_sent + sent = Total
  BY <1>1 DEF Done
<1> HIDE DEF y, unsent
<1>9. y.state = "complete" => completed /\ y.chunks_sent = Total
  BY <1>5, <1>7, <1>8
<1>10. y.state \in {"transferring", "complete", "failed"}
  BY <1>5, <1>7
<1>11. y = AfterTurn(x, budget, n, sent, completed)
  BY DEF y
<1> QED
  BY <1>7, <1>9, <1>10, <1>11

-----------------------------------------------------------------------------
(* The steps of the sender.                                                *)

\* What every step of the sender preserves, given what it does to its record and
\* to the frames.
LEMMA SenderStep ==
  ASSUME FileInv, UNCHANGED <<mode, large, inb, part, lost>>,
         out' \in OutboundTransfer, out'.state # "none", net' \subseteq Frame,
         \A m \in net' \ net : /\ m.type \notin {"Accept", "Request", "Ack"}
                               /\ m.type = "Offer" => inb[m.peer].state = "none"
                               /\ mode = "direct" => m.peer = Friend,
         Aimed', Served', Streamed', Completed'
  PROVE  FileInv'
<1>1. TypeOK /\ Asked /\ Confined /\ Wanting
  BY DEF FileInv
<1>2. TypeOK'
  BY <1>1 DEF TypeOK
<1>3. Asked'
  BY <1>1 DEF Asked
<1>4. Confined' /\ Quiet' /\ Wanting'
  BY <1>1 DEF Confined, Quiet, Wanting, Whole
<1> QED
  BY <1>2, <1>3, <1>4 DEF FileInv

\* A step that leaves the stream where it is, or ends it.
LEMMA StreamKept ==
  ASSUME FileInv, UNCHANGED <<mode, inb, lost>>,
         \A m \in net \ net' : m.type \notin {"Chunk", "Complete"},
         \/ out'.chunks_sent = out.chunks_sent /\ out'.to = out.to
         \/ out'.chunks_sent = 0,
         \/ out'.state = out.state /\ out'.chunks_sent = out.chunks_sent /\ out'.to = out.to
         \/ out'.state \notin {"transferring", "complete"}
         \/ out'.state = "complete" /\ \A p \in Target' : inb[p].state \in Over
  PROVE  Aimed' /\ Served' /\ Streamed' /\ Completed'
<1>1. Aimed /\ Served /\ Streamed /\ Completed /\ TypeOK
  BY DEF FileInv
<1>2. out.chunks_sent \in Nat
  BY <1>1, Constants DEF TypeOK, OutboundTransfer
<1>3. Aimed'
  BY <1>1 DEF Aimed
<1>4. Served'
  BY <1>1, <1>2 DEF Served, Target, Over
<1>5. Streamed'
  <2> SUFFICES ASSUME lost = 0, NEW p \in Target', inb[p].state = "transferring",
                      NEW i \in 0 .. out'.chunks_sent - 1, inb[p].got[i] = Gone
               PROVE  \E m \in net' : m.type = "Chunk" /\ m.peer = p /\ m.index = i
    BY DEF Streamed
  <2>1. out'.chunks_sent = out.chunks_sent /\ out'.to = out.to
    OBVIOUS
  <2>2. p \in Target
    BY <2>1 DEF Target
  <2>3. PICK m \in net : m.type = "Chunk" /\ m.peer = p /\ m.index = i
    BY <1>1, <2>1, <2>2 DEF Streamed
  <2> QED
    BY <2>3
<1>6. Completed'
  <2> SUFFICES ASSUME lost = 0, out'.state = "complete", NEW p \in Target',
                      inb[p].state = "transferring"
               PROVE  /\ out'.chunks_sent = Total
                      /\ \/ inb[p].complete_requested
                         \/ \E m \in net' : m.type = "Complete" /\ m.peer = p
    BY DEF Completed
  <2>1. out'.state = out.state /\ out'.chunks_sent = out.chunks_sent /\ out'.to = out.to
    BY DEF Over
  <2>2. p \in Target
    BY <2>1 DEF Target
  <2> QED
    BY <1>1, <2>1, <2>2 DEF Completed
<1> QED
  BY <1>3, <1>4, <1>5, <1>6

\* The frames of a turn are of the stream's peer.
LEMMA TurnStep ==
  ASSUME FileInv, UNCHANGED <<mode, large, inb, part, lost>>,
         NEW x \in OutboundTransfer, x.state = "transferring", NEW budget \in Nat,
         NEW handled, \A m \in net \cap handled : m.type \in {"Accept", "Request"},
         Turn(x, budget, handled),
         NEW q \in Peer, q = IF mode = "room" THEN x.to ELSE Friend,
         inb[q].state \in Answered,
         lost = 0 /\ inb[q].state = "transferring" =>
           \A i \in 0 .. x.chunks_sent - 1 :
             inb[q].got[i] # Gone \/ \E m \in net : m.type = "Chunk" /\ m.peer = q /\ m.index = i
  PROVE  FileInv'
<1>n. PICK n \in Emitted(x, budget) :
        \E sent \in 0 .. n, completed \in BOOLEAN :
          /\ completed => Done(x, n) /\ sent = n
          /\ out' = AfterTurn(x, budget, n, sent, completed)
          /\ \E versions \in [x.chunks_sent .. x.chunks_sent + sent - 1 -> Readable] :
               net' = (net \ handled) \cup TurnFrames(x, q, versions, completed)
  BY DEF Turn
<1>0. PICK sent \in 0 .. n, completed \in BOOLEAN :
        /\ completed => Done(x, n) /\ sent = n
        /\ out' = AfterTurn(x, budget, n, sent, completed)
        /\ \E versions \in [x.chunks_sent .. x.chunks_sent + sent - 1 -> Readable] :
             net' = (net \ handled) \cup TurnFrames(x, q, versions, completed)
  BY <1>n
<1>1. PICK versions \in [x.chunks_sent .. x.chunks_sent + sent - 1 -> Readable] :
        net' = (net \ handled) \cup TurnFrames(x, q, versions, completed)
  BY <1>0
<1>2. /\ out' \in OutboundTransfer
      /\ out'.chunks_sent = x.chunks_sent + sent
      /\ out'.to = x.to
      /\ out'.state \in {"transferring", "complete", "failed"}
      /\ out'.state = "complete" => completed /\ out'.chunks_sent = Total
  BY <1>0, AfterTurnCounts
<1>3. TypeOK /\ Streamed /\ Asked
  BY DEF FileInv
<1>4. x.chunks_sent \in 0 .. Total /\ Total \in Nat /\ x.pass \in 0 .. MaxPasses
  BY Constants DEF OutboundTransfer
<1>5. sent \in Nat /\ x.chunks_sent + sent <= Total /\ Readable \subseteq Version
  BY <1>4 DEF Emitted, Slice, Smaller, Readable, Offered, Version
<1>6. /\ TurnFrames(x, q, versions, completed) \subseteq Frame
      /\ \A m \in TurnFrames(x, q, versions, completed) : m.type \in {"Chunk", "Complete"} /\ m.peer = q
  <2>1. ASSUME NEW i \in x.chunks_sent .. x.chunks_sent + sent - 1
        PROVE  i \in Chunk /\ versions[i] \in Version
    BY <1>4, <1>5 DEF Chunk
  <2> QED
    BY <1>4, <2>1 DEF TurnFrames, Frame
<1>7. /\ \A i \in x.chunks_sent .. x.chunks_sent + sent - 1 :
           \E m \in net' : m.type = "Chunk" /\ m.peer = q /\ m.index = i
      /\ completed => \E m \in net' : m.type = "Complete" /\ m.peer = q
  <2>1. ASSUME NEW i \in x.chunks_sent .. x.chunks_sent + sent - 1
        PROVE  \E m \in net' : m.type = "Chunk" /\ m.peer = q /\ m.index = i
    <3> DEFINE m == [type |-> "Chunk", peer |-> q, pass |-> x.pass, index |-> i,
                     version |-> versions[i]]
    <3>1. m \in TurnFrames(x, q, versions, completed)
      BY DEF TurnFrames
    <3> QED
      BY <1>1, <3>1
  <2>2. ASSUME completed PROVE \E m \in net' : m.type = "Complete" /\ m.peer = q
    <3> DEFINE m == [type |-> "Complete", peer |-> q, pass |-> x.pass]
    <3>1. m \in TurnFrames(x, q, versions, completed)
      BY <2>2 DEF TurnFrames
    <3> QED
      BY <1>1, <3>1
  <2> QED
    BY <2>1, <2>2
<1>8. Target' \subseteq {q}
  BY <1>2 DEF Target
<1>9. Aimed' /\ Served'
  BY <1>2, <1>8, Constants DEF Aimed, Served, Answered
<1>10. Streamed'
  <2> SUFFICES ASSUME lost = 0, inb[q].state = "transferring",
                      NEW i \in 0 .. out'.chunks_sent - 1, inb[q].got[i] = Gone
               PROVE  \E m \in net' : m.type = "Chunk" /\ m.peer = q /\ m.index = i
    BY <1>8 DEF Streamed
  <2>1. CASE i \in 0 .. x.chunks_sent - 1
    <3>1. PICK m \in net : m.type = "Chunk" /\ m.peer = q /\ m.index = i
      BY <2>1
    <3> QED
      BY <1>1, <3>1
  <2>2. CASE i \notin 0 .. x.chunks_sent - 1
    <3>1. i \in x.chunks_sent .. x.chunks_sent + sent - 1
      BY <1>2, <1>4, <1>5, <2>2
    <3> QED
      BY <1>7, <3>1
  <2> QED
    BY <2>1, <2>2
<1>11. Completed'
  BY <1>2, <1>7, <1>8 DEF Completed
<1>12. net' \subseteq Frame /\ \A m \in net' \ net : m.type \in {"Chunk", "Complete"} /\ m.peer = q
  BY <1>1, <1>3, <1>6 DEF TypeOK
<1> QED
  BY <1>2, <1>9, <1>10, <1>11, <1>12, SenderStep

\* What a turn needs to know of a stream that is running.
LEMMA RunningStream ==
  ASSUME FileInv, out.state = "transferring"
  PROVE  \E q \in Peer :
           /\ q = IF mode = "room" THEN out.to ELSE Friend
           /\ inb[q].state \in Answered
           /\ lost = 0 /\ inb[q].state = "transferring" =>
                \A i \in 0 .. out.chunks_sent - 1 :
                  inb[q].got[i] # Gone
                    \/ \E m \in net : m.type = "Chunk" /\ m.peer = q /\ m.index = i
<1> DEFINE q == IF mode = "room" THEN out.to ELSE Friend
<1>1. TypeOK /\ Aimed /\ Served /\ Streamed
  BY DEF FileInv
<1>2. out.to \in Peer \cup {Nobody} /\ mode \in {"direct", "room"}
  BY <1>1 DEF TypeOK, OutboundTransfer
<1>3. q \in Peer /\ q \in Target
  BY <1>1, <1>2, Constants DEF Aimed, Target
<1>4. inb[q].state \in Answered
  BY <1>1, <1>3 DEF Served
<1>5. lost = 0 /\ inb[q].state = "transferring" =>
        \A i \in 0 .. out.chunks_sent - 1 :
          inb[q].got[i] # Gone
            \/ \E m \in net : m.type = "Chunk" /\ m.peer = q /\ m.index = i
  BY <1>1, <1>3 DEF Streamed
<1> QED
  BY <1>3, <1>4, <1>5

LEMMA PumpStep == ASSUME FileInv, PumpStream PROVE FileInv'
<1>1. PICK q \in Peer :
        /\ q = IF mode = "room" THEN out.to ELSE Friend
        /\ inb[q].state \in Answered
        /\ lost = 0 /\ inb[q].state = "transferring" =>
             \A i \in 0 .. out.chunks_sent - 1 :
               inb[q].got[i] # Gone
                 \/ \E m \in net : m.type = "Chunk" /\ m.peer = q /\ m.index = i
  BY RunningStream DEF PumpStream
<1>2. out \in OutboundTransfer /\ CHUNK_BUDGET \in Nat
  BY Constants DEF FileInv, TypeOK
<1>3. out.state = "transferring" /\ Turn(out, CHUNK_BUDGET, {})
      /\ UNCHANGED <<mode, large, inb, part, lost>>
  BY DEF PumpStream
<1> QED
  BY <1>1, <1>2, <1>3, TurnStep

LEMMA AcceptStep == ASSUME FileInv, NEW m \in net, FileTransferAccept(m) PROVE FileInv'
<1>1. TypeOK /\ Asked /\ Confined /\ Quiet /\ Streamed
  BY DEF FileInv
<1>2. m \in Frame /\ m.type = "Accept" /\ m.peer \in Peer
  BY <1>1, FrameFields DEF TypeOK, FileTransferAccept
<1>3. mode = "direct" /\ inb[m.peer].state \in Answered /\ m.peer = Friend /\ out.state # "none"
  BY <1>1, <1>2 DEF Asked, Confined, Quiet
<1>4. UNCHANGED <<mode, large, inb, part, lost>> /\ out \in OutboundTransfer
  BY <1>1 DEF FileTransferAccept, TypeOK
<1>5. CASE has_outbound /\ out.state = "pending"
  <2> DEFINE x == [out EXCEPT !.state = "transferring"]
             budget == IF Streaming THEN CHUNK_BUDGET ELSE Total
  <2>1. /\ x \in OutboundTransfer /\ x.state = "transferring"
        /\ x.chunks_sent = out.chunks_sent /\ x.to = out.to
    BY <1>4 DEF OutboundTransfer, StateOrNone, TransferState
  <2>2. budget \in Nat
    BY Constants
  <2>3. Turn(x, budget, {m})
    BY <1>5 DEF FileTransferAccept
  <2>4. Friend \in Target
    BY <1>3, Constants DEF Target
  <2>5. lost = 0 /\ inb[Friend].state = "transferring" =>
          \A i \in 0 .. x.chunks_sent - 1 :
            inb[Friend].got[i] # Gone
              \/ \E f \in net : f.type = "Chunk" /\ f.peer = Friend /\ f.index = i
    BY <1>1, <2>1, <2>4 DEF Streamed
  <2>6. Friend = IF mode = "room" THEN x.to ELSE Friend
    BY <1>3
  <2>7. \A f \in net \cap {m} : f.type \in {"Accept", "Request"}
    BY <1>2
  <2>8. Friend \in Peer /\ inb[Friend].state \in Answered
    BY <1>3, Constants
  <2> HIDE DEF x, budget
  <2> QED
    BY <1>4, <2>1, <2>2, <2>3, <2>5, <2>6, <2>7, <2>8, TurnStep
<1>6. CASE ~ (has_outbound /\ out.state = "pending")
  <2>1. out' = out /\ net \ {m} \subseteq net' /\ net' \subseteq net \cup Control("Refusal", {m.peer})
    BY <1>6 DEF FileTransferAccept
  <2>2. /\ Control("Refusal", {m.peer}) \subseteq Frame
        /\ \A f \in Control("Refusal", {m.peer}) : f.type = "Refusal" /\ f.peer = m.peer
    BY <1>2, ControlFrames
  <2>3. net' \subseteq Frame /\ \A f \in net' \ net : f.type = "Refusal" /\ f.peer = Friend
    BY <1>1, <1>3, <2>1, <2>2 DEF TypeOK
  <2>4. \A f \in net \ net' : f.type = "Accept"
    BY <1>2, <2>1
  <2>5. Aimed' /\ Served' /\ Streamed' /\ Completed'
    BY <1>4, <2>1, <2>4, StreamKept
  <2> QED
    BY <1>3, <1>4, <2>1, <2>3, <2>5, SenderStep
<1> QED
  BY <1>5, <1>6

LEMMA RequestStep == ASSUME FileInv, NEW m \in net, SfuFileRequest(m) PROVE FileInv'
<1>1. TypeOK /\ Asked /\ Quiet
  BY DEF FileInv
<1>2. m \in Frame /\ m.type = "Request" /\ m.peer \in Peer
  BY <1>1, FrameFields DEF TypeOK, SfuFileRequest
<1>3. mode = "room" /\ inb[m.peer].state \in Answered /\ out.state # "none"
  BY <1>1, <1>2 DEF Asked, Quiet
<1>4. UNCHANGED <<mode, large, inb, part, lost>> /\ out \in OutboundTransfer
  BY <1>1 DEF SfuFileRequest, TypeOK
<1>5. CASE has_outbound
  <2> DEFINE x == start_stream_for(m.peer)
  <2>1. out.pass < MaxPasses /\ Turn(x, CHUNK_BUDGET, {m})
    BY <1>5 DEF SfuFileRequest
  <2>2. out.pass + 1 \in 0 .. MaxPasses /\ 0 \in 0 .. Total
    BY <1>4, <2>1, Constants DEF OutboundTransfer
  <2>3. x \in OutboundTransfer /\ x.state = "transferring" /\ x.chunks_sent = 0 /\ x.to = m.peer
    BY <1>2, <1>4, <2>2 DEF OutboundTransfer, start_stream_for, StateOrNone, TransferState
  <2>4. m.peer = IF mode = "room" THEN x.to ELSE Friend
    BY <1>3, <2>3
  <2>5. \A i \in 0 .. x.chunks_sent - 1 : FALSE
    BY <2>3
  <2>6. (\A f \in net \cap {m} : f.type \in {"Accept", "Request"}) /\ CHUNK_BUDGET \in Nat
    BY <1>2, Constants
  <2> HIDE DEF x
  <2> QED
    BY <1>2, <1>3, <1>4, <2>1, <2>3, <2>4, <2>5, <2>6, TurnStep
<1>6. CASE ~ has_outbound
  <2>1. out' = out /\ net' = (net \ {m}) \cup Control("Revoke", {m.peer})
    BY <1>6 DEF SfuFileRequest
  <2>2. /\ Control("Revoke", {m.peer}) \subseteq Frame
        /\ \A f \in Control("Revoke", {m.peer}) : f.type = "Revoke" /\ f.peer = m.peer
    BY <1>2, ControlFrames
  <2>3. net' \subseteq Frame /\ \A f \in net' \ net : f.type = "Revoke"
    BY <1>1, <2>1, <2>2 DEF TypeOK
  <2>4. \A f \in net \ net' : f.type = "Request"
    BY <1>2, <2>1
  <2>5. Aimed' /\ Served' /\ Streamed' /\ Completed'
    BY <1>4, <2>1, <2>4, StreamKept
  <2> QED
    BY <1>3, <1>4, <2>1, <2>3, <2>5, SenderStep
<1> QED
  BY <1>5, <1>6

LEMMA OfferStep == ASSUME FileInv, SendFile PROVE FileInv'
<1>1. TypeOK /\ Quiet /\ Confined
  BY DEF FileInv
<1>2. /\ UNCHANGED <<mode, large, inb, part, lost>>
      /\ out' = [out EXCEPT !.state = "pending"]
      /\ net' = net \cup Control("Offer", Audience)
      /\ out.state = "none"
  BY DEF SendFile
<1>3. /\ out' \in OutboundTransfer /\ out'.state = "pending"
      /\ out'.chunks_sent = out.chunks_sent /\ out'.to = out.to
  BY <1>1, <1>2 DEF TypeOK, OutboundTransfer, StateOrNone, TransferState
<1>4. Audience \in SUBSET Peer /\ (mode = "direct" => Audience = {Friend})
  BY <1>1, Constants DEF Audience, TypeOK
<1>5. /\ Control("Offer", Audience) \subseteq Frame
      /\ \A m \in Control("Offer", Audience) : m.type = "Offer" /\ m.peer \in Audience
  BY <1>4, ControlFrames
<1>6. \A p \in Peer : inb[p].state = "none"
  BY <1>1, <1>2 DEF Quiet
<1>7. net' \subseteq Frame
  BY <1>1, <1>2, <1>5 DEF TypeOK
<1>8. \A m \in net' \ net : /\ m.type \notin {"Accept", "Request", "Ack"}
                            /\ m.type = "Offer" => inb[m.peer].state = "none"
                            /\ mode = "direct" => m.peer = Friend
  BY <1>2, <1>4, <1>5, <1>6
<1>9. Aimed' /\ Served' /\ Streamed' /\ Completed'
  BY <1>2, <1>3, StreamKept
<1> QED
  BY <1>2, <1>3, <1>7, <1>8, <1>9, SenderStep

LEMMA ToldStep == ASSUME FileInv, NEW m \in net, SenderTold(m) PROVE FileInv'
<1>1. TypeOK /\ Quiet /\ Confined /\ Asked
  BY DEF FileInv
<1>2. /\ UNCHANGED <<mode, large, inb, part, lost>>
      /\ net' = net \ {m} /\ m.type \in {"Reject", "Ack", "Error"}
  BY DEF SenderTold
<1>3. out \in OutboundTransfer /\ out.state # "none"
  BY <1>1 DEF TypeOK, Quiet
<1>4. /\ out' \in OutboundTransfer
      /\ out'.chunks_sent = out.chunks_sent /\ out'.to = out.to
      /\ \/ out'.state = out.state
         \/ out'.state \in {"rejected", "failed"}
         \/ out'.state = "complete" /\ m.type = "Ack"
  BY <1>2, <1>3 DEF SenderTold, OutboundTransfer, Finished, StateOrNone, TransferState
<1>5. m.type = "Ack" => \A p \in Target' : inb[p].state \in Over
  BY <1>1, <1>2 DEF Asked, Confined, Target
<1>6. Aimed' /\ Served' /\ Streamed' /\ Completed'
  BY <1>2, <1>4, <1>5, StreamKept
<1>7. net' \subseteq Frame /\ net' \ net = {} /\ out'.state # "none"
  BY <1>1, <1>2, <1>3, <1>4 DEF TypeOK
<1> QED
  BY <1>2, <1>4, <1>6, <1>7, SenderStep

LEMMA RevokeStep == ASSUME FileInv, RevokeFile PROVE FileInv'
<1>1. TypeOK
  BY DEF FileInv
<1>2. /\ UNCHANGED <<mode, large, inb, part, lost>>
      /\ out' = [NoOutbound EXCEPT !.state = "revoked"]
      /\ net' = net \cup (IF mode = "room" THEN Control("Revoke", Peer) ELSE {})
  BY DEF RevokeFile
<1>3. out' \in OutboundTransfer /\ out'.state = "revoked" /\ out'.chunks_sent = 0
  <2>1. out' \in OutboundTransfer
    BY <1>2, FreshOutbound DEF StateOrNone
  <2> QED
    BY <1>2, <2>1 DEF NoOutbound
<1>4. /\ Control("Revoke", Peer) \subseteq Frame
      /\ \A m \in Control("Revoke", Peer) : m.type = "Revoke"
  BY ControlFrames
<1>5. net' \subseteq Frame
  BY <1>1, <1>2, <1>4 DEF TypeOK
<1>6. \A m \in net' \ net : mode = "room" /\ m.type = "Revoke"
  BY <1>2, <1>4
<1>7. Aimed' /\ Served' /\ Streamed' /\ Completed'
  BY <1>2, <1>3, StreamKept
<1> QED
  BY <1>2, <1>3, <1>5, <1>6, <1>7, SenderStep

LEMMA ExitStep == ASSUME FileInv, ExitSender PROVE FileInv'
<1>1. TypeOK
  BY DEF FileInv
<1>2. /\ UNCHANGED <<mode, large, inb, part, net, lost>>
      /\ out' = [NoOutbound EXCEPT !.state = "exited"]
  BY DEF ExitSender
<1>3. out' \in OutboundTransfer /\ out'.state = "exited" /\ out'.chunks_sent = 0
  <2>1. out' \in OutboundTransfer
    BY <1>2, FreshOutbound DEF StateOrNone
  <2> QED
    BY <1>2, <2>1 DEF NoOutbound
<1>4. net' \subseteq Frame /\ net' \ net = {}
  BY <1>1, <1>2 DEF TypeOK
<1>5. Aimed' /\ Served' /\ Streamed' /\ Completed'
  BY <1>2, <1>3, StreamKept
<1> QED
  BY <1>2, <1>3, <1>4, <1>5, SenderStep

\* Time, garbage collection and the user's cancelling.
LEMMA OutboundStep == ASSUME FileInv, CancelOutbound \/ GcOutbound \/ Tick PROVE FileInv'
<1>1. TypeOK /\ Quiet
  BY DEF FileInv
<1>2. UNCHANGED <<mode, large, inb, part, net, lost>>
  BY DEF CancelOutbound, GcOutbound, Tick
<1>3. out \in OutboundTransfer
  BY <1>1 DEF TypeOK
<1>4. /\ out' \in OutboundTransfer
      /\ \/ /\ out'.chunks_sent = out.chunks_sent /\ out'.to = out.to
            /\ out'.state \in {out.state, "cancelled"}
         \/ out'.chunks_sent = 0 /\ out'.state = "dropped"
      /\ out.state = "none" => Tick /\ out'.state = "none"
  <2>1. CASE CancelOutbound
    BY <1>3, <2>1 DEF CancelOutbound, OutboundTransfer, StateOrNone, TransferState
  <2>2. CASE GcOutbound
    <3>1. Stamped(out) \in OutboundTransfer /\ Stamped(out).chunks_sent = out.chunks_sent
          /\ Stamped(out).to = out.to /\ Stamped(out).state = out.state /\ Stamped(out).age \in Nat
      BY <1>3 DEF Stamped, OutboundTransfer
    <3>2. CASE Kept(Stamped(out))
      BY <2>2, <3>1, <3>2 DEF GcOutbound, has_outbound, TransferState
    <3>3. CASE ~ Kept(Stamped(out))
      <4>1. out' = [NoOutbound EXCEPT !.state = "dropped", !.age = Stamped(out).age]
        BY <2>2, <3>3 DEF GcOutbound
      <4>2. out' \in OutboundTransfer
        BY <3>1, <4>1, FreshOutbound DEF StateOrNone
      <4> QED
        BY <2>2, <4>1, <4>2 DEF NoOutbound, GcOutbound, has_outbound, TransferState
    <3> QED
      BY <3>2, <3>3
  <2>3. CASE Tick
    <3>1. \A n \in Nat \cup {Never}, limit \in Nat : Older(n, limit) \in Nat \cup {Never}
      BY DEF Older, Smaller
    <3>2. \A n \in Nat, limit \in Nat : Older(n, limit) \in Nat
      BY DEF Older, Smaller, Never
    <3>3. out.age \in Nat /\ out.finished \in Nat \cup {Never} /\ out.stalled \in Nat \cup {Never}
      BY <1>3 DEF OutboundTransfer
    <3>4. /\ (IF has_outbound THEN Older(out.age, OFFER_TTL) ELSE out.age) \in Nat
          /\ Older(out.finished, TRANSFER_RETAIN) \in Nat \cup {Never}
          /\ Older(out.stalled, STALL_GIVE_UP) \in Nat \cup {Never}
      BY <3>1, <3>2, <3>3, Constants
    <3>5. out' = [out EXCEPT !.age = IF has_outbound THEN Older(@, OFFER_TTL) ELSE @,
                             !.finished = Older(@, TRANSFER_RETAIN),
                             !.stalled = Older(@, STALL_GIVE_UP)]
      BY <2>3 DEF Tick
    <3> QED
      BY <1>3, <2>3, <3>4, <3>5 DEF OutboundTransfer
  <2> QED
    BY <2>1, <2>2, <2>3
<1>5. CASE out.state # "none"
  <2>1. Aimed' /\ Served' /\ Streamed' /\ Completed'
    BY <1>2, <1>4, StreamKept
  <2>2. out'.state # "none" /\ net' \subseteq Frame /\ net' \ net = {}
    BY <1>1, <1>2, <1>4, <1>5 DEF TypeOK
  <2> QED
    BY <1>2, <1>4, <2>1, <2>2, SenderStep
<1>6. CASE out.state = "none"
  <2>1. Aimed' /\ Served' /\ Streamed' /\ Completed'
    BY <1>2, <1>4, <1>6, StreamKept
  <2>2. TypeOK'
    BY <1>2, <1>4 DEF FileInv, TypeOK
  <2>3. Quiet' /\ Asked' /\ Confined' /\ Wanting'
    BY <1>2, <1>6 DEF FileInv, Quiet, Asked, Confined, Wanting, Whole
  <2> QED
    BY <2>1, <2>2, <2>3 DEF FileInv
<1> QED
  BY <1>5, <1>6

LEMMA DropStep ==
  ASSUME FileInv, NEW m \in net, Lose(m) \/ UnopenedChunk(m) \/ UnwrittenChunk(m)
  PROVE  FileInv'
<1>1. /\ TypeOK /\ Quiet /\ Asked /\ Confined /\ Aimed
      /\ Served /\ Streamed /\ Completed /\ Wanting
  BY DEF FileInv
<1>2. DropFrame(m)
  BY DEF Lose, UnopenedChunk, UnwrittenChunk
<1>3. /\ UNCHANGED <<mode, large, out, inb, part>> /\ net' \subseteq net
      /\ lost' \in 0 .. MaxLost /\ lost' # 0
  BY <1>1, <1>2, Constants DEF DropFrame, TypeOK
<1>4. TypeOK'
  BY <1>1, <1>3 DEF TypeOK
<1>5. Quiet' /\ Asked' /\ Confined' /\ Aimed' /\ Served' /\ Wanting'
  BY <1>1, <1>3 DEF Quiet, Asked, Confined, Aimed, Served, Wanting, Target, Whole
<1>6. Streamed' /\ Completed'
  BY <1>3 DEF Streamed, Completed
<1> QED
  BY <1>4, <1>5, <1>6 DEF FileInv

-----------------------------------------------------------------------------
(* The steps of a receiver.                                                *)

\* A record x that may follow the record a.
Advances(a, x) ==
  /\ x \in InboundTransfer
  /\ a.state # "none" => x.state # "none"
  /\ a.state \in Answered => x.state \in Answered
  /\ a.state \in Over => x.state \in Over
  /\ x.state = "pending" => ~ x.complete_requested
  /\ x.state = "transferring" =>
       /\ a.state \in {"pending", "transferring"}
       /\ \A i \in Chunk : a.got[i] # Gone => x.got[i] # Gone
       /\ a.complete_requested => x.complete_requested
       /\ x.complete_requested => ~ Whole(x)

\* What peer p sends in a step that leaves it with the record x.
SendsOnly(p, x) ==
  /\ net' \subseteq Frame
  /\ \A m \in net' \ net :
       /\ m.peer = p
       /\ m.type \in {"Reject", "Error", "Accept", "Request", "Ack"}
       /\ m.type = "Accept" => mode = "direct" /\ x.state \in Answered
       /\ m.type = "Request" => mode = "room" /\ x.state \in Answered
       /\ m.type = "Ack" => mode = "direct" /\ x.state \in Over

\* What it has done with the frame that it handled, if any.
Handles(p, x) ==
  /\ \A m \in net' : m.type = "Offer" /\ m.peer = p => x.state = "none"
  /\ \A m \in net \ net' :
       /\ m.peer = p \/ m.type \notin {"Chunk", "Complete"}
       /\ x.state = "transferring" /\ m.type = "Chunk" => x.got[m.index] # Gone
       /\ x.state = "transferring" /\ m.type = "Complete" => x.complete_requested

LEMMA ReceiverStep ==
  ASSUME FileInv, UNCHANGED <<mode, large, out, lost>>,
         part' \in [Peer -> BOOLEAN],
         NEW p \in Peer, NEW x, inb' = [inb EXCEPT ![p] = x],
         out.state # "none", mode = "direct" => p = Friend,
         Advances(inb[p], x), SendsOnly(p, x), Handles(p, x)
  PROVE  FileInv'
<1> USE DEF Advances, SendsOnly, Handles
<1>1. /\ TypeOK /\ Quiet /\ Asked /\ Confined /\ Aimed
      /\ Served /\ Streamed /\ Completed /\ Wanting
  BY DEF FileInv
<1>2. TypeOK'
  BY <1>1 DEF TypeOK
<1>3. inb'[p] = x /\ \A q \in Peer : q # p => inb'[q] = inb[q]
  BY <1>1 DEF TypeOK
<1>4. Quiet' /\ Aimed'
  BY <1>1 DEF Quiet, Aimed
<1>5. Asked'
  <2> SUFFICES ASSUME NEW m \in net'
               PROVE  /\ m.type = "Offer" => inb'[m.peer].state = "none"
                      /\ m.type = "Accept" => mode = "direct" /\ inb'[m.peer].state \in Answered
                      /\ m.type = "Request" => mode = "room" /\ inb'[m.peer].state \in Answered
                      /\ m.type = "Ack" => mode = "direct" /\ inb'[m.peer].state \in Over
    BY DEF Asked
  <2>1. m.peer \in Peer
    BY FrameFields
  <2>2. CASE m \in net
    BY <1>1, <1>3, <2>1, <2>2 DEF Asked
  <2>3. CASE m \notin net
    BY <1>3, <2>1, <2>3
  <2> QED
    BY <2>2, <2>3
<1>6. Confined'
  BY <1>1, <1>3 DEF Confined
<1>7. Target' = Target /\ Target \subseteq Peer
  BY <1>1, Constants DEF Target, TypeOK, OutboundTransfer
<1>8. Served'
  BY <1>1, <1>3, <1>7 DEF Served
<1>9. out.chunks_sent \in 0 .. Total /\ Total \in Nat
  BY <1>1, Constants DEF TypeOK, OutboundTransfer
<1>10. Streamed'
  <2> SUFFICES ASSUME lost = 0, NEW q \in Target, inb'[q].state = "transferring",
                      NEW i \in 0 .. out.chunks_sent - 1, inb'[q].got[i] = Gone
               PROVE  \E m \in net' : m.type = "Chunk" /\ m.peer = q /\ m.index = i
    BY <1>7 DEF Streamed
  <2>1. i \in Chunk /\ q \in Peer
    BY <1>7, <1>9 DEF Chunk
  <2>2. inb[q].got[i] = Gone
    BY <1>3, <2>1
  <2>3. inb[q].state = "transferring"
    <3>1. CASE q # p
      BY <1>3, <2>1, <3>1
    <3>2. CASE q = p
      <4>1. inb[p].state \in {"pending", "transferring"}
        BY <1>3, <3>2
      <4>2. inb[p].state \in Answered
        BY <1>1, <1>9, <3>2 DEF Served
      <4> QED
        BY <3>2, <4>1, <4>2 DEF Answered
    <3> QED
      BY <3>1, <3>2
  <2>4. PICK m \in net : m.type = "Chunk" /\ m.peer = q /\ m.index = i
    BY <1>1, <2>2, <2>3 DEF Streamed
  <2>5. m \in net'
    BY <1>3, <2>1, <2>4
  <2> QED
    BY <2>4, <2>5
<1>11. Completed'
  <2> SUFFICES ASSUME lost = 0, out.state = "complete", NEW q \in Target,
                      inb'[q].state = "transferring"
               PROVE  /\ out.chunks_sent = Total
                      /\ \/ inb'[q].complete_requested
                         \/ \E m \in net' : m.type = "Complete" /\ m.peer = q
    BY <1>7 DEF Completed
  <2>1. q \in Peer /\ inb[q].state \in Answered
    BY <1>1, <1>7 DEF Served
  <2>2. inb[q].state = "transferring" /\ (inb[q].complete_requested => inb'[q].complete_requested)
    BY <1>3, <2>1 DEF Answered
  <2>3. /\ out.chunks_sent = Total
        /\ inb[q].complete_requested \/ \E m \in net : m.type = "Complete" /\ m.peer = q
    BY <1>1, <2>2 DEF Completed
  <2>4. CASE inb[q].complete_requested
    BY <2>2, <2>3, <2>4
  <2>5. CASE \E m \in net : m.type = "Complete" /\ m.peer = q
    <3>1. PICK m \in net : m.type = "Complete" /\ m.peer = q
      BY <2>5
    <3>2. CASE m \in net'
      BY <2>3, <3>1, <3>2
    <3>3. CASE m \notin net'
      BY <1>3, <2>1, <2>3, <3>1, <3>3
    <3> QED
      BY <3>2, <3>3
  <2> QED
    BY <2>3, <2>4, <2>5
<1>12. Wanting'
  BY <1>1, <1>3 DEF Wanting, Whole
<1> QED
  BY <1>2, <1>4, <1>5, <1>6, <1>8, <1>10, <1>11, <1>12 DEF FileInv

\* A peer with a record, or with a frame on its way, takes part in the transfer.
LEMMA Involved ==
  ASSUME FileInv, NEW p \in Peer, inb[p].state # "none" \/ \E m \in net : m.peer = p
  PROVE  /\ out.state # "none"
         /\ mode = "direct" => p = Friend
         /\ mode \in {"direct", "room"}
         /\ inb[p] \in InboundTransfer
         /\ inb[p].state \in StateOrNone
<1>1. TypeOK /\ Quiet /\ Confined
  BY DEF FileInv
<1>2. inb[p] \in InboundTransfer /\ inb[p].state \in StateOrNone /\ mode \in {"direct", "room"}
  BY <1>1 DEF TypeOK, InboundTransfer
<1> QED
  BY <1>1, <1>2 DEF Quiet, Confined

LEMMA Replies ==
  ASSUME NEW p \in Peer, NEW type \in {"Reject", "Error", "Ack"}
  PROVE  /\ Reply(type, p) \subseteq Frame
         /\ \A m \in Reply(type, p) : mode = "direct" /\ m.peer = p /\ m.type = type
<1>1. Control(type, {p}) \subseteq Frame /\ \A m \in Control(type, {p}) : m.type = type /\ m.peer \in {p}
  BY ControlFrames
<1> QED
  BY <1>1 DEF Reply

\* A frame that changes nothing but is perhaps answered.
LEMMA IgnoredStep ==
  ASSUME FileInv, NEW m \in net, NEW frames, Receive(m.peer, inb[m.peer], frames, {m}),
         frames = {} \/ frames = Reply("Reject", m.peer),
         UNCHANGED part,
         m.type \in {"Chunk", "Complete"} => inb[m.peer].state # "transferring" \/
           (m.type = "Chunk" /\ inb[m.peer].got[m.index] # Gone)
  PROVE  FileInv'
<1> DEFINE p == m.peer  x == inb[p]
<1>1. TypeOK /\ Asked /\ Wanting
  BY DEF FileInv
<1>2. p \in Peer /\ m \in Frame
  BY <1>1, FrameFields DEF TypeOK
<1>3. /\ out.state # "none" /\ (mode = "direct" => p = Friend) /\ x \in InboundTransfer
  BY <1>2, Involved
<1>4. /\ inb' = [inb EXCEPT ![p] = x] /\ net' = (net \ {m}) \cup frames
      /\ UNCHANGED <<mode, large, out, lost>>
  BY DEF Receive
<1>5. part' \in [Peer -> BOOLEAN]
  BY <1>1 DEF TypeOK
<1>6. frames \subseteq Frame /\ \A f \in frames : f.peer = p /\ f.type = "Reject"
  BY <1>2, Replies
<1>7. net' \subseteq Frame /\ \A f \in net' \ net : f.peer = p /\ f.type = "Reject"
  BY <1>1, <1>4, <1>6 DEF TypeOK
<1>8. SendsOnly(p, x)
  BY <1>7 DEF SendsOnly
<1>9. Handles(p, x)
  BY <1>1, <1>4, <1>7 DEF Handles, Asked
<1>10. Advances(inb[p], x)
  BY <1>1, <1>2, <1>3 DEF Wanting, Advances, Answered
<1> HIDE DEF p, x
<1> QED
  BY <1>2, <1>3, <1>4, <1>5, <1>8, <1>9, <1>10, ReceiverStep

LEMMA FileOfferStep ==
  ASSUME FileInv, NEW m \in net, NEW storage \in BOOLEAN, FileOffer(m.peer, m, storage)
  PROVE  FileInv'
<1> DEFINE p == m.peer  x == [NoInbound EXCEPT !.state = "pending"]
<1>1. TypeOK /\ Asked
  BY DEF FileInv
<1>2. p \in Peer /\ m \in Frame /\ m.type = "Offer"
  BY <1>1, FrameFields DEF TypeOK, FileOffer
<1>3. CASE ~ storage
  <2>1. Receive(p, inb[p], Reply("Reject", p), {m}) /\ UNCHANGED part
    BY <1>3 DEF FileOffer
  <2> QED
    BY <1>2, <2>1, IgnoredStep
<1>4. CASE storage
  <2>1. /\ inb' = [inb EXCEPT ![p] = x] /\ net' = net \ {m}
        /\ UNCHANGED <<mode, large, out, lost>>
        /\ part' = [part EXCEPT ![p] = large]
    BY <1>4 DEF FileOffer, Receive
  <2>2. inb[p].state = "none"
    BY <1>1, <1>2 DEF Asked
  <2>3. x \in InboundTransfer /\ x.state = "pending" /\ ~ x.complete_requested
    BY FreshInbound DEF NoInbound, StateOrNone, TransferState
  <2>4. part' \in [Peer -> BOOLEAN]
    BY <1>1, <2>1 DEF TypeOK
  <2>5. \A f \in net' : f.type = "Offer" => f.peer # p
    <3>1. ASSUME NEW f \in net, f.type = "Offer", f.peer = p PROVE f = m
      <4>1. \A g \in Frame : g.type = "Offer" => g = [type |-> "Offer", peer |-> g.peer]
        BY DEF Frame
      <4>2. f \in Frame
        BY <1>1 DEF TypeOK
      <4> QED
        BY <1>2, <3>1, <4>1, <4>2
    <3> QED
      BY <2>1, <3>1
  <2> HIDE DEF x
  <2>6. Advances(inb[p], x)
    BY <2>2, <2>3 DEF Advances, Answered, Over
  <2>7. SendsOnly(p, x)
    BY <1>1, <2>1 DEF SendsOnly, TypeOK
  <2>8. Handles(p, x)
    BY <1>2, <2>1, <2>3, <2>5 DEF Handles
  <2>9. out.state # "none" /\ (mode = "direct" => p = Friend)
    BY <1>2, Involved
  <2> HIDE DEF p
  <2> QED
    BY <1>2, <2>1, <2>4, <2>6, <2>7, <2>8, <2>9, ReceiverStep
<1> QED
  BY <1>3, <1>4

\* An answer of the user to an offer, and the frame that tells the sender of it.
LEMMA AnswersWith ==
  ASSUME FileInv, NEW p \in Peer, has_inbound(p), UNCHANGED part,
         NEW x, NEW type \in {"Accept", "Request", "Reject", "Error"},
         Receive(p, x, Control(type, {p}), {}),
         type = "Accept" => mode = "direct" /\ x.state # "pending",
         type = "Request" => mode = "room" /\ x.state # "pending",
         \/ x = inb[p]
         \/ inb[p].state = "pending" /\ x = [inb[p] EXCEPT !.state = "transferring"]
         \/ \E s \in {"rejected", "cancelled"} : x = [inb[p] EXCEPT !.state = s]
  PROVE  FileInv'
<1>1. TypeOK /\ Asked /\ Wanting
  BY DEF FileInv
<1>2. inb[p].state \in TransferState
  BY DEF has_inbound
<1>3. /\ out.state # "none" /\ (mode = "direct" => p = Friend)
      /\ inb[p] \in InboundTransfer /\ mode \in {"direct", "room"}
  BY <1>2, Involved DEF TransferState
<1>5. /\ inb' = [inb EXCEPT ![p] = x] /\ net' = net \cup Control(type, {p})
      /\ UNCHANGED <<mode, large, out, lost>>
  BY DEF Receive
<1>6. /\ x \in InboundTransfer /\ x.state \in TransferState
      /\ x.got = inb[p].got /\ x.complete_requested = inb[p].complete_requested
  BY <1>2, <1>3 DEF InboundTransfer, StateOrNone, TransferState
<1>7. part' \in [Peer -> BOOLEAN]
  BY <1>1 DEF TypeOK
<1>8. Advances(inb[p], x)
  <2>1. /\ x.state = "transferring" => inb[p].state \in {"pending", "transferring"}
        /\ x.state = "pending" => inb[p].state = "pending"
        /\ inb[p].state \in Over => x.state \in Over
        /\ inb[p].state \in Answered => x.state \in Answered
    BY <1>3 DEF InboundTransfer, Answered, Over, StateOrNone, TransferState
  <2>2. x.state = "pending" => ~ x.complete_requested
    BY <1>1, <1>6, <2>1 DEF Wanting
  <2>3. x.state = "transferring" /\ x.complete_requested => ~ Whole(x)
    BY <1>1, <1>6, <2>1 DEF Wanting, Whole
  <2> QED
    BY <1>6, <2>1, <2>2, <2>3 DEF Advances, TransferState
<1>9. /\ Control(type, {p}) \subseteq Frame
      /\ \A f \in Control(type, {p}) : f.type = type /\ f.peer = p
  BY ControlFrames
<1>10. SendsOnly(p, x)
  <2>1. x.state # "pending" => x.state \in Answered
    BY <1>6 DEF Answered, StateOrNone, TransferState
  <2> QED
    BY <1>1, <1>5, <1>9, <2>1 DEF SendsOnly, TypeOK
<1>11. Handles(p, x)
  BY <1>1, <1>2, <1>5, <1>9 DEF Handles, Asked, TransferState
<1> QED
  BY <1>3, <1>5, <1>7, <1>8, <1>10, <1>11, ReceiverStep

LEMMA AnswerStep ==
  ASSUME FileInv, NEW p \in Peer, AcceptFile(p) \/ RejectFile(p) \/ CancelInbound(p)
  PROVE  FileInv'
<1>1. has_inbound(p) /\ UNCHANGED part
  BY DEF AcceptFile, RejectFile, CancelInbound, has_inbound, TransferState
<1>2. inb[p] \in InboundTransfer /\ mode \in {"direct", "room"}
  BY <1>1, Involved DEF has_inbound, TransferState
<1>3. CASE AcceptFile(p)
  <2> DEFINE x == IF inb[p].state = "pending"
                  THEN [inb[p] EXCEPT !.state = "transferring"] ELSE inb[p]
             type == IF mode = "direct" THEN "Accept" ELSE "Request"
  <2>1. Receive(p, x, Control(type, {p}), {})
    BY <1>3 DEF AcceptFile
  <2>2. x.state # "pending"
    BY <1>2 DEF InboundTransfer
  <2>3. x = inb[p] \/ (inb[p].state = "pending" /\ x = [inb[p] EXCEPT !.state = "transferring"])
    OBVIOUS
  <2>4. /\ type \in {"Accept", "Request", "Reject", "Error"}
        /\ type = "Accept" => mode = "direct"
        /\ type = "Request" => mode = "room"
    BY <1>2
  <2> HIDE DEF x, type
  <2> QED
    BY <1>1, <2>1, <2>2, <2>3, <2>4, AnswersWith
<1>4. CASE RejectFile(p)
  <2>1. Receive(p, [inb[p] EXCEPT !.state = "rejected"], Control("Reject", {p}), {})
    BY <1>4 DEF RejectFile
  <2> QED
    BY <1>1, <2>1, AnswersWith
<1>5. CASE CancelInbound(p)
  <2>1. \/ Receive(p, [inb[p] EXCEPT !.state = "rejected"], Control("Reject", {p}), {})
        \/ Receive(p, [inb[p] EXCEPT !.state = "cancelled"], Control("Error", {p}), {})
    BY <1>5 DEF CancelInbound
  <2> QED
    BY <1>1, <2>1, AnswersWith
<1> QED
  BY <1>3, <1>4, <1>5

\* A step after which the transfer is over at p.
LEMMA EndStep ==
  ASSUME FileInv, NEW p \in Peer, NEW x \in InboundTransfer, x.state \in Over,
         inb[p].state # "none", inb' = [inb EXCEPT ![p] = x],
         \E b \in BOOLEAN : part' = [part EXCEPT ![p] = @ /\ b],
         UNCHANGED <<mode, large, out, lost>>,
         NEW frames, frames \subseteq Frame,
         \A m \in frames : mode = "direct" /\ m.peer = p /\ m.type \in {"Ack", "Error"},
         NEW handled, \A m \in net \cap handled : m.peer = p,
         net' = (net \ handled) \cup frames
  PROVE  FileInv'
<1>1. TypeOK /\ Asked
  BY DEF FileInv
<1>2. out.state # "none" /\ (mode = "direct" => p = Friend)
  BY Involved
<1>3. part' \in [Peer -> BOOLEAN]
  BY <1>1 DEF TypeOK
<1>4. Advances(inb[p], x)
  BY DEF Advances, Over, Answered
<1>5. SendsOnly(p, x)
  BY <1>1 DEF SendsOnly, TypeOK, Over, Answered
<1>6. Handles(p, x)
  BY <1>1 DEF Handles, Asked, Over, Answered
<1> QED
  BY <1>2, <1>3, <1>4, <1>5, <1>6, ReceiverStep

LEMMA DiscardStep ==
  ASSUME FileInv, NEW p \in Peer, NEW handled, \A m \in net \cap handled : m.peer = p,
         has_inbound(p), DiscardInbound(p, handled)
  PROVE  FileInv'
<1> DEFINE x == [NoInbound EXCEPT !.state = "revoked"]
<1>1. x \in InboundTransfer /\ x.state \in Over
  BY FreshInbound DEF NoInbound, Over, Answered, StateOrNone
<1>2. /\ inb' = [inb EXCEPT ![p] = x] /\ net' = (net \ handled) \cup {}
      /\ UNCHANGED <<mode, large, out, lost>>
      /\ \E b \in BOOLEAN : part' = [part EXCEPT ![p] = @ /\ b]
  BY DEF DiscardInbound, Receive, RemovePart
<1>3. inb[p].state # "none"
  BY DEF has_inbound, TransferState
<1> HIDE DEF x
<1> QED
  BY <1>1, <1>2, <1>3, EndStep

LEMMA ForgetStep ==
  ASSUME FileInv, NEW p \in Peer, GcInbound(p) \/ ExitReceiver(p)
  PROVE  FileInv'
<1>1. PICK s \in {"dropped", "exited"} : Receive(p, [NoInbound EXCEPT !.state = s], {}, {})
  BY DEF GcInbound, ExitReceiver
<1> DEFINE x == [NoInbound EXCEPT !.state = s]
<1>2. x \in InboundTransfer /\ x.state \in Over
  BY FreshInbound DEF NoInbound, Over, Answered, StateOrNone
<1>3. /\ inb' = [inb EXCEPT ![p] = x] /\ net' = (net \ {}) \cup {}
      /\ UNCHANGED <<mode, large, out, lost>>
  BY <1>1 DEF Receive
<1>4. \E b \in BOOLEAN : part' = [part EXCEPT ![p] = @ /\ b]
  <2>1. part \in [Peer -> BOOLEAN]
    BY DEF FileInv, TypeOK
  <2>2. CASE part' = part
    <3>1. part' = [part EXCEPT ![p] = @ /\ TRUE]
      BY <2>1, <2>2
    <3> QED
      BY <3>1
  <2>3. CASE RemovePart(p)
    BY <2>3 DEF RemovePart
  <2> QED
    BY <2>2, <2>3 DEF GcInbound, ExitReceiver
<1>5. inb[p].state # "none"
  BY DEF GcInbound, ExitReceiver, has_inbound, TransferState
<1> HIDE DEF x
<1>6. ASSUME NEW frames, frames = {}, NEW handled, handled = {} PROVE FileInv'
  <2>1. /\ frames \subseteq Frame /\ net' = (net \ handled) \cup frames
        /\ \A m \in frames : mode = "direct" /\ m.peer = p /\ m.type \in {"Ack", "Error"}
        /\ \A m \in net \cap handled : m.peer = p
    BY <1>3, <1>6
  <2> QED
    BY <1>2, <1>3, <1>4, <1>5, <2>1, EndStep
<1> QED
  BY <1>6

LEMMA FinishStep ==
  ASSUME FileInv, NEW p \in Peer, NEW y \in InboundTransfer, NEW storage,
         NEW m \in net, m.peer = p, inb[p].state # "none", FinishInbound(p, y, storage, {m})
  PROVE  FileInv'
<1>1. \A s \in {"complete", "failed"} :
        [y EXCEPT !.state = s] \in InboundTransfer /\ [y EXCEPT !.state = s].state \in Over
  BY DEF InboundTransfer, Over, Answered, StateOrNone, TransferState
<1>2. /\ Reply("Ack", p) \subseteq Frame /\ Reply("Error", p) \subseteq Frame
      /\ \A f \in Reply("Ack", p) : mode = "direct" /\ f.peer = p /\ f.type = "Ack"
      /\ \A f \in Reply("Error", p) : mode = "direct" /\ f.peer = p /\ f.type = "Error"
  BY Replies
<1>3. CASE storage /\ \A i \in Chunk : y.got[i] = Offered
  <2> DEFINE x == [y EXCEPT !.state = "complete"]
             reply == Reply("Ack", p)
  <2>1. x \in InboundTransfer /\ x.state \in Over
    BY <1>1
  <2>2. /\ inb' = [inb EXCEPT ![p] = x] /\ net' = (net \ {m}) \cup reply
        /\ UNCHANGED <<mode, large, out, lost>>
        /\ part' = [part EXCEPT ![p] = @ /\ FALSE]
    BY <1>3 DEF FinishInbound, Receive
  <2>3. /\ reply \subseteq Frame
        /\ \A f \in reply : mode = "direct" /\ f.peer = p /\ f.type \in {"Ack", "Error"}
        /\ \A f \in net \cap {m} : f.peer = p
    BY <1>2
  <2> HIDE DEF x, reply
  <2> QED
    BY <2>1, <2>2, <2>3, EndStep
<1>4. CASE ~ (storage /\ \A i \in Chunk : y.got[i] = Offered)
  <2> DEFINE x == [y EXCEPT !.state = "failed"]  reply == Reply("Error", p)
  <2>1. x \in InboundTransfer /\ x.state \in Over
    BY <1>1
  <2>2. /\ inb' = [inb EXCEPT ![p] = x] /\ net' = (net \ {m}) \cup reply
        /\ UNCHANGED <<mode, large, out, lost>>
        /\ \E b \in BOOLEAN : part' = [part EXCEPT ![p] = @ /\ b]
    BY <1>4 DEF FinishInbound, Receive, RemovePart
  <2>3. /\ reply \subseteq Frame
        /\ \A f \in reply : mode = "direct" /\ f.peer = p /\ f.type \in {"Ack", "Error"}
        /\ \A f \in net \cap {m} : f.peer = p
    BY <1>2
  <2> HIDE DEF x, reply
  <2> QED
    BY <2>1, <2>2, <2>3, EndStep
<1> QED
  BY <1>3, <1>4

\* A chunk is stored, or COMPLETE noted, and the receiver waits for more.
LEMMA ProgressStep ==
  ASSUME FileInv, NEW m \in net, NEW x \in InboundTransfer,
         inb[m.peer].state = "transferring", x.state = "transferring",
         Receive(m.peer, x, {}, {m}), UNCHANGED part,
         \A i \in Chunk : inb[m.peer].got[i] # Gone => x.got[i] # Gone,
         inb[m.peer].complete_requested => x.complete_requested,
         x.complete_requested => ~ Whole(x),
         m.type = "Chunk" => x.got[m.index] # Gone,
         m.type = "Complete" => x.complete_requested
  PROVE  FileInv'
<1> DEFINE p == m.peer
<1>1. TypeOK /\ Asked
  BY DEF FileInv
<1>2. p \in Peer
  BY <1>1, FrameFields DEF TypeOK
<1>3. out.state # "none" /\ (mode = "direct" => p = Friend)
  BY <1>2, Involved
<1>4. /\ inb' = [inb EXCEPT ![p] = x] /\ net' = net \ {m}
      /\ UNCHANGED <<mode, large, out, lost>>
  BY DEF Receive
<1>5. part' \in [Peer -> BOOLEAN]
  BY <1>1 DEF TypeOK
<1>6. Advances(inb[p], x)
  BY DEF Advances, Over, Answered, StateOrNone, TransferState
<1>7. SendsOnly(p, x)
  BY <1>1, <1>4 DEF SendsOnly, TypeOK
<1>8. Handles(p, x)
  BY <1>1, <1>4 DEF Handles, Asked
<1> HIDE DEF p
<1> QED
  BY <1>2, <1>3, <1>4, <1>5, <1>6, <1>7, <1>8, ReceiverStep

LEMMA FileChunkStep ==
  ASSUME FileInv, NEW m \in net, NEW storage \in BOOLEAN, FileChunk(m.peer, m, storage)
  PROVE  FileInv'
<1> DEFINE p == m.peer
           stored == inb[p].state = "transferring" /\ inb[p].got[m.index] = Gone
           y == [inb[p] EXCEPT !.got[m.index] = m.version]
<1>1. TypeOK /\ m \in Frame
  BY DEF FileInv, TypeOK
<1>2. p \in Peer /\ m.type = "Chunk" /\ m.index \in Chunk /\ m.version \in Version
  BY <1>1, FrameFields DEF FileChunk
<1>3. inb[p] \in InboundTransfer
  BY <1>1, <1>2 DEF TypeOK
<1>4. CASE ~ stored
  <2>1. Receive(p, inb[p], {}, {m}) /\ UNCHANGED part
    BY <1>4 DEF FileChunk
  <2> QED
    BY <1>2, <1>4, <2>1, IgnoredStep
<1>5. CASE stored
  <2>1. /\ y \in InboundTransfer /\ y.state = "transferring"
        /\ y.complete_requested = inb[p].complete_requested
        /\ y.got[m.index] = m.version /\ m.version # Gone
        /\ \A i \in Chunk : inb[p].got[i] # Gone => y.got[i] # Gone
    BY <1>2, <1>3, <1>5 DEF InboundTransfer, Version, Gone
  <2>2. CASE y.complete_requested /\ Whole(y)
    <3>1. FinishInbound(p, y, storage, {m}) /\ inb[p].state # "none"
      BY <1>5, <2>2 DEF FileChunk
    <3> HIDE DEF y
    <3> QED
      BY <1>2, <2>1, <3>1, FinishStep
  <2>3. CASE ~ (y.complete_requested /\ Whole(y))
    <3>1. Receive(p, y, {}, {m}) /\ UNCHANGED part
      BY <1>5, <2>3 DEF FileChunk
    <3> HIDE DEF y
    <3> QED
      BY <1>2, <1>5, <2>1, <2>3, <3>1, ProgressStep
  <2> QED
    BY <2>2, <2>3
<1> QED
  BY <1>4, <1>5

LEMMA FileCompleteStep ==
  ASSUME FileInv, NEW m \in net, NEW storage \in BOOLEAN, FileComplete(m.peer, m, storage)
  PROVE  FileInv'
<1> DEFINE p == m.peer
           y == [inb[p] EXCEPT !.complete_requested = TRUE]
<1>1. TypeOK /\ m \in Frame
  BY DEF FileInv, TypeOK
<1>2. p \in Peer /\ m.type = "Complete"
  BY <1>1, FrameFields DEF FileComplete
<1>3. inb[p] \in InboundTransfer
  BY <1>1, <1>2 DEF TypeOK
<1>4. CASE inb[p].state # "transferring"
  <2>1. Receive(p, inb[p], {}, {m}) /\ UNCHANGED part
    BY <1>4 DEF FileComplete
  <2> QED
    BY <1>2, <1>4, <2>1, IgnoredStep
<1>5. CASE inb[p].state = "transferring" /\ Whole(inb[p])
  <2>1. FinishInbound(p, inb[p], storage, {m})
    BY <1>5 DEF FileComplete
  <2> QED
    BY <1>2, <1>3, <1>5, <2>1, FinishStep
<1>6. CASE inb[p].state = "transferring" /\ ~ Whole(inb[p])
  <2>1. /\ y \in InboundTransfer /\ y.state = "transferring"
        /\ y.complete_requested /\ y.got = inb[p].got /\ ~ Whole(y)
    BY <1>3, <1>6 DEF InboundTransfer, Whole
  <2>2. Receive(p, y, {}, {m}) /\ UNCHANGED part
    BY <1>6 DEF FileComplete
  <2> HIDE DEF y
  <2> QED
    BY <1>2, <1>6, <2>1, <2>2, ProgressStep
<1> QED
  BY <1>4, <1>5, <1>6

LEMMA NoticeStep ==
  ASSUME FileInv, NEW m \in net, SfuFileRevoke(m.peer, m) \/ ReceiverTold(m.peer, m)
  PROVE  FileInv'
<1>1. m.peer \in Peer /\ m.type \in {"Revoke", "Refusal"}
  BY FrameFields DEF FileInv, TypeOK, SfuFileRevoke, ReceiverTold
<1>2. CASE SfuFileRevoke(m.peer, m) /\ has_inbound(m.peer)
  <2>1. DiscardInbound(m.peer, {m}) /\ \A f \in net \cap {m} : f.peer = m.peer
    BY <1>2 DEF SfuFileRevoke
  <2> QED
    BY <1>1, <1>2, <2>1, DiscardStep
<1>3. CASE ~ (SfuFileRevoke(m.peer, m) /\ has_inbound(m.peer))
  <2>1. Receive(m.peer, inb[m.peer], {}, {m}) /\ UNCHANGED part
    BY <1>3 DEF SfuFileRevoke, ReceiverTold
  <2> QED
    BY <1>1, <2>1, IgnoredStep
<1> QED
  BY <1>2, <1>3

-----------------------------------------------------------------------------
(* The theorems.                                                           *)

LEMMA FileNext == FileInv /\ [Next]_vars => FileInv'
<1> SUFFICES ASSUME FileInv, [Next]_vars PROVE FileInv'
  OBVIOUS
<1>1. CASE SendFile \/ PumpStream \/ RevokeFile \/ CancelOutbound \/ GcOutbound \/ ExitSender \/ Tick
  BY <1>1, OfferStep, PumpStep, RevokeStep, ExitStep, OutboundStep
<1>2. ASSUME NEW m \in net,
             \/ FileTransferAccept(m) \/ SenderTold(m) \/ SfuFileRequest(m)
             \/ Lose(m) \/ UnopenedChunk(m) \/ UnwrittenChunk(m)
      PROVE  FileInv'
  BY <1>2, AcceptStep, ToldStep, RequestStep, DropStep
<1>3. ASSUME NEW m \in net, SfuFileRevoke(m.peer, m) \/ ReceiverTold(m.peer, m) PROVE FileInv'
  BY <1>3, NoticeStep
<1>4. ASSUME NEW m \in net, NEW storage \in BOOLEAN,
             \/ FileOffer(m.peer, m, storage)
             \/ FileChunk(m.peer, m, storage)
             \/ FileComplete(m.peer, m, storage)
      PROVE  FileInv'
  BY <1>4, FileOfferStep, FileChunkStep, FileCompleteStep
<1>5. ASSUME NEW p \in Peer, AcceptFile(p) \/ RejectFile(p) \/ CancelInbound(p) PROVE FileInv'
  BY <1>5, AnswerStep
<1>6. ASSUME NEW p \in Peer, DeclineRoomFile(p) PROVE FileInv'
  BY <1>6, DiscardStep DEF DeclineRoomFile
<1>7. ASSUME NEW p \in Peer, GcInbound(p) \/ ExitReceiver(p) PROVE FileInv'
  BY <1>7, ForgetStep
<1>8. CASE UNCHANGED vars
  <2>1. UNCHANGED <<mode, large, out, inb, part, net, lost>>
    BY <1>8 DEF vars
  <2>2. TypeOK'
    BY <2>1 DEF FileInv, TypeOK
  <2>3. Quiet' /\ Asked' /\ Confined' /\ Aimed' /\ Wanting'
    BY <2>1 DEF FileInv, Quiet, Asked, Confined, Aimed, Wanting, Whole
  <2>4. Served' /\ Streamed' /\ Completed'
    BY <2>1 DEF FileInv, Served, Streamed, Completed, Target
  <2> QED
    BY <2>2, <2>3, <2>4 DEF FileInv
<1> QED
  BY <1>1, <1>2, <1>3, <1>4, <1>5, <1>6, <1>7, <1>8 DEF Next

LEMMA FileInductive == Spec => []FileInv
BY FileInit, FileNext, PTL DEF Spec

\* A stream never counts more chunks than the file has, a frame on its way is of
\* a stream that has a peer, and a chunk that is sent was read.
THEOREM FileTypeCorrect == Spec => []TypeOK
<1>1. FileInv => TypeOK
  BY DEF FileInv
<1> QED
  BY <1>1, FileInductive, PTL

\* With no frame lost and no chunk dropped, however the turns were refused, cut short and repeated, a
\* stream that counts as complete has left its peer no chunk to wait for.
THEOREM StreamsLeaveNoHoles == Spec => []NoHoles
<1>1. FileInv => NoHoles
  <2> SUFFICES ASSUME FileInv, out.state = "complete", net = {}, lost = 0,
                      NEW p \in Target, inb[p].state = "transferring"
               PROVE  FALSE
    BY DEF NoHoles, Target
  <2>1. TypeOK /\ Streamed /\ Completed /\ Wanting
    BY DEF FileInv
  <2>2. p \in Peer
    BY <2>1, Constants DEF Target, TypeOK, OutboundTransfer
  <2>3. out.chunks_sent = Total /\ inb[p].complete_requested
    BY <2>1 DEF Completed
  <2>4. \A i \in 0 .. Total - 1 : inb[p].got[i] # Gone
    BY <2>1, <2>3 DEF Streamed
  <2>5. ~ Whole(inb[p])
    BY <2>1, <2>2, <2>3 DEF Wanting
  <2> QED
    BY <2>4, <2>5 DEF Whole, Chunk
<1> QED
  BY <1>1, FileInductive, PTL
=============================================================================
