--------------------------- MODULE PeerQueueProofs --------------------------
(***************************************************************************)
(* The accounting of the write queue and its implementation of BoundedPipe *)
(* for any number of tasks, any frames and any ceiling.                    *)
(***************************************************************************)
EXTENDS PeerQueue, FiniteSetTheorems, TLAPS

-----------------------------------------------------------------------------
(* Sizes.                                                                  *)

\* The bytes of one frame.
LEMMA FrameBytes ==
  ASSUME NEW x, NEW n \in Nat
  PROVE  IsFiniteSet({x} \X (1 .. n)) /\ Cardinality({x} \X (1 .. n)) = n
<1>1. IsFiniteSet({x}) /\ Cardinality({x}) = 1
  BY FS_Singleton
<1>2. IsFiniteSet(1 .. n) /\ Cardinality(1 .. n) = n
  BY FS_Interval
<1>3. /\ IsFiniteSet({x} \X (1 .. n))
      /\ Cardinality({x} \X (1 .. n)) = Cardinality({x}) * Cardinality(1 .. n)
  BY <1>1, <1>2, FS_Product
<1> QED
  BY <1>1, <1>2, <1>3

\* Finitely many frames have finitely many bytes.
LEMMA SizeType ==
  ASSUME NEW S, IsFiniteSet(S), NEW len, \A x \in S : len[x] \in Nat
  PROVE  IsFiniteSet(BytesAt(len, S)) /\ TotalLength(len, S) \in Nat
<1> DEFINE T == {{x} \X (1 .. len[x]) : x \in S}
           f == [x \in S |-> {x} \X (1 .. len[x])]
<1>1. f \in Surjection(S, T)
  BY DEF Surjection
<1>2. IsFiniteSet(T)
  <2> HIDE DEF f, T
  <2> QED
    BY <1>1, FS_Surjection
<1>3. ASSUME NEW U \in T PROVE IsFiniteSet(U)
  <2>1. PICK x \in S : U = {x} \X (1 .. len[x])
    OBVIOUS
  <2>2. len[x] \in Nat
    OBVIOUS
  <2> QED
    BY <2>1, <2>2, FrameBytes
<1>4. IsFiniteSet(UNION T)
  <2> HIDE DEF T
  <2> QED
    BY <1>2, <1>3, FS_UNION
<1> QED
  BY <1>4, FS_CardinalityType DEF BytesAt, TotalLength

\* No frames, no bytes.
LEMMA SizeEmpty == ASSUME NEW len PROVE TotalLength(len, {}) = 0
<1>1. BytesAt(len, {}) = {}
  BY DEF BytesAt
<1> QED
  BY <1>1, FS_EmptySet DEF TotalLength

\* One more frame adds its length.
LEMMA SizeAdd ==
  ASSUME NEW S, IsFiniteSet(S), NEW y, y \notin S, NEW len,
         \A x \in S \cup {y} : len[x] \in Nat
  PROVE  TotalLength(len, S \cup {y}) = TotalLength(len, S) + len[y]
<1> DEFINE A == BytesAt(len, S)  B == {y} \X (1 .. len[y])
<1>1. BytesAt(len, S \cup {y}) = A \cup B
  BY DEF BytesAt
<1>2. A \cap B = {}
  <2>1. ASSUME NEW b \in A, b \in B PROVE FALSE
    <3>1. PICK x \in S : b \in {x} \X (1 .. len[x])
      BY DEF BytesAt
    <3>2. b[1] = x /\ b[1] = y
      BY <2>1, <3>1
    <3> QED
      BY <3>2
  <2> QED
    BY <2>1
<1>3. IsFiniteSet(A) /\ Cardinality(A) \in Nat
  BY SizeType DEF TotalLength
<1>4. IsFiniteSet(B) /\ Cardinality(B) = len[y]
  BY FrameBytes
<1>5. Cardinality(A \cup B) = Cardinality(A) + Cardinality(B) - Cardinality(A \cap B)
  <2> HIDE DEF A, B
  <2> QED
    BY <1>3, <1>4, FS_Union
<1>6. Cardinality(A \cup B) = Cardinality(A) + len[y]
  <2> HIDE DEF A, B
  <2> QED
    BY <1>2, <1>3, <1>4, <1>5, FS_EmptySet
<1> QED
  BY <1>1, <1>6 DEF TotalLength

\* Only the lengths of the frames that are counted matter.
LEMMA SizeSame ==
  ASSUME NEW S, NEW f, NEW g, \A x \in S : f[x] = g[x]
  PROVE  TotalLength(f, S) = TotalLength(g, S)
<1>1. BytesAt(f, S) = BytesAt(g, S)
  BY DEF BytesAt
<1> QED
  BY <1>1 DEF TotalLength

\* Fewer frames are not longer.
LEMMA SizeMonotone ==
  ASSUME NEW S, IsFiniteSet(S), NEW T \in SUBSET S, NEW len, \A x \in S : len[x] \in Nat
  PROVE  TotalLength(len, T) <= TotalLength(len, S)
<1>1. BytesAt(len, T) \in SUBSET BytesAt(len, S)
  BY DEF BytesAt
<1>2. IsFiniteSet(BytesAt(len, S))
  BY SizeType
<1> QED
  BY <1>1, <1>2, FS_Subset DEF TotalLength

-----------------------------------------------------------------------------
(* The frames of a channel.                                                *)

LEMMA BytesType ==
  ASSUME NEW s \in Seq(Nat)
  PROVE  Bytes(s) \in Nat
<1>1. DOMAIN s = 1 .. Len(s) /\ Len(s) \in Nat /\ \A i \in 1 .. Len(s) : s[i] \in Nat
  OBVIOUS
<1>2. IsFiniteSet(1 .. Len(s))
  BY <1>1, FS_Interval
<1> QED
  BY <1>1, <1>2, SizeType DEF Bytes

LEMMA BytesEmpty == Bytes(<<>>) = 0
<1>1. DOMAIN <<>> = {}
  OBVIOUS
<1> QED
  BY <1>1, SizeEmpty DEF Bytes

LEMMA BytesAppend ==
  ASSUME NEW s \in Seq(Nat), NEW n \in Nat
  PROVE  Bytes(Append(s, n)) = Bytes(s) + n
<1> DEFINE D == 1 .. Len(s)  a == Append(s, n)  last == Len(s) + 1
<1>1. Len(s) \in Nat /\ DOMAIN s = D /\ \A i \in D : s[i] \in Nat
  OBVIOUS
<1>2. DOMAIN a = D \cup {last} /\ last \notin D
  BY <1>1
<1>3. a[last] = n /\ \A i \in D : a[i] = s[i]
  BY <1>1
<1>4. IsFiniteSet(D)
  BY <1>1, FS_Interval
<1>5. TotalLength(a, D \cup {last}) = TotalLength(a, D) + a[last]
  <2> HIDE DEF a, D, last
  <2> QED
    BY <1>1, <1>2, <1>3, <1>4, SizeAdd
<1>6. TotalLength(a, D) = TotalLength(s, D)
  <2> HIDE DEF a, D, last
  <2> QED
    BY <1>3, SizeSame
<1> QED
  BY <1>1, <1>2, <1>3, <1>5, <1>6 DEF Bytes

\* The bytes behind the head are those of the tail, one frame further on.
LEMMA BytesTail ==
  ASSUME NEW s \in Seq(Nat), s # <<>>
  PROVE  Bytes(s) = Bytes(Tail(s)) + Head(s)
<1> DEFINE t == Tail(s)
           S == 2 .. Len(s)
           A == BytesAt(t, DOMAIN t)
           B == BytesAt(s, S)
           shift == [b \in A |-> <<b[1] + 1, b[2]>>]
<1>1. Len(s) \in Nat \ {0} /\ DOMAIN s = 1 .. Len(s) /\ \A i \in 1 .. Len(s) : s[i] \in Nat
  OBVIOUS
<1>2. t \in Seq(Nat) /\ Len(t) = Len(s) - 1 /\ DOMAIN t = 1 .. Len(s) - 1
  OBVIOUS
<1>3. Head(s) = s[1] /\ \A i \in DOMAIN t : t[i] = s[i + 1]
  BY <1>1, <1>2
<1>4. \A b : b \in A <=> \E i \in 1 .. Len(s) - 1 : \E k \in 1 .. s[i + 1] : b = <<i, k>>
  <2>1. \A b : b \in A <=> \E i \in DOMAIN t : \E k \in 1 .. t[i] : b = <<i, k>>
    <3> HIDE DEF t
    <3> QED
      BY DEF BytesAt
  <2> HIDE DEF A, t
  <2> QED
    BY <1>2, <1>3, <2>1
<1>5. \A b : b \in B <=> \E i \in 2 .. Len(s) : \E k \in 1 .. s[i] : b = <<i, k>>
  BY DEF BytesAt
<1>6. shift \in Bijection(A, B)
  <2> HIDE DEF A, B, S, t
  <2>1. ASSUME NEW b \in A PROVE shift[b] \in B
    <3>0. PICK i \in 1 .. Len(s) - 1 : \E k \in 1 .. s[i + 1] : b = <<i, k>>
      BY <1>4
    <3>1. PICK k \in 1 .. s[i + 1] : b = <<i, k>>
      BY <3>0
    <3>2. i + 1 \in 2 .. Len(s) /\ shift[b] = <<i + 1, k>>
      BY <1>1, <3>1
    <3> QED
      BY <1>5, <3>2
  <2>2. ASSUME NEW b \in A, NEW c \in A, shift[b] = shift[c] PROVE b = c
    <3>0. PICK i \in 1 .. Len(s) - 1 : \E k \in 1 .. s[i + 1] : b = <<i, k>>
      BY <1>4
    <3>1. PICK k \in 1 .. s[i + 1] : b = <<i, k>>
      BY <3>0
    <3>a. PICK j \in 1 .. Len(s) - 1 : \E l \in 1 .. s[j + 1] : c = <<j, l>>
      BY <1>4
    <3>2. PICK l \in 1 .. s[j + 1] : c = <<j, l>>
      BY <3>a
    <3>3. i + 1 = j + 1 /\ k = l
      BY <2>2, <3>1, <3>2
    <3> QED
      BY <1>1, <3>1, <3>2, <3>3
  <2>3. ASSUME NEW c \in B PROVE \E b \in A : shift[b] = c
    <3>0. PICK i \in 2 .. Len(s) : \E k \in 1 .. s[i] : c = <<i, k>>
      BY <1>5
    <3>1. PICK k \in 1 .. s[i] : c = <<i, k>>
      BY <3>0
    <3>2. i - 1 \in 1 .. Len(s) - 1 /\ (i - 1) + 1 = i
      BY <1>1
    <3>3. <<i - 1, k>> \in A
      BY <1>4, <3>2
    <3>4. shift[<<i - 1, k>>] = <<(i - 1) + 1, k>>
      BY <3>3
    <3> QED
      BY <3>1, <3>2, <3>3, <3>4
  <2>4. shift \in [A -> B] /\ IsInjective(shift)
    BY <2>1, <2>2 DEF IsInjective
  <2> HIDE DEF shift
  <2> QED
    BY <2>3, <2>4 DEF Bijection, Injection, Surjection
<1>7. IsFiniteSet(A)
  <2>1. IsFiniteSet(1 .. Len(s) - 1)
    BY <1>1, FS_Interval
  <2>2. \A i \in DOMAIN t : t[i] \in Nat
    BY <1>2
  <2> HIDE DEF t
  <2> QED
    BY <1>2, <2>1, <2>2, SizeType
<1>8. Cardinality(B) = Cardinality(A)
  <2> HIDE DEF A, B, shift
  <2> QED
    BY <1>6, <1>7, FS_Bijection DEF ExistsBijection
<1>9. TotalLength(s, S \cup {1}) = TotalLength(s, S) + s[1]
  <2>1. IsFiniteSet(S) /\ 1 \notin S
    BY <1>1, FS_Interval
  <2>2. \A i \in S \cup {1} : s[i] \in Nat
    BY <1>1
  <2> QED
    BY <2>1, <2>2, SizeAdd
<1>10. DOMAIN s = S \cup {1}
  BY <1>1
<1> QED
  BY <1>3, <1>8, <1>9, <1>10 DEF Bytes, TotalLength

-----------------------------------------------------------------------------
(* Bytes the tasks have added to the counter.                              *)

Call == [pc : {"idle", "push", "rollback", "notify", "undo"}, len : Length \cup {0}]

\* Added of any function of calls, so that it applies before and after a step.
AddedBy(calls, steps) ==
  TotalLength([t \in Thread |-> calls[t].len], {t \in Thread : calls[t].pc \in steps})

Share(call, steps) == IF call.pc \in steps THEN call.len ELSE 0

AddedByOthers(calls, t, steps) ==
  TotalLength([u \in Thread |-> calls[u].len], {u \in Thread \ {t} : calls[u].pc \in steps})

\* One task's share can be told from the others'.
LEMMA AddedSplit ==
  ASSUME NEW calls \in [Thread -> Call], NEW t \in Thread, NEW steps
  PROVE  /\ AddedByOthers(calls, t, steps) \in Nat
         /\ Share(calls[t], steps) \in Nat
         /\ AddedBy(calls, steps) = AddedByOthers(calls, t, steps) + Share(calls[t], steps)
<1> DEFINE S == {u \in Thread : calls[u].pc \in steps}
           R == {u \in Thread \ {t} : calls[u].pc \in steps}
           f == [u \in Thread |-> calls[u].len]
<1>1. \A u \in Thread : f[u] \in Nat
  <2>1. ASSUME NEW u \in Thread PROVE calls[u].len \in Length \cup {0}
    BY DEF Call
  <2>2. Length \cup {0} \subseteq Nat
    BY QueueAssumption
  <2>3. ASSUME NEW u \in Thread PROVE calls[u].len \in Nat
    BY <2>1, <2>2
  <2> QED
    BY <2>3
<1>2. IsFiniteSet(R)
  <2>1. R \in SUBSET Thread
    OBVIOUS
  <2> QED
    BY <2>1, QueueAssumption, FS_Subset
<1>3. TotalLength(f, R) \in Nat
  <2>1. \A u \in R : f[u] \in Nat
    BY <1>1
  <2> HIDE DEF f, R
  <2> QED
    BY <1>2, <2>1, SizeType
<1>4. TotalLength(f, S) = TotalLength(f, R) + Share(calls[t], steps)
  <2>1. CASE t \in S
    <3>1. S = R \cup {t} /\ t \notin R /\ f[t] = Share(calls[t], steps)
      BY <2>1 DEF Share
    <3>2. \A u \in R \cup {t} : f[u] \in Nat
      BY <1>1
    <3> HIDE DEF f, R, S
    <3> QED
      BY <1>2, <3>1, <3>2, SizeAdd
  <2>2. CASE t \notin S
    <3>1. S = R /\ Share(calls[t], steps) = 0
      BY <2>2 DEF Share
    <3> HIDE DEF f, R, S
    <3> QED
      BY <1>3, <3>1
  <2> QED
    BY <2>1, <2>2
<1>5. Share(calls[t], steps) \in Nat
  <2>1. calls[t].len \in Nat
    BY <1>1
  <2> QED
    BY <2>1 DEF Share
<1> QED
  BY <1>3, <1>4, <1>5 DEF AddedBy, AddedByOthers

\* A step of one task changes what the tasks have added by that task's share.
LEMMA AddedMove ==
  ASSUME NEW calls \in [Thread -> Call], NEW t \in Thread, NEW call \in Call, NEW steps
  PROVE  LET after == [calls EXCEPT ![t] = call]
         IN  /\ AddedBy(calls, steps) \in Nat
             /\ AddedBy(after, steps) \in Nat
             /\ AddedBy(after, steps) = AddedBy(calls, steps) - Share(calls[t], steps) + Share(call, steps)
             /\ Share(call, steps) <= AddedBy(after, steps)
             /\ Share(calls[t], steps) <= AddedBy(calls, steps)
<1> DEFINE after == [calls EXCEPT ![t] = call]
           f == [u \in Thread |-> calls[u].len]
           g == [u \in Thread |-> after[u].len]
           R == {u \in Thread \ {t} : calls[u].pc \in steps}
<1>1. after \in [Thread -> Call] /\ after[t] = call
  OBVIOUS
<1>2. {u \in Thread \ {t} : after[u].pc \in steps} = R /\ \A u \in R : f[u] = g[u]
  OBVIOUS
<1>3. TotalLength(f, R) = TotalLength(g, R)
  <2> HIDE DEF f, g, R
  <2> QED
    BY <1>2, SizeSame
<1>4. AddedByOthers(after, t, steps) = AddedByOthers(calls, t, steps)
  BY <1>2, <1>3 DEF AddedByOthers
<1>5. /\ AddedByOthers(calls, t, steps) \in Nat
      /\ Share(calls[t], steps) \in Nat
      /\ AddedBy(calls, steps) = AddedByOthers(calls, t, steps) + Share(calls[t], steps)
  BY AddedSplit
<1>6. /\ AddedByOthers(after, t, steps) \in Nat
      /\ Share(after[t], steps) \in Nat
      /\ AddedBy(after, steps) = AddedByOthers(after, t, steps) + Share(after[t], steps)
  <2> HIDE DEF after
  <2> QED
    BY <1>1, AddedSplit
<1> HIDE DEF after
<1>7. /\ AddedBy(calls, steps) \in Nat
      /\ AddedBy(after, steps) \in Nat
      /\ AddedBy(after, steps) = AddedBy(calls, steps) - Share(calls[t], steps) + Share(call, steps)
      /\ Share(call, steps) <= AddedBy(after, steps)
      /\ Share(calls[t], steps) <= AddedBy(calls, steps)
  BY <1>1, <1>4, <1>5, <1>6
<1> QED
  BY <1>7 DEF after

-----------------------------------------------------------------------------
(* The inductive invariant.                                                *)

\* A call under way and a writer with a frame carry a real length.
Carried ==
  /\ \A t \in Thread : sender[t].pc # "idle" => sender[t].len \in Length
  /\ writer.pc \in {"release", "writing"} => writer.len \in Length

\* What a task is still to subtract is on the counter, also once the writer is gone.
CounterCovers == InFlight <= queued

Pushing == Added({"push"})

\* A task about to push has its place under the ceiling.
Reserved == writer.pc # "done" => Bytes(channel) + Pushing <= PEER_QUEUE_MAX_BYTES

\* The permit of a refusal is not consumed but by leaving.
RefusalPending == refused /\ writer.pc # "done" => permit

QueueInv ==
  /\ TypeOK
  /\ Carried
  /\ AccountingExact
  /\ CounterCovers
  /\ Reserved
  /\ RefusalPending

LEMMA LengthType == Length \cup {0} \subseteq Nat
BY QueueAssumption

LEMMA FramesType ==
  ASSUME NEW s \in Seq(Length)
  PROVE  s \in Seq(Nat) /\ Bytes(s) \in Nat
<1>1. Len(s) \in Nat /\ s \in [1 .. Len(s) -> Length]
  OBVIOUS
<1>2. s \in [1 .. Len(s) -> Nat]
  BY <1>1, LengthType
<1>3. s \in Seq(Nat)
  BY <1>1, <1>2
<1> QED
  BY <1>3, BytesType

\* The bytes the writer has taken and not yet subtracted.
Held == IF writer.pc = "release" THEN writer.len ELSE 0

LEMMA QueueTypes ==
  ASSUME TypeOK
  PROVE  /\ queued \in Nat /\ Bytes(channel) \in Nat /\ Held \in Nat
         /\ writer.len \in Nat
         /\ \A t \in Thread : sender[t].len \in Nat
<1>1. queued \in Nat /\ channel \in Seq(Length)
  BY DEF TypeOK
<1>2. writer.len \in Length \cup {0} /\ \A t \in Thread : sender[t].len \in Length \cup {0}
  BY DEF TypeOK
<1>3. writer.len \in Nat /\ \A t \in Thread : sender[t].len \in Nat
  BY <1>2, LengthType
<1> QED
  BY <1>1, <1>3, FramesType DEF Held

Counted == {"push", "rollback", "undo"}

LEMMA SenderStep ==
  ASSUME TypeOK, NEW t \in Thread, NEW call \in Call, sender' = [sender EXCEPT ![t] = call]
  PROVE  /\ InFlight \in Nat /\ InFlight' \in Nat
         /\ InFlight' = InFlight - Share(sender[t], Counted) + Share(call, Counted)
         /\ Share(sender[t], Counted) <= InFlight
         /\ Pushing \in Nat /\ Pushing' \in Nat
         /\ Pushing' = Pushing - Share(sender[t], {"push"}) + Share(call, {"push"})
<1>1. sender \in [Thread -> Call]
  BY DEF TypeOK, Call
<1>2. /\ InFlight = AddedBy(sender, Counted) /\ InFlight' = AddedBy(sender', Counted)
      /\ Pushing = AddedBy(sender, {"push"}) /\ Pushing' = AddedBy(sender', {"push"})
  BY DEF InFlight, Pushing, Added, AddedBy, Counted
<1>3. ASSUME NEW steps
      PROVE  /\ AddedBy(sender, steps) \in Nat
             /\ AddedBy(sender', steps) \in Nat
             /\ AddedBy(sender', steps) = AddedBy(sender, steps) - Share(sender[t], steps) + Share(call, steps)
             /\ Share(call, steps) <= AddedBy(sender', steps)
             /\ Share(sender[t], steps) <= AddedBy(sender, steps)
  BY <1>1, AddedMove
<1> QED
  BY <1>2, <1>3

\* Fewer steps are waited for by no more bytes.
LEMMA AddedMonotone ==
  ASSUME TypeOK
  PROVE  Pushing <= InFlight /\ Pushing \in Nat /\ InFlight \in Nat
<1> DEFINE f == [t \in Thread |-> sender[t].len]
           S == {t \in Thread : sender[t].pc \in {"push", "rollback", "undo"}}
           T == {t \in Thread : sender[t].pc \in {"push"}}
<1>1. \A t \in Thread : f[t] \in Nat
  <2>1. ASSUME NEW t \in Thread PROVE sender[t].len \in Length \cup {0}
    BY DEF TypeOK
  <2>2. Length \cup {0} \subseteq Nat
    BY QueueAssumption
  <2>3. ASSUME NEW t \in Thread PROVE sender[t].len \in Nat
    BY <2>1, <2>2
  <2> QED
    BY <2>3
<1>2. T \in SUBSET S /\ S \in SUBSET Thread
  OBVIOUS
<1>3. IsFiniteSet(S) /\ IsFiniteSet(T)
  BY <1>2, QueueAssumption, FS_Subset
<1>4. (\A t \in S : f[t] \in Nat) /\ (\A t \in T : f[t] \in Nat)
  BY <1>1
<1>5. TotalLength(f, T) <= TotalLength(f, S) /\ TotalLength(f, T) \in Nat /\ TotalLength(f, S) \in Nat
  <2> HIDE DEF f, S, T
  <2>1. TotalLength(f, T) \in Nat /\ TotalLength(f, S) \in Nat
    BY <1>3, <1>4, SizeType
  <2> QED
    BY <1>2, <1>3, <1>4, <2>1, SizeMonotone
<1> QED
  BY <1>5 DEF Added, InFlight, Pushing

-----------------------------------------------------------------------------
(* Init and the steps of a sending task.                                   *)

LEMMA QueueInit == Init => QueueInv
<1> SUFFICES ASSUME Init PROVE QueueInv
  OBVIOUS
<1>1. TypeOK
  <2>1. 0 \in 0 .. MaxSends /\ <<>> \in Seq(Length)
    BY QueueAssumption
  <2> QED
    BY <2>1 DEF Init, TypeOK, Idle
<1>a. Carried /\ RefusalPending
  BY DEF Init, Carried, RefusalPending, Idle
<1>2. \A steps : "idle" \notin steps => Added(steps) = 0
  <2>1. ASSUME NEW steps, "idle" \notin steps PROVE {t \in Thread : sender[t].pc \in steps} = {}
    BY <2>1 DEF Init, Idle
  <2>2. ASSUME NEW steps, "idle" \notin steps PROVE Added(steps) = 0
    BY <2>1, <2>2, SizeEmpty DEF Added
  <2> QED
    BY <2>2
<1>3. InFlight = 0 /\ Pushing = 0 /\ Bytes(channel) = 0
  BY <1>2, BytesEmpty DEF Init, InFlight, Pushing
<1> QED
  BY <1>1, <1>a, <1>3, QueueAssumption
  DEF Init, QueueInv, AccountingExact, CounterCovers, Reserved

LEMMA FetchAddStep ==
  ASSUME QueueInv, NEW t \in Thread, NEW n \in Length, FetchAdd(t, n)
  PROVE  QueueInv'
<1> DEFINE call == [pc |-> IF Overruns(n) THEN "rollback" ELSE "push", len |-> n]
<1>1. n \in Nat /\ TypeOK /\ Carried /\ AccountingExact /\ CounterCovers /\ Reserved /\ RefusalPending
  BY LengthType DEF QueueInv
<1>2. call \in Call /\ sender' = [sender EXCEPT ![t] = call]
  BY DEF Call, FetchAdd
<1>3. /\ InFlight \in Nat /\ InFlight' = InFlight + n
      /\ Pushing \in Nat /\ Pushing' = Pushing + (IF Overruns(n) THEN 0 ELSE n)
  <2>1. sender[t].pc = "idle"
    BY DEF FetchAdd
  <2>2. /\ Share(sender[t], Counted) = 0 /\ Share(call, Counted) = n
        /\ Share(sender[t], {"push"}) = 0
        /\ Share(call, {"push"}) = IF Overruns(n) THEN 0 ELSE n
    BY <2>1 DEF Share, Counted
  <2>3. /\ InFlight \in Nat /\ InFlight' \in Nat
        /\ InFlight' = InFlight - Share(sender[t], Counted) + Share(call, Counted)
        /\ Pushing \in Nat /\ Pushing' \in Nat
        /\ Pushing' = Pushing - Share(sender[t], {"push"}) + Share(call, {"push"})
    BY <1>1, <1>2, SenderStep
  <2> QED
    BY <1>1, <2>2, <2>3
<1>4. /\ queued \in Nat /\ queued' = queued + n
      /\ Bytes(channel) \in Nat /\ Bytes(channel)' = Bytes(channel)
      /\ Held \in Nat /\ Held' = Held
      /\ writer' = writer
  BY <1>1, QueueTypes DEF FetchAdd, Held
<1>5. TypeOK'
  <2>1. sends' \in 0 .. MaxSends
    BY <1>1, QueueAssumption DEF TypeOK, FetchAdd
  <2> QED
    BY <1>1, <1>2, <1>4, <2>1 DEF TypeOK, FetchAdd, Call, history
<1>6. Carried'
  BY <1>1, <1>2 DEF TypeOK, Carried, FetchAdd
<1>7. AccountingExact' /\ CounterCovers'
  BY <1>1, <1>3, <1>4 DEF AccountingExact, CounterCovers, Held
<1>8. Reserved'
  BY <1>1, <1>3, <1>4, AddedMonotone, QueueAssumption DEF Reserved, AccountingExact, Overruns, Held
<1>9. RefusalPending'
  BY <1>1 DEF RefusalPending, FetchAdd, history
<1> QED
  BY <1>5, <1>6, <1>7, <1>8, <1>9 DEF QueueInv

\* Rollback, Undo: the bytes leave the counter with the task that added them.
LEMMA SubtractStep ==
  ASSUME QueueInv, NEW t \in Thread, Rollback(t) \/ Undo(t)
  PROVE  QueueInv'
<1> DEFINE call == IF sender[t].pc = "rollback" THEN [sender[t] EXCEPT !.pc = "notify"] ELSE Idle
           n == sender[t].len
<1>1. TypeOK /\ Carried /\ AccountingExact /\ CounterCovers /\ Reserved /\ RefusalPending
  BY DEF QueueInv
<1>2. call \in Call /\ sender' = [sender EXCEPT ![t] = call] /\ sender[t].pc \in {"rollback", "undo"}
  BY <1>1 DEF Call, Rollback, Undo, Idle, TypeOK
<1>3. /\ n \in Nat /\ n <= InFlight
      /\ InFlight \in Nat /\ InFlight' = InFlight - n
      /\ Pushing \in Nat /\ Pushing' = Pushing
  <2>2. /\ Share(sender[t], Counted) = n /\ Share(call, Counted) = 0
        /\ Share(sender[t], {"push"}) = 0 /\ Share(call, {"push"}) = 0
    BY <1>1, <1>2 DEF Share, Counted, Idle, TypeOK
  <2>3. /\ InFlight \in Nat /\ InFlight' \in Nat
        /\ InFlight' = InFlight - Share(sender[t], Counted) + Share(call, Counted)
        /\ Share(sender[t], Counted) <= InFlight
        /\ Pushing \in Nat /\ Pushing' \in Nat
        /\ Pushing' = Pushing - Share(sender[t], {"push"}) + Share(call, {"push"})
    BY <1>1, <1>2, SenderStep
  <2>4. n \in Nat
    BY <1>1, QueueTypes
  <2>5. /\ InFlight' = InFlight - n + 0 /\ n <= InFlight
        /\ Pushing' = Pushing - 0 + 0
    BY <2>2, <2>3, Zenon
  <2>6. InFlight \in Nat /\ InFlight' \in Nat /\ Pushing \in Nat /\ Pushing' \in Nat
    BY <2>3
  <2> HIDE DEF n, call
  <2> QED
    BY <2>4, <2>5, <2>6
<1>4. /\ queued \in Nat /\ queued' = queued - n
      /\ Bytes(channel) \in Nat /\ Bytes(channel)' = Bytes(channel)
      /\ Held \in Nat /\ Held' = Held
      /\ writer' = writer
  BY <1>1, QueueTypes DEF Rollback, Undo, Held
<1>5. TypeOK'
  <2>1. queued' \in Nat
    BY <1>1, <1>3, <1>4 DEF CounterCovers
  <2>2. sender' \in [Thread -> Call]
    BY <1>1, <1>2 DEF TypeOK, Call
  <2>3. UNCHANGED <<channel, permit, writer, reader, sends, written, refused>>
    BY DEF Rollback, Undo, history
  <2> QED
    BY <1>1, <2>1, <2>2, <2>3 DEF TypeOK, Call
<1>6. Carried'
  BY <1>1, <1>2, <1>4 DEF TypeOK, Carried, Idle
<1>7. AccountingExact' /\ CounterCovers'
  BY <1>1, <1>3, <1>4 DEF AccountingExact, CounterCovers, Held
<1>8. Reserved'
  BY <1>1, <1>3, <1>4 DEF Reserved
<1>9. RefusalPending'
  BY <1>1 DEF RefusalPending, Rollback, Undo, history
<1> QED
  BY <1>5, <1>6, <1>7, <1>8, <1>9 DEF QueueInv

\* The refusal is announced.
LEMMA NotifyStep ==
  ASSUME QueueInv, NEW t \in Thread, notify_one(t)
  PROVE  QueueInv'
<1>1. TypeOK /\ Carried /\ AccountingExact /\ CounterCovers /\ Reserved /\ RefusalPending
  BY DEF QueueInv
<1>2. Idle \in Call /\ sender' = [sender EXCEPT ![t] = Idle] /\ sender[t].pc = "notify"
  BY DEF Call, notify_one, Idle
<1>3. InFlight' = InFlight /\ Pushing' = Pushing
  <2>2. /\ Share(sender[t], Counted) = 0 /\ Share(Idle, Counted) = 0
        /\ Share(sender[t], {"push"}) = 0 /\ Share(Idle, {"push"}) = 0
    BY <1>2 DEF Share, Counted, Idle
  <2>3. /\ InFlight \in Nat /\ InFlight' \in Nat
        /\ InFlight' = InFlight - Share(sender[t], Counted) + Share(Idle, Counted)
        /\ Pushing \in Nat /\ Pushing' \in Nat
        /\ Pushing' = Pushing - Share(sender[t], {"push"}) + Share(Idle, {"push"})
    BY <1>1, <1>2, SenderStep
  <2>4. InFlight' = InFlight - 0 + 0 /\ Pushing' = Pushing - 0 + 0
    BY <2>2, <2>3, Zenon
  <2>6. InFlight \in Nat /\ InFlight' \in Nat /\ Pushing \in Nat /\ Pushing' \in Nat
    BY <2>3
  <2> QED
    BY <2>4, <2>6
<1>4. UNCHANGED <<queued, channel, writer, reader, sends, written>> /\ permit' = TRUE /\ refused' = TRUE
  BY DEF notify_one
<1>5. sender' \in [Thread -> Call]
  BY <1>1, <1>2 DEF TypeOK, Call
<1>6. TypeOK'
  BY <1>1, <1>4, <1>5 DEF TypeOK, Call
<1>7. Carried'
  BY <1>1, <1>2, <1>4 DEF TypeOK, Carried, Idle
<1>8. AccountingExact' /\ CounterCovers' /\ Reserved' /\ RefusalPending'
  BY <1>1, <1>3, <1>4 DEF AccountingExact, CounterCovers, Reserved, RefusalPending
<1> QED
  BY <1>6, <1>7, <1>8 DEF QueueInv

\* The push, and what it does when the receiving half is gone.
LEMMA PushStep ==
  ASSUME QueueInv, NEW t \in Thread, Push(t)
  PROVE  QueueInv'
<1> DEFINE call == IF writer.pc = "done" THEN [sender[t] EXCEPT !.pc = "undo"] ELSE Idle
           n == sender[t].len
<1>1. TypeOK /\ Carried /\ AccountingExact /\ CounterCovers /\ Reserved /\ RefusalPending
  BY DEF QueueInv
<1>2. call \in Call /\ sender' = [sender EXCEPT ![t] = call] /\ sender[t].pc = "push"
  BY <1>1 DEF Call, Push, Idle, TypeOK
<1>3. /\ n \in Nat /\ n \in Length
      /\ InFlight \in Nat /\ InFlight' = InFlight - (IF writer.pc = "done" THEN 0 ELSE n)
      /\ Pushing \in Nat /\ Pushing' = Pushing - n
      /\ n <= InFlight
  <2>2. /\ Share(sender[t], Counted) = n /\ Share(call, Counted) = IF writer.pc = "done" THEN n ELSE 0
        /\ Share(sender[t], {"push"}) = n /\ Share(call, {"push"}) = 0
    BY <1>1, <1>2 DEF Share, Counted, Idle, TypeOK
  <2>3. /\ InFlight \in Nat /\ InFlight' \in Nat
        /\ InFlight' = InFlight - Share(sender[t], Counted) + Share(call, Counted)
        /\ Share(sender[t], Counted) <= InFlight
        /\ Pushing \in Nat /\ Pushing' \in Nat
        /\ Pushing' = Pushing - Share(sender[t], {"push"}) + Share(call, {"push"})
    BY <1>1, <1>2, SenderStep
  <2>4. n \in Nat /\ n \in Length
    BY <1>1, <1>2, QueueTypes DEF Carried
  <2>5. /\ InFlight' = InFlight - n + (IF writer.pc = "done" THEN n ELSE 0) /\ n <= InFlight
        /\ Pushing' = Pushing - n + 0
    BY <2>2, <2>3, Zenon
  <2>6. InFlight \in Nat /\ InFlight' \in Nat /\ Pushing \in Nat /\ Pushing' \in Nat
    BY <2>3
  <2> HIDE DEF n, call
  <2> QED
    BY <2>4, <2>5, <2>6
<1>4. UNCHANGED <<queued, permit, writer, reader, sends, written, refused>>
  BY DEF Push
<1>5. /\ channel' \in Seq(Length)
      /\ Bytes(channel) \in Nat
      /\ writer.pc # "done" => Bytes(channel)' = Bytes(channel) + n
  <2>1. channel \in Seq(Length) /\ channel \in Seq(Nat) /\ Bytes(channel) \in Nat
    BY <1>1, FramesType DEF TypeOK
  <2>2. CASE writer.pc = "done"
    BY <2>1, <2>2 DEF Push
  <2>3. CASE writer.pc # "done"
    <3>1. channel' = Append(channel, n)
      BY <2>3 DEF Push
    <3>2. Bytes(channel)' = Bytes(Append(channel, n))
      BY <3>1 DEF Bytes
    <3> HIDE DEF n
    <3> QED
      BY <1>3, <2>1, <3>1, <3>2, BytesAppend
  <2> QED
    BY <2>2, <2>3
<1>6. TypeOK'
  <2>1. sender' \in [Thread -> Call]
    BY <1>1, <1>2 DEF TypeOK, Call
  <2> QED
    BY <1>1, <1>4, <1>5, <2>1 DEF TypeOK, Call
<1>7. Carried'
  BY <1>1, <1>2, <1>3, <1>4 DEF TypeOK, Carried, Idle
<1>8. queued \in Nat /\ Held \in Nat /\ Held' = Held
  BY <1>1, <1>4, QueueTypes DEF Held
<1> HIDE DEF n
<1>9. AccountingExact' /\ CounterCovers' /\ Reserved' /\ RefusalPending'
  BY <1>1, <1>3, <1>4, <1>5, <1>8, QueueAssumption
  DEF AccountingExact, CounterCovers, Reserved, RefusalPending, Held
<1> QED
  BY <1>6, <1>7, <1>9 DEF QueueInv

-----------------------------------------------------------------------------
(* The steps of the writer and of the read loop.                           *)

LEMMA OthersStep ==
  ASSUME sender' = sender
  PROVE  InFlight' = InFlight /\ Pushing' = Pushing
BY DEF InFlight, Pushing, Added

LEMMA RecvFrameStep ==
  ASSUME QueueInv, RecvFrame
  PROVE  QueueInv'
<1>1. TypeOK /\ Carried /\ AccountingExact /\ CounterCovers /\ Reserved /\ RefusalPending
  BY DEF QueueInv
<1>2. UNCHANGED <<queued, permit, sender, reader, sends, written, refused>> /\ writer.pc = "poll"
  BY DEF RecvFrame, history
<1>3. channel \in Seq(Length) /\ channel # <<>> /\ channel' = Tail(channel)
  BY <1>1 DEF RecvFrame, TypeOK
<1>4. channel' \in Seq(Length) /\ Head(channel) \in Length
  BY <1>3
<1>5. Bytes(channel) = Bytes(channel)' + Head(channel)
  <2>1. channel \in Seq(Nat)
    BY <1>3, FramesType
  <2>2. Bytes(channel)' = Bytes(Tail(channel))
    BY <1>3 DEF Bytes
  <2> QED
    BY <1>3, <2>1, <2>2, BytesTail
<1>6. Bytes(channel) \in Nat /\ Bytes(channel)' \in Nat /\ Head(channel) \in Nat
  BY <1>3, <1>4, FramesType, LengthType
<1>7. writer' = [pc |-> "release", len |-> Head(channel)]
  BY DEF RecvFrame
<1>8. TypeOK'
  BY <1>1, <1>2, <1>4, <1>7 DEF TypeOK
<1>9. Carried' /\ RefusalPending'
  BY <1>1, <1>2, <1>4, <1>7 DEF Carried, RefusalPending
<1>10. AccountingExact' /\ CounterCovers' /\ Reserved'
  <2>1. InFlight' = InFlight /\ Pushing' = Pushing /\ InFlight \in Nat /\ Pushing \in Nat
    BY <1>1, <1>2, OthersStep, AddedMonotone
  <2> QED
    BY <1>1, <1>2, <1>5, <1>6, <1>7, <2>1, QueueAssumption
    DEF AccountingExact, CounterCovers, Reserved
<1> QED
  BY <1>8, <1>9, <1>10 DEF QueueInv

LEMMA ReleaseStep ==
  ASSUME QueueInv, Release
  PROVE  QueueInv'
<1>1. TypeOK /\ Carried /\ AccountingExact /\ CounterCovers /\ Reserved /\ RefusalPending
  BY DEF QueueInv
<1>2. UNCHANGED <<channel, permit, sender, reader, sends, written, refused>> /\ writer.pc = "release"
  BY DEF Release, history
<1>3. queued' = queued - writer.len
  BY DEF Release
<1>4. /\ writer' \in [pc : {"recv", "writing"}, len : Length \cup {0}]
      /\ writer'.pc = "writing" => writer'.len = writer.len
  BY <1>1 DEF Release, TypeOK
<1>5. /\ InFlight' = InFlight /\ Pushing' = Pushing /\ InFlight \in Nat
      /\ Bytes(channel)' = Bytes(channel) /\ Bytes(channel) \in Nat
      /\ queued \in Nat /\ writer.len \in Nat
  BY <1>1, <1>2, OthersStep, AddedMonotone, QueueTypes
<1>6. writer.pc # "done" /\ writer'.pc \in {"recv", "writing"}
  BY <1>2, <1>4
<1>7. queued = Bytes(channel) + InFlight + writer.len
  BY <1>1, <1>2, <1>6 DEF AccountingExact
<1>8. queued' \in Nat /\ queued' = Bytes(channel) + InFlight
  BY <1>3, <1>5, <1>7
<1>9. TypeOK'
  BY <1>1, <1>2, <1>4, <1>8 DEF TypeOK
<1>10. Carried' /\ RefusalPending' /\ Reserved'
  BY <1>1, <1>2, <1>4, <1>5, <1>6 DEF Carried, RefusalPending, Reserved
<1>11. AccountingExact' /\ CounterCovers'
  BY <1>5, <1>6, <1>8 DEF AccountingExact, CounterCovers
<1> QED
  BY <1>9, <1>10, <1>11 DEF QueueInv

\* Steps that only move the writer, and those after which it is gone.
LEMMA WriterMoves ==
  ASSUME QueueInv,
         \/ PeerTakes \/ RecvOverflow \/ WriterEnds \/ PeerSpeaks \/ PeerCloses
         \/ PollNotified \/ Park \/ Wake \/ Shutdown
  PROVE  QueueInv'
<1>1. TypeOK /\ Carried /\ AccountingExact /\ CounterCovers /\ Reserved /\ RefusalPending
  BY DEF QueueInv
<1>2. UNCHANGED <<queued, channel, sender, sends, refused>>
  BY DEF PeerTakes, RecvOverflow, WriterEnds, PeerSpeaks, PeerCloses, Close, PollNotified, Park, Wake,
         Shutdown, history
<1>3. /\ InFlight' = InFlight /\ Pushing' = Pushing
      /\ Bytes(channel)' = Bytes(channel)
  BY <1>2, OthersStep
<1>4. \/ /\ PeerTakes
         /\ writer.pc = "writing" /\ writer' = [pc |-> "recv", len |-> 0]
         /\ written' = Append(written, writer.len)
         /\ UNCHANGED <<permit, reader>>
      \/ /\ \E pc \in {"poll", "parked", "recv", "closing"} : writer' = [pc |-> pc, len |-> 0]
         /\ writer.pc \in {"poll", "parked", "recv"}
         /\ UNCHANGED <<permit, reader, written>>
      \/ /\ writer' = [pc |-> "done", len |-> 0]
         /\ permit' \in BOOLEAN /\ reader' \in {"reading", "closed"}
         /\ written' = written
  BY <1>1 DEF PeerTakes, RecvOverflow, WriterEnds, PeerSpeaks, PeerCloses, Close, PollNotified, Park,
              Wake, Shutdown, WriterGoes, history, TypeOK
<1>5. written' \in Seq(Length)
  <2>1. CASE PeerTakes
    <3>1. writer.len \in Length /\ written \in Seq(Length) /\ written' = Append(written, writer.len)
      BY <1>1, <2>1 DEF PeerTakes, Carried, TypeOK
    <3> QED
      BY <3>1
  <2>2. CASE ~ PeerTakes
    BY <1>1, <1>4, <2>2 DEF TypeOK
  <2> QED
    BY <2>1, <2>2
<1>6. TypeOK'
  BY <1>1, <1>2, <1>4, <1>5 DEF TypeOK
<1>7. Carried' /\ RefusalPending'
  BY <1>1, <1>2, <1>4 DEF Carried, RefusalPending
<1>8. CounterCovers'
  BY <1>1, <1>2, <1>3 DEF CounterCovers
<1>9. AccountingExact' /\ Reserved'
  BY <1>1, <1>2, <1>3, <1>4 DEF AccountingExact, Reserved
<1> QED
  BY <1>6, <1>7, <1>8, <1>9 DEF QueueInv

LEMMA QueueNext == QueueInv /\ [Next]_vars => QueueInv'
<1> SUFFICES ASSUME QueueInv, [Next]_vars PROVE QueueInv'
  OBVIOUS
<1>1. ASSUME NEW t \in Thread, Send(t) PROVE QueueInv'
  BY <1>1, SubtractStep, NotifyStep, PushStep DEF Send
<1>2. ASSUME NEW t \in Thread, NEW n \in Length, FetchAdd(t, n) PROVE QueueInv'
  BY <1>2, FetchAddStep
<1>3. CASE WriterStep \/ PeerTakes \/ Shutdown \/ WriterEnds \/ PeerSpeaks \/ PeerCloses
  BY <1>3, RecvFrameStep, ReleaseStep, WriterMoves DEF WriterStep
<1>4. CASE UNCHANGED vars
  BY <1>4 DEF vars, history, QueueInv, TypeOK, Carried, AccountingExact, CounterCovers,
              Reserved, RefusalPending, InFlight, Pushing, Added, Bytes
<1> QED
  BY <1>1, <1>2, <1>3, <1>4 DEF Next

\* However sends, rollbacks, pushes and releases of any number of tasks
\* interleave, no subtraction takes the counter below zero (the code's counter is
\* unsigned and would wrap), and every frame that is queued or written is one sent.
THEOREM QueueTypeCorrect == Spec => []TypeOK
<1>1. QueueInv => TypeOK
  BY DEF QueueInv
<1> QED
  BY <1>1, QueueInit, QueueNext, PTL DEF Spec

\* While the writer runs the counter is exactly what is queued, what tasks are
\* adding or taking back and what the writer is releasing, for any ceiling.
THEOREM QueueAccounting == Spec => []AccountingExact
<1>1. QueueInv => AccountingExact
  BY DEF QueueInv
<1> QED
  BY <1>1, QueueInit, QueueNext, PTL DEF Spec

-----------------------------------------------------------------------------
(* The queue implements the pipe.                                          *)

\* The one case in which the queue is no pipe: the QUIC writer skips a frame that
\* is too long for the stream.
FramesFit == Transport = "ws" \/ \A n \in Length : n <= MAX_FRAME

LEMMA PipeInit == Init => Pipe!Init
BY DEF Init, Pipe!Init

\* Accept needs room for the frame: the task reserved it before it pushed.
LEMMA PushAccepts ==
  ASSUME QueueInv, NEW t \in Thread, Push(t), writer.pc # "done"
  PROVE  \E n \in Length : Pipe!Accept(n)
<1> DEFINE n == sender[t].len
<1>1. TypeOK /\ Carried /\ Reserved /\ sender[t].pc = "push"
  BY DEF QueueInv, Push
<1>2. n \in Length /\ n \in Nat /\ channel \in Seq(Nat) /\ Bytes(channel) \in Nat
  BY <1>1, LengthType, FramesType DEF Carried, TypeOK
<1>3. channel' = Append(channel, n) /\ UNCHANGED <<writer, written, refused>>
  BY DEF Push
<1>4. n <= Pushing /\ Pushing \in Nat
  <2>1. sender \in [Thread -> Call] /\ Share(sender[t], {"push"}) = n
    BY <1>1 DEF TypeOK, Call, Share
  <2>2. /\ AddedByOthers(sender, t, {"push"}) \in Nat
        /\ AddedBy(sender, {"push"}) = AddedByOthers(sender, t, {"push"}) + Share(sender[t], {"push"})
    BY <2>1, AddedSplit
  <2>3. Pushing = AddedBy(sender, {"push"})
    BY DEF Pushing, Added, AddedBy
  <2> HIDE DEF n
  <2> QED
    BY <1>2, <2>1, <2>2, <2>3
<1>5. Bytes(channel') <= PEER_QUEUE_MAX_BYTES
  <2>1. Bytes(channel') = Bytes(channel) + n
    <3> HIDE DEF n
    <3> QED
      BY <1>2, <1>3, BytesAppend
  <2> HIDE DEF n
  <2> QED
    BY <1>1, <1>2, <1>4, <2>1, QueueAssumption DEF Reserved
<1>6. Pipe!Bytes(channel') <= PEER_QUEUE_MAX_BYTES
  BY <1>5, Zenon
  DEF Pipe!Bytes, Pipe!TotalLength, Pipe!BytesAt, Pipe!Cardinality,
      Bytes, TotalLength, BytesAt, Cardinality
<1>7. Pipe!Accept(n)
  BY <1>3, <1>6 DEF Pipe!Accept
<1> QED
  BY <1>2, <1>7

LEMMA PipeNext ==
  ASSUME FramesFit, QueueInv, [Next]_vars
  PROVE  [Pipe!Next]_(Pipe!vars)
<1> USE DEF Pipe!vars
<1>1. TypeOK /\ Carried /\ RefusalPending
  BY DEF QueueInv
<1>2. ASSUME NEW t \in Thread, NEW n \in Length, FetchAdd(t, n) PROVE UNCHANGED Pipe!vars
  BY <1>2 DEF FetchAdd, history
<1>3. ASSUME NEW t \in Thread, Rollback(t) \/ Undo(t) PROVE UNCHANGED Pipe!vars
  BY <1>3 DEF Rollback, Undo, history
<1>4. ASSUME NEW t \in Thread, notify_one(t) PROVE Pipe!Refuse \/ UNCHANGED Pipe!vars
  BY <1>1, <1>4 DEF notify_one, Pipe!Refuse, TypeOK
<1>5. ASSUME NEW t \in Thread, Push(t) PROVE (\E n \in Length : Pipe!Accept(n)) \/ UNCHANGED Pipe!vars
  <2>1. CASE writer.pc = "done"
    BY <1>5, <2>1 DEF Push
  <2>2. CASE writer.pc # "done"
    BY <1>5, <2>2, PushAccepts
  <2> QED
    BY <2>1, <2>2
<1>6. ASSUME RecvFrame PROVE Pipe!Take
  BY <1>1, <1>6 DEF RecvFrame, history, Pipe!Take
<1>7. ASSUME Release PROVE UNCHANGED Pipe!vars
  <2>1. writer.pc = "release" /\ writer.len \in Length /\ writer.len \in Nat
    BY <1>1, <1>7, LengthType DEF Release, Carried
  <2>2. ~ (Transport = "quic" /\ writer.len > MAX_FRAME)
    BY <2>1, QueueAssumption DEF FramesFit
  <2>3. writer' = [writer EXCEPT !.pc = "writing"] /\ UNCHANGED <<channel, written, refused>>
    BY <1>7, <2>2 DEF Release, history
  <2> QED
    BY <1>1, <2>1, <2>3 DEF TypeOK
<1>8. ASSUME PeerTakes PROVE Pipe!Deliver
  <2>1. written \in Seq(Length) /\ writer.len \in Length
    BY <1>1, <1>8 DEF PeerTakes, Carried, TypeOK
  <2>2. Append(written, writer.len) = written \o <<writer.len>>
    BY <2>1
  <2> QED
    BY <1>8, <2>2 DEF PeerTakes, WriterGoes, Pipe!Deliver
<1>9. ASSUME RecvOverflow \/ WriterEnds \/ PeerSpeaks \/ PeerCloses PROVE Pipe!Close
  BY <1>9 DEF RecvOverflow, WriterEnds, PeerSpeaks, PeerCloses, Close, WriterGoes, history, Pipe!Close
<1>10. CASE UNCHANGED vars
  BY <1>10 DEF vars, history
<1>11. ASSUME PollNotified \/ Wake \/ Shutdown PROVE UNCHANGED Pipe!vars
  BY <1>1, <1>11 DEF PollNotified, Wake, Shutdown, WriterGoes, RefusalPending, history
<1>12. ASSUME Park PROVE Pipe!Settle \/ UNCHANGED Pipe!vars
  BY <1>12 DEF Park, WriterGoes, history, Pipe!Settle
<1> QED
  BY <1>2, <1>3, <1>4, <1>5, <1>6, <1>7, <1>8, <1>9, <1>10, <1>11, <1>12 DEF Next, Send, WriterStep, Pipe!Next

\* However many tasks race their fetch_add, push and notification against the
\* writer, the queue is a bounded FIFO pipe that loses a frame only by closing
\* and hands out at most one frame after a refusal, the one it is reaching for.  The hypothesis excludes what the QUIC
\* writer really does to frames beyond MAX_FRAME: it skips them.
THEOREM QueueIsPipe == FramesFit => (Spec => ImplementsPipe)
<1> SUFFICES ASSUME FramesFit PROVE Spec => Pipe!Spec
  BY DEF ImplementsPipe
<1>1. QueueInv /\ [Next]_vars => [Pipe!Next]_(Pipe!vars)
  BY PipeNext
<1> QED
  BY <1>1, PipeInit, QueueInit, QueueNext, PTL DEF Spec, Pipe!Spec
=============================================================================
