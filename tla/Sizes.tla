------------------------------- MODULE Sizes --------------------------------
(* The total length of frames, counted byte by byte: byte i of the frame at  *)
(* x is the pair <<x, i>>.  A sum stated as a cardinality needs no           *)
(* recursion, so that the laws of finite sets apply to it.                   *)
EXTENDS Naturals, FiniteSets

\* The bytes of the frames at S, where len gives the length of each.
BytesAt(len, S) == UNION {{x} \X (1 .. len[x]) : x \in S}

TotalLength(len, S) == Cardinality(BytesAt(len, S))
=============================================================================
