----------------------------- MODULE MCSignaling ----------------------------
(* Two identities; one of them signs as two spellings of its public id.     *)
EXTENDS Signaling, TLC

CONSTANTS a, aPadded, b, hexA, hexB

MCAlias == (a :> hexA) @@ (aPadded :> hexA) @@ (b :> hexB)
MCAliasOne == a :> hexA

\* Connections differ in nothing but their tasks.
ConnSymmetry == Permutations(Socket) \cup Permutations(Stream)
=============================================================================
