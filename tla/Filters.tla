------------------------------ MODULE Filters -------------------------------
(***************************************************************************)
(* Two functions of a library in a form that proofs can take apart: the    *)
(* rest of a sequence without the elements of a set (SelectSeq for a set), *)
(* and the elements of a set in an order (SetToSortSeq).                   *)
(***************************************************************************)
EXTENDS Integers, Sequences, FiniteSets

SeqExt == INSTANCE SequencesExt

Without(s, T) == SeqExt!FlattenSeq([i \in 1 .. Len(s) |-> IF s[i] \in T THEN <<>> ELSE <<s[i]>>])

(* The elements of S by the pairs of R, which order it: each at the place that
   counts those up to it. *)
AtPlace(S, R, k) == CHOOSE x \in S : Cardinality({y \in S : <<y, x>> \in R}) = k

Ordered(S, R) == [k \in 1 .. Cardinality(S) |-> AtPlace(S, R, k)]
=============================================================================
