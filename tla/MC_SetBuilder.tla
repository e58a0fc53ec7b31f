--------------------------- MODULE MC_SetBuilder ----------------------------
(* SetBuilder over a small address family, with the prefixes of Addresses. *)
EXTENDS SetBuilder

CONSTANT W

Family == INSTANCE Addresses

(* The prefixes of a W-bit family that lie in 0 .. MaxAddr. *)
ModelPrefixes == {[lo |-> p.lo, hi |-> p.hi] : p \in {q \in Family!AllPrefixes : q.hi <= MaxAddr}}
=============================================================================
