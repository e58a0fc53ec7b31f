---------------------------- MODULE MC_TableSweep ---------------------------
(* TableSweep over all the prefixes of a W-bit family. *)
EXTENDS TableSweep

CONSTANT W

Family == INSTANCE Addresses

ModelPrefixes == Family!AllPrefixes
=============================================================================
