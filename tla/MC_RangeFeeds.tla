---------------------------- MODULE MC_RangeFeeds ----------------------------
EXTENDS RangeFeeds

(* A row every tool converts, and one row for each thing that can be wrong. *)
Good == [cols |-> 5, broken |-> FALSE, addrs |-> TRUE, blocks |-> 2,
         assigned |-> TRUE, asn |-> "set"]

MCRows ==
  {Good,
   [Good EXCEPT !.cols = 0, !.addrs = FALSE],
   [Good EXCEPT !.cols = 3],
   [Good EXCEPT !.broken = TRUE],
   [Good EXCEPT !.addrs = FALSE],
   [Good EXCEPT !.blocks = 0],
   [Good EXCEPT !.asn = "zero", !.assigned = FALSE],
   [Good EXCEPT !.asn = "bad", !.blocks = 1]}

SomeRows == {Good, [Good EXCEPT !.blocks = 0]}
=============================================================================
