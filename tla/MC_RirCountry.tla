--------------------------- MODULE MC_RirCountry ----------------------------
EXTENDS RirCountry

Line(kind, family, start, value, cc, date) ==
  [kind |-> kind, family |-> family, start |-> start, value |-> value, cc |-> cc, date |-> date]

(* Lines that are no records. *)
Noise == {Line("other", "ipv4", 0, 0, 0, 0), Line("garbled", "ipv6", 0, 0, 0, 0)}

(* Counts for a start in the middle of the family: none, two past the last
   address, and one past the end of the integers; and lengths: of an aligned
   and of an unaligned base, and too long. *)
Edges ==
  {Line("block", "ipv4", 2, n, 1, 1) : n \in {0, 3, 5, 2^U - 1}} \cup
  {Line("block", "ipv6", 0, 1, 1, 1), Line("block", "ipv6", 3, 1, 1, 1),
   Line("block", "ipv6", 0, W + 1, 1, 1)}

(* Two blocks that share the prefix 2-3 but not their size, of three countries
   with two dates. *)
SharedBlocks ==
  {Line("block", "ipv4", 2, 2, cc, date) : cc \in 1 .. 3, date \in 1 .. 2} \cup
  {Line("block", "ipv4", 1, 3, cc, date) : cc \in 1 .. 2, date \in 1 .. 2}

AllLines == SharedBlocks \cup Edges \cup Noise
=============================================================================
