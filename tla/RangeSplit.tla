----------------------------- MODULE RangeSplit -----------------------------
(***************************************************************************)
(* The range-to-CIDR split of range.go, without its arithmetic: from the   *)
(* low end of a range, take the largest prefix that starts there and stays *)
(* inside, and go on behind it.                                            *)
(***************************************************************************)
EXTENDS PrefixFamily

VARIABLES
  lo, hi,     (* The range to cover.                                  *)
  cover,      (* The prefixes appended so far.                        *)
  a,          (* Where the next prefix starts.                        *)
  done        (* The cover is complete.                               *)

vars == <<lo, hi, cover, a, done>>

Init ==
  /\ lo \in Addr /\ hi \in Addr
  /\ cover = {} /\ a = lo /\ done = (hi < lo)

Largest(p) ==
  /\ p.lo = a /\ p.hi <= hi
  /\ \A q \in Prefixes : q.lo = a /\ q.hi <= hi => q.hi <= p.hi

(* One block of the split (an empty range is done from the start). *)
Take ==
  /\ ~done
  /\ \E p \in Prefixes :
       /\ Largest(p)
       /\ cover' = cover \cup {p}
       /\ done' = (p.hi >= hi)
       /\ a' = IF p.hi >= hi THEN a ELSE p.hi + 1
  /\ UNCHANGED <<lo, hi>>

Next == Take

Spec == Init /\ [][Next]_vars
-----------------------------------------------------------------------------
(* What a prefix of the family needs to be in the minimal cover of the range:
   it lies inside, and no larger prefix of the family around it does. *)
Inside(p) == lo <= p.lo /\ p.hi <= hi

Maximal(p) == Inside(p) /\ \A q \in Prefixes : Inside(q) /\ Around(p, q) => q = p

(* Blocks do not overlap, and they fill the range from lo up to a - 1. *)
Tiles ==
  /\ \A p, q \in cover : p # q => p.hi < q.lo \/ q.hi < p.lo
  /\ \A x \in Addr : lo <= x /\ (x < a \/ (done /\ x <= hi)) <=>
                     \E p \in cover : p.lo <= x /\ x <= p.hi

(* "the minimal [...] set of CIDR prefixes that exactly cover it"
   (range.go:40-41): any prefix inside the range lies in one of the maximal
   ones, so no cover has fewer blocks than the set of the maximal ones. *)
MinimalCover == done => cover = {p \in Prefixes : Maximal(p)}

TypeOK ==
  /\ lo \in Addr /\ hi \in Addr /\ done \in BOOLEAN
  /\ cover \subseteq Prefixes /\ a \in Addr
  /\ lo <= a /\ (a <= hi \/ hi < lo)
=============================================================================
