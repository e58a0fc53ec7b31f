---------------------------- MODULE PrefixFamily ----------------------------
(***************************************************************************)
(* The prefixes of one address family, as closed intervals: any set of     *)
(* intervals that are nested or disjoint and include every single address. *)
(* A prefix may have more fields than lo and hi, which decide them.        *)
(***************************************************************************)
EXTENDS Integers

CONSTANTS
  MaxAddr,    (* The last address of the family.                    *)
  Prefixes    (* Its prefixes, with their ends in the fields lo, hi. *)

Addr == 0 .. MaxAddr

ASSUME AddrAssumption == MaxAddr \in Nat
ASSUME PrefixAssumption == \A p \in Prefixes : p.lo \in Addr /\ p.hi \in Addr /\ p.lo <= p.hi
ASSUME EndsAssumption == \A p, q \in Prefixes : p.lo = q.lo /\ p.hi = q.hi => p = q
ASSUME HostAssumption == \A a \in Addr : \E p \in Prefixes : p.lo = a /\ p.hi = a
ASSUME NestingAssumption ==
  \A p, q \in Prefixes : \/ p.hi < q.lo \/ q.hi < p.lo
                         \/ p.lo <= q.lo /\ q.hi <= p.hi
                         \/ q.lo <= p.lo /\ p.hi <= q.hi

Around(p, q) == q.lo <= p.lo /\ p.hi <= q.hi

(* The prefixes inside lo .. hi that no larger one inside it is around: what
   RangePrefixes of range.go returns for the range (module RangeSplit). *)
MaximalInside(lo, hi) ==
  LET inside == {p \in Prefixes : lo <= p.lo /\ p.hi <= hi}
  IN {p \in inside : \A q \in inside : Around(p, q) => q = p}
=============================================================================
