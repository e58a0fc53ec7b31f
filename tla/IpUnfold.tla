------------------------------ MODULE IpUnfold ------------------------------
(***************************************************************************)
(* cmd/ipunfold: each prefix of the input is expanded into its addresses,  *)
(* one write per step, as the lines come in; -count only adds the sizes    *)
(* up, and -max aborts before a prefix that would pass the limit.          *)
(***************************************************************************)
EXTENDS Addresses, Filters

CONSTANTS
  MaxLines,    (* Bound on the lines that hold a prefix.                    *)
  Limits       (* The values of -max tried; 0 is no limit.                  *)

VARIABLES
  pc,          (* "read", "expand", or how the run ended.                   *)
  count, max,  (* The options -count and -max.                              *)
  total,       (* st.total, a big.Int.                                      *)
  x, hi,       (* The address to write next, and the last of its prefix.    *)
  written,     (* The addresses written, in order.                          *)
  taken        (* History: the prefixes that were let through.              *)

vars == <<pc, count, max, total, x, hi, written, taken>>

Init ==
  /\ pc = "read" /\ count \in BOOLEAN /\ max \in Limits
  /\ total = 0 /\ x = 0 /\ hi = 0
  /\ written = <<>> /\ taken = <<>>
-----------------------------------------------------------------------------
prefixSize(p) == 2^(W - p.length)

(* The base with the host bits set (lo|hostMask4, lastV6). *)
last(p) == p.lo + lowMask(W - p.length)

(* Mutant: the limit compared with what is written already. *)
ExceedsLate(p) == max > 0 /\ ~count /\ total > max

(* -max applies to a run that writes. *)
Exceeds(p) == max > 0 /\ ~count /\ total + prefixSize(p) > max

(* One line that holds a prefix of the family asked for. *)
Line(p) ==
  /\ pc = "read"
  /\ Len(taken) < MaxLines
  /\ \/ /\ Exceeds(p)
        /\ pc' = "max"
        /\ UNCHANGED <<total, x, hi, taken>>
     \/ /\ ~Exceeds(p)
        /\ total' = total + prefixSize(p)
        /\ taken' = Append(taken, p)
        /\ \/ count /\ UNCHANGED <<pc, x, hi>>
           \/ ~count /\ pc' = "expand" /\ x' = p.lo /\ hi' = last(p)
  /\ UNCHANGED <<count, max, written>>

(* Mutant: the test at the top of the loop, where x <= hi always holds for the
   last address of the family (its writes left out). *)
WriteTestAtTop ==
  /\ pc = "expand"
  /\ \/ x > hi /\ pc' = "read" /\ UNCHANGED <<x, written>>
     \/ x <= hi /\ x' = (x + 1) % 2^W /\ UNCHANGED <<pc, written>>
  /\ UNCHANGED <<count, max, total, hi, taken>>

(* Mutant: the loop over x < hi, which leaves out the last address. *)
WriteHalfOpen ==
  /\ pc = "expand"
  /\ \/ x >= hi /\ pc' = "read" /\ UNCHANGED <<x, written>>
     \/ x < hi /\ written' = Append(written, x) /\ x' = x + 1 /\ UNCHANGED pc
  /\ UNCHANGED <<count, max, total, hi, taken>>

(* One address.  The uint32 would wrap past the last address of the family,
   and Addr.Next would become invalid; the test for hi comes before it. *)
Write ==
  /\ pc = "expand"
  /\ written' = Append(written, x)
  /\ \/ x = hi /\ pc' = "read" /\ x' = x
     \/ x # hi /\ pc' = "expand" /\ x' = (x + 1) % 2^W
  /\ UNCHANGED <<count, max, total, hi, taken>>

WriteFails ==
  /\ pc = "expand"
  /\ pc' = "failed"
  /\ UNCHANGED <<count, max, total, x, hi, written, taken>>

(* The end of the input, or a failure to read it; both flush. *)
EndOfInput ==
  /\ pc = "read"
  /\ pc' \in {"done", "failed"}
  /\ UNCHANGED <<count, max, total, x, hi, written, taken>>

Next == (\E p \in AllPrefixes : Line(p)) \/ Write \/ WriteFails \/ EndOfInput

Spec == Init /\ [][Next]_vars
-----------------------------------------------------------------------------
(* The addresses of the prefixes let through, in input order. *)
Expansion(ps) ==
  SeqExt!FlattenSeq([i \in 1 .. Len(ps) |-> [j \in 1 .. prefixSize(ps[i]) |-> ps[i].lo + j - 1]])

(* Between two lines, and whenever a run stops other than by a failed write,
   the output is the expansion of the prefixes let through, in input order with
   nothing removed, also of one that ends at the last address of the family
   (main.go:13-14, 106-107, 191-206); -count writes no address. *)
WritesExpansion ==
  pc \in {"read", "max", "done"} => written = IF count THEN <<>> ELSE Expansion(taken)

(* -max holds throughout, and what a run stopped by it reports as already
   written is what it wrote (main.go:145-149). *)
LimitKept ==
  /\ max > 0 => Len(written) <= max
  /\ pc = "max" => total = Len(written)

(* The expansion of a prefix ends. *)
ExpansionEnds == pc = "expand" ~> pc # "expand"
=============================================================================
