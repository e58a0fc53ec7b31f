----------------------------- MODULE RangeCover -----------------------------
(***************************************************************************)
(* AppendRangePrefixes of range.go on u128, its unsigned integer of two    *)
(* machine words.  A word has L bits here (64 in the code), an IPv6        *)
(* address 2L bits, and an IPv4 address W4 bits of the low word (32).      *)
(***************************************************************************)
EXTENDS Integers, Sequences

CONSTANTS
  L,        (* Bits of a machine word.                           *)
  W4        (* Bits of an IPv4 address.                          *)

ASSUME WordAssumption == L \in Nat /\ W4 \in 1 .. L

(* Arithmetic the proofs need of powers of two. *)
ASSUME PowerAssumption ==
  /\ 2^0 = 1 /\ 2^1 = 2
  /\ \A j \in 0 .. 2 * L : 2^j \in Nat \ {0} /\ \A k \in 0 .. j : 2^j = 2^k * 2^(j - k)

VARIABLES
  v4,       (* The family of the range.                                  *)
  lo, hi,   (* The arguments, as addresses.                              *)
  dst,      (* The prefixes appended: base and mask length.              *)
  a,        (* The low end of what is left, in two words.                *)
  pc        (* "split" inside the loop, "done" after it.                 *)

vars == <<v4, lo, hi, dst, a, pc>>

Width == IF v4 THEN W4 ELSE 2 * L

Addr == 0 .. 2^Width - 1

Word == 0 .. 2^L - 1
u128 == [hi : Word, lo : Word]

U(h, l) == [hi |-> h, lo |-> l]

(* to4, to16 and u128From4, u128From16: an address and its two words. *)
to(u) == (u.hi * 2^L + u.lo) % 2^Width
From(x) == U(x \div 2^L, x % 2^L)
-----------------------------------------------------------------------------
(* The words of or: bit by bit. *)
Bit(w, i) == (w \div 2^i) % 2
wordOr(x, y) == CHOOSE w \in Word : \A i \in 0 .. L - 1 : Bit(w, i) = 1 <=> Bit(x, i) = 1 \/ Bit(y, i) = 1

or(x, y) == U(wordOr(x.hi, y.hi), wordOr(x.lo, y.lo))

(* Mutant: the carry between the words lost. *)
addNoCarry(x, y) == U((x.hi + y.hi) % 2^L, (x.lo + y.lo) % 2^L)

(* bits.Add64 and bits.Sub64: the word wraps, the carry goes up. *)
add(x, y) ==
  LET carry == IF x.lo + y.lo >= 2^L THEN 1 ELSE 0
  IN U((x.hi + y.hi + carry) % 2^L, (x.lo + y.lo) % 2^L)

sub(x, y) ==
  LET borrow == IF x.lo < y.lo THEN 1 ELSE 0
  IN U((x.hi - y.hi - borrow) % 2^L, (x.lo - y.lo) % 2^L)

(* cmp(x, y) < 0 *)
less(x, y) == x.hi < y.hi \/ (x.hi = y.hi /\ x.lo < y.lo)

TrailingZeros64(w) == CHOOSE k \in 0 .. L : w % 2^k = 0 /\ (k = L \/ w % 2^(k + 1) # 0)

(* The index of the highest bit set, L - 1 - LeadingZeros64(w), for w # 0. *)
TopBit(w) == CHOOSE k \in 0 .. L - 1 : 2^k <= w /\ w < 2^(k + 1)

trailingZeros(x) ==
  CASE x.lo # 0 -> TrailingZeros64(x.lo)
    [] x.lo = 0 /\ x.hi # 0 -> L + TrailingZeros64(x.hi)
    [] x.lo = 0 /\ x.hi = 0 -> 2 * L

highBit(x) ==
  CASE x.hi # 0 -> L + TopBit(x.hi)
    [] x.hi = 0 /\ x.lo # 0 -> TopBit(x.lo)
    [] x.hi = 0 /\ x.lo = 0 -> -1

(* A shift by the word size or more is zero in Go, hence the cases. *)
lowMask(k) ==
  CASE k <= 0 -> U(0, 0)
    [] 0 < k /\ k < L -> U(0, 2^k - 1)
    [] k = L -> U(0, 2^L - 1)
    [] L < k /\ k < 2 * L -> U(2^(k - L) - 1, 2^L - 1)
    [] k >= 2 * L -> U(2^L - 1, 2^L - 1)
-----------------------------------------------------------------------------
(* A range with hi < lo returns before the loop, with nothing appended. *)
Init ==
  /\ v4 \in BOOLEAN
  /\ lo \in Addr /\ hi \in Addr
  /\ dst = <<>>
  /\ a = From(lo)
  /\ pc = IF hi < lo THEN "done" ELSE "split"

(* The block size of an iteration: by alignment, and by what is left. *)
AlignK == IF trailingZeros(a) > Width THEN Width ELSE trailingZeros(a)

(* Mutant: 2^fitK compared with b - a instead of b - a + 1. *)
FitKNoPlusOne ==
  LET d == sub(From(hi), a)
  IN IF d = lowMask(Width) THEN Width ELSE IF d = U(0, 0) THEN 0 ELSE highBit(d)

FitK ==
  LET d == sub(From(hi), a)
  IN IF d = lowMask(Width) THEN Width ELSE highBit(add(d, U(0, 1)))

BlockK == IF FitK < AlignK THEN FitK ELSE AlignK

Iterate ==
  LET blockLast == or(a, lowMask(BlockK))
  IN /\ pc = "split"
     /\ dst' = Append(dst, [base |-> to(a), bits |-> Width - BlockK])
     /\ \/ /\ ~less(blockLast, From(hi))
           /\ pc' = "done" /\ a' = a
        \/ /\ less(blockLast, From(hi))
           /\ pc' = pc /\ a' = add(blockLast, U(0, 1))
     /\ UNCHANGED <<v4, lo, hi>>

Next == Iterate

Spec == Init /\ [][Next]_vars
-----------------------------------------------------------------------------
TypeOK ==
  /\ lo \in Addr /\ hi \in Addr /\ a \in u128 /\ pc \in {"split", "done"}
  /\ dst \in Seq([base : Addr, bits : 0 .. Width])

(* A prefix as an interval, by its meaning (netip masks nothing here: a base
   with host bits would make the prefix cover other addresses). *)
End(p) == p.base + 2^(Width - p.bits) - 1

(* The two families side by side: an IPv6 address comes after those of IPv4. *)
Lift(x) == IF v4 THEN x ELSE 2^W4 + x

(* The prefixes of a family of w bits: the multiples of each size. *)
FamilyPrefixes(w, from) ==
  UNION {{[lo |-> from + k * 2^n, hi |-> from + (k + 1) * 2^n - 1] : k \in 0 .. 2^(w - n) - 1} : n \in 0 .. w}

Split == INSTANCE RangeSplit WITH
  MaxAddr <- 2^W4 + 2^(2 * L) - 1,
  Prefixes <- FamilyPrefixes(W4, 0) \cup FamilyPrefixes(2 * L, 2^W4),
  lo <- Lift(lo),
  hi <- Lift(hi),
  cover <- {[lo |-> Lift(dst[i].base), hi |-> Lift(End(dst[i]))] : i \in 1 .. Len(dst)},
  a <- Lift(to(a)),
  done <- pc = "done"

(* The loop computes the greedy split over plain integers, in either family:
   neither a carry between the words nor the end of the family shows.  Each
   block moves the cursor up or is the last one, so the loop ends, at the last
   address too (range.go:75, 89: "avoids the +1 overflow"). *)
ImplementsSplit == Split!Spec

(* The cover is "the minimal, ordered set of CIDR prefixes that exactly cover"
   the range (range.go:40-41): valid ones, the maximal prefixes inside it,
   ascending, and never more than 2 * Width - 2 (one in a family of one bit). *)
Minimal ==
  /\ TypeOK
  /\ \A i \in 1 .. Len(dst) : dst[i].bits <= Width
  /\ Split!MinimalCover
  /\ \A i \in 2 .. Len(dst) : dst[i].base = End(dst[i - 1]) + 1
  /\ Len(dst) <= IF Width = 1 THEN 1 ELSE 2 * Width - 2
=============================================================================
