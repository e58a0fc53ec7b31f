------------------------------- MODULE IpFold -------------------------------
(***************************************************************************)
(* cmd/ipfold for the addresses of one family: they accumulate in a slice  *)
(* or, for IPv4 and past SwitchAt of them, in a bitmap of words; folding   *)
(* scans either one and emits each run of consecutive addresses as its     *)
(* minimal cover.  Only an IPv6 address may carry a zone.                  *)
(***************************************************************************)
EXTENDS Addresses, Filters

CONSTANTS
  WordBits,    (* Bits of a bitmap word, 2^6 in the code.                   *)
  SwitchAt,    (* v4SwitchAt.                                               *)
  Zones,       (* The zones an address may carry, as numbers; 0 is none.    *)
  MaxGiven     (* Bound on the addresses typed at its own standard input.   *)

VARIABLES
  v4,          (* The family whose addresses are followed.                  *)
  pc,          (* "read", "slice", "bitmap", "done" or "failed".            *)
  slice,       (* v4agg.slice, or a6.                                       *)
  bitmap,      (* v4agg.bitmap: whether it exists, and the bits set.        *)
  at,          (* The index, or bit, the fold has come to.                  *)
  run,         (* The run being grown: [on, lo, hi].                        *)
  emitted,     (* The prefixes written.                                     *)
  given        (* History: the addresses read.                              *)

vars == <<v4, pc, slice, bitmap, at, run, emitted, given>>

NoRun == [on |-> FALSE, lo |-> 0, hi |-> 0, zone |-> 0]

Init ==
  /\ v4 \in BOOLEAN
  /\ pc = "read"
  /\ slice = <<>> /\ bitmap = [made |-> FALSE, bits |-> {}]
  /\ at = 0 /\ run = NoRun
  /\ emitted = <<>> /\ given = <<>>
-----------------------------------------------------------------------------
(* One line that holds an address (the others change only the counters). *)

(* The bit of x in bitmap[x>>6], 1 << (x & 63). *)
Mark(x) == (x.ip \div WordBits) * WordBits + (x.ip % WordBits)

add(x) ==
  \/ /\ bitmap.made
     /\ bitmap' = [bitmap EXCEPT !.bits = @ \cup {Mark(x)}]
     /\ UNCHANGED slice
  \/ /\ ~bitmap.made /\ (~v4 \/ Len(slice) + 1 < SwitchAt)
     /\ slice' = Append(slice, x)
     /\ UNCHANGED bitmap
  \/ /\ ~bitmap.made /\ v4 /\ Len(slice) + 1 >= SwitchAt
     /\ bitmap' = [made |-> TRUE, bits |-> {Mark(y) : y \in SeqExt!ToSet(Append(slice, x))}]
     /\ slice' = <<>>

Read(x) ==
  /\ pc = "read"
  /\ add(x)
  /\ given' = Append(given, x)
  /\ UNCHANGED <<v4, pc, at, run, emitted>>

(* A line longer than the scanner's buffer, or a read error: no output. *)
ReadFails ==
  /\ pc = "read"
  /\ pc' = "failed"
  /\ UNCHANGED <<v4, slice, bitmap, at, run, emitted, given>>

(* Addr.Compare: by address, then by zone. *)
Before(x, y) == x.ip < y.ip \/ (x.ip = y.ip /\ x.zone < y.zone)

Sorted(s) ==
  LET places == 1 .. Len(s)
      order == {d \in places \X places : \/ Before(s[d[1]], s[d[2]])
                                       \/ (s[d[1]] = s[d[2]] /\ d[1] <= d[2])}
  IN [k \in places |-> s[Ordered(places, order)[k]]]

EndOfInput ==
  /\ pc = "read"
  /\ \/ pc' = "bitmap" /\ bitmap.made /\ UNCHANGED slice
     \/ pc' = "slice" /\ ~bitmap.made /\ slice' = Sorted(slice)
  /\ UNCHANGED <<v4, bitmap, at, run, emitted, given>>
-----------------------------------------------------------------------------
(* emitRange: the cover of lo .. hi (module RangeCover) in ascending order.
   netip.PrefixFrom drops the zone of a single address, as the words that
   AppendRangePrefixes works on do. *)
Cover(lo, hi) ==
  LET inside == {p \in AllPrefixes : lo <= p.lo /\ p.hi <= hi}
      maximal == {p \in inside : \A q \in inside : q.lo <= p.lo /\ p.hi <= q.hi => q = p}
  IN Ordered(maximal, {d \in maximal \X maximal : d[1].lo <= d[2].lo})

(* The next address is the last one of the run again, or follows it: Go
   compares addresses with their zones, and Next keeps the zone. *)
Grows(x) ==
  /\ x.zone = run.zone
  /\ x.ip = run.hi \/ (run.hi # TopAddr /\ x.ip = run.hi + 1)

Start(x) == [on |-> TRUE, lo |-> x.ip, hi |-> x.ip, zone |-> x.zone]

(* foldSlice and foldV6: one element of the sorted slice per step; a run that
   does not grow is emitted, and the element starts the next one. *)
FoldSlice ==
  /\ pc = "slice" /\ at < Len(slice)
  /\ LET x == slice[at + 1]
     IN \/ /\ ~run.on
           /\ run' = Start(x) /\ UNCHANGED emitted
        \/ /\ run.on /\ Grows(x)
           /\ run' = [run EXCEPT !.hi = x.ip] /\ UNCHANGED emitted
        \/ /\ run.on /\ ~Grows(x)
           /\ run' = Start(x) /\ emitted' = emitted \o Cover(run.lo, run.hi)
  /\ at' = at + 1
  /\ UNCHANGED <<v4, pc, slice, bitmap, given>>

(* foldBitmap.  A word of zeros, or a bit that is not set, ends the run just
   before it. *)
Ends(x) ==
  /\ run' = NoRun
  /\ emitted' = IF run.on THEN emitted \o Cover(run.lo, x - 1) ELSE emitted

(* Mutant: a full word starts a run of its own. *)
FullRestarts(x) == run' = Start([ip |-> x, zone |-> 0]) /\ UNCHANGED emitted

(* A word of ones, or a bit that is set, extends the run or starts one. *)
Full(x) ==
  /\ run' = IF run.on THEN run ELSE Start([ip |-> x, zone |-> 0])
  /\ UNCHANGED emitted

(* A word of zeros or ones per step, or a bit of one that is mixed. *)
FoldBitmap ==
  LET word == at .. at + WordBits - 1
      aligned == at % WordBits = 0
  IN /\ pc = "bitmap" /\ at < 2^W
     /\ \/ aligned /\ word \cap bitmap.bits = {} /\ Ends(at) /\ at' = at + WordBits
        \/ aligned /\ word \subseteq bitmap.bits /\ Full(at) /\ at' = at + WordBits
        \/ /\ ~aligned \/ (word \cap bitmap.bits # {} /\ ~(word \subseteq bitmap.bits))
           /\ IF at \in bitmap.bits THEN Full(at) ELSE Ends(at)
           /\ at' = at + 1
     /\ UNCHANGED <<v4, pc, slice, bitmap, given>>

(* The run that is open at the end: it reaches the last address in a bitmap. *)
FoldEnd ==
  /\ \/ pc = "slice" /\ at = Len(slice)
     \/ pc = "bitmap" /\ at = 2^W
  /\ pc' = "done"
  /\ emitted' = IF run.on
                THEN emitted \o Cover(run.lo, IF pc = "bitmap" THEN TopAddr ELSE run.hi)
                ELSE emitted
  /\ UNCHANGED <<v4, slice, bitmap, at, run, given>>

(* A failed write ends the output; what was written stays. *)
WriteFails ==
  /\ pc \in {"slice", "bitmap"}
  /\ pc' = "failed"
  /\ UNCHANGED <<v4, slice, bitmap, at, run, emitted, given>>

(* Input from its own standard input: any address of the family. *)
Type ==
  /\ Len(given) < MaxGiven
  /\ \E ip \in Addr, zone \in IF v4 THEN {0} ELSE Zones : Read([ip |-> ip, zone |-> zone])

Fold == FoldSlice \/ FoldBitmap \/ FoldEnd

Next == Type \/ ReadFails \/ EndOfInput \/ Fold \/ WriteFails

Spec == Init /\ [][Next]_vars
-----------------------------------------------------------------------------
Given == {x.ip : x \in SeqExt!ToSet(given)}

(* The prefixes that hold only addresses of s and lie in no larger one that
   does: any set of prefixes that covers s has at least as many. *)
MinimalCover(s) ==
  LET inside == {p \in AllPrefixes : p.lo .. p.hi \subseteq s}
  IN {p \in inside : \A q \in inside : q.lo <= p.lo /\ p.hi <= q.hi => q = p}

Written == SeqExt!ToSet(emitted)

ZoneFree == \A x \in SeqExt!ToSet(given) : x.zone = 0

(* Whether the slice, the bitmap or first one and then the other held the
   input, and however much it repeats: "sorts and de-duplicates them, and folds
   runs of consecutive addresses into the minimal set of CIDR prefixes"
   (main.go:1-4), each written once and in ascending order.  With zones the
   prefixes still cover the input exactly, but a run is broken where the zone
   changes. *)
FoldsMinimal ==
  pc = "done" => /\ UNION {p.lo .. p.hi : p \in Written} = Given
                 /\ ZoneFree => /\ Written = MinimalCover(Given)
                                /\ \A i, j \in DOMAIN emitted : i < j => emitted[i].hi < emitted[j].lo
=============================================================================
