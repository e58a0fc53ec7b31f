----------------------------- MODULE SetBuilder -----------------------------
(***************************************************************************)
(* Builder, Builder.Freeze and Set.Contains of cidr.go, for one address    *)
(* family (b.v4 and b.v6 are two independent copies of this state).        *)
(*                                                                         *)
(* A Go slice is a window on a shared backing array, and mergeRanges sorts *)
(* and compacts the builder's array in place: out := rs[:1] is a window on *)
(* the same memory, and it becomes the Set.  The heap of backing arrays is *)
(* therefore part of the state.  Freeze runs one loop iteration per step   *)
(* and Contains one probe of its binary search per step, so that readers   *)
(* of sets already frozen interleave with a builder still in use.          *)
(***************************************************************************)
EXTENDS Integers, Sequences, FiniteSets

CONSTANTS
  MaxAddr,     (* The last address of the family.                          *)
  Prefixes,    (* What Add may be given: masked prefixes, as intervals.    *)
  Readers,     (* Goroutines that query frozen sets.                       *)
  MaxAdds,     (* Bound on the intervals one builder accumulates.          *)
  MaxSets      (* Bound on the calls of Freeze.                            *)

Addr == 0 .. MaxAddr

(* iprange: a closed interval. *)
IPRange == [lo : Addr, hi : Addr]

ASSUME AddrAssumption == MaxAddr \in Nat
ASSUME PrefixAssumption ==
  \A p \in Prefixes : p.lo \in Addr /\ p.hi \in Addr /\ p.lo <= p.hi
ASSUME BoundAssumption == MaxAdds \in Nat /\ MaxSets \in Nat

(* A backing array: its capacity, and the cells written so far. *)
Array == [cap : Nat, cells : Seq(IPRange)]

VARIABLES
  heap,     (* Backing arrays, [cap, cells]; the builder's slice is all    *)
            (* the cells of the last one.                                  *)
  sets,     (* Frozen sets: a window of len cells on array arr.  want is a *)
            (* history field: what had been added when Freeze returned it. *)
  freeze,   (* Program counter and cursors of a running Freeze.            *)
  reader,   (* Each reader's Contains call.                                *)
  added     (* History: the addresses of every interval added so far.      *)

vars == <<heap, sets, freeze, reader, added>>

-----------------------------------------------------------------------------
(* The builder's array, and what a run of cells covers. *)
Buf == heap[Len(heap)]

Interval(c) == c.lo .. c.hi

Cover(cells, n) == UNION {Interval(cells[i]) : i \in 1 .. n}

Window(s) == heap[s.arr].cells

(* Mutant: the end of the family not recognised, hi+1 wraps to 0. *)
plusOneLessWrapped(hi, x) == (hi + 1) % (MaxAddr + 1) < x

(* hi+1 < x, with hi+1 = +infinity past the last address. *)
plusOneLess(hi, x) == hi # MaxAddr /\ hi + 1 < x

(* Mutant: the guard last.hi.Less(r.hi) dropped. *)
ExtendAlways(last, r) == [lo |-> last.lo, hi |-> r.hi]

(* if last.hi.Less(r.hi) { last.hi = r.hi } *)
Extend(last, r) == [lo |-> last.lo, hi |-> IF last.hi < r.hi THEN r.hi ELSE last.hi]

(* Go's append: in place while the array has room, else into a new array. *)
Grow(cap) == IF cap = 0 THEN 1 ELSE 2 * cap

AppendTo(h, r) ==
  LET buf == h[Len(h)]
      cells == Append(buf.cells, r)
  IN IF Len(buf.cells) < buf.cap
     THEN [h EXCEPT ![Len(h)] = [cap |-> buf.cap, cells |-> cells]]
     ELSE Append(h, [cap |-> Grow(buf.cap), cells |-> cells])

(* Every order slices.SortFunc may leave: it sorts by lo and is not stable. *)
Shuffles(n) == {f \in [1 .. n -> 1 .. n] : \A v \in 1 .. n : \E i \in 1 .. n : f[i] = v}

SortedByLo(cells) ==
  \A i, j \in 1 .. Len(cells) : i < j => cells[i].lo <= cells[j].lo

Reorder(cells, f) == [i \in 1 .. Len(cells) |-> cells[f[i]]]

SetCells(cells) == heap' = [heap EXCEPT ![Len(heap)] = [cap |-> Buf.cap, cells |-> cells]]
-----------------------------------------------------------------------------
Idle == [pc |-> "idle", r |-> 0, w |-> 0]
Asleep == [pc |-> "idle", set |-> 0, a |-> 0, i |-> 0, j |-> 0, ok |-> FALSE]

Init ==
  /\ heap = <<[cap |-> 0, cells |-> <<>>]>>
  /\ sets = <<>>
  /\ freeze = Idle
  /\ reader = [g \in Readers |-> Asleep]
  /\ added = {}

(***************************************************************************)
(* The builder's goroutine.  It calls Add, AddRange and Freeze one at a    *)
(* time: a Builder is not safe for concurrent use.                         *)
(***************************************************************************)
Store(r) ==
  /\ freeze.pc = "idle"
  /\ Len(Buf.cells) < MaxAdds
  /\ heap' = AppendTo(heap, r)
  /\ added' = added \cup Interval(r)
  /\ UNCHANGED <<sets, freeze, reader>>

Add(p) == Store([lo |-> p.lo, hi |-> p.hi])

validRange(lo, hi) == lo <= hi

(* An invalid range is ignored. *)
AddRange(lo, hi) ==
  /\ validRange(lo, hi)
  /\ Store([lo |-> lo, hi |-> hi])

(* mergeRanges returns a slice of the first n cells; Freeze wraps it. *)
Publish(n) ==
  /\ sets' = Append(sets, [arr |-> Len(heap), len |-> n, want |-> added])
  /\ freeze' = Idle

(* Fewer than two intervals: the builder's slice itself is the result. *)
FreezeSmall ==
  /\ freeze.pc = "idle"
  /\ Len(sets) < MaxSets
  /\ Len(Buf.cells) < 2
  /\ Publish(Len(Buf.cells))
  /\ UNCHANGED <<heap, reader, added>>

(* The in-place sort; the loop then starts with out = rs[:1]. *)
FreezeSort ==
  /\ freeze.pc = "idle"
  /\ Len(sets) < MaxSets
  /\ Len(Buf.cells) >= 2
  /\ \E f \in Shuffles(Len(Buf.cells)) :
       /\ SortedByLo(Reorder(Buf.cells, f))
       /\ SetCells(Reorder(Buf.cells, f))
  /\ freeze' = [pc |-> "merge", r |-> 2, w |-> 1]
  /\ UNCHANGED <<sets, reader, added>>

(* One iteration: r is read from the array that out is written to. *)
MergeStep ==
  LET cells == Buf.cells
      last == cells[freeze.w]
      cur == cells[freeze.r]
  IN /\ freeze.pc = "merge"
     /\ freeze.r <= Len(cells)
     /\ \/ /\ plusOneLess(last.hi, cur.lo)
           /\ SetCells([cells EXCEPT ![freeze.w + 1] = cur])
           /\ freeze' = [freeze EXCEPT !.r = @ + 1, !.w = @ + 1]
        \/ /\ ~plusOneLess(last.hi, cur.lo)
           /\ SetCells([cells EXCEPT ![freeze.w] = Extend(last, cur)])
           /\ freeze' = [freeze EXCEPT !.r = @ + 1]
     /\ UNCHANGED <<sets, reader, added>>

(* Mutant: the loop asks for one interval more than there is. *)
FreezeReturnLate ==
  /\ freeze.pc = "merge"
  /\ freeze.r > Len(Buf.cells) + 1
  /\ Publish(freeze.w)
  /\ UNCHANGED <<heap, reader, added>>

FreezeReturn ==
  /\ freeze.pc = "merge"
  /\ freeze.r > Len(Buf.cells)
  /\ Publish(freeze.w)
  /\ UNCHANGED <<heap, reader, added>>

(***************************************************************************)
(* Set.Contains(a): sort.Search for the first interval whose lo is above   *)
(* a, then one comparison with the interval before it.                     *)
(***************************************************************************)
Ask(g, k, a) ==
  /\ reader[g].pc = "idle"
  /\ reader' = [reader EXCEPT ![g] =
                 [pc |-> "search", set |-> k, a |-> a, i |-> 0, j |-> sets[k].len, ok |-> FALSE]]
  /\ UNCHANGED <<heap, sets, freeze, added>>

(* i <= h < j; the predicate at index h (0-based) reads cell h+1. *)
Probe(g) ==
  LET c == reader[g]
      h == (c.i + c.j) \div 2
  IN /\ c.pc = "search"
     /\ c.i < c.j
     /\ reader' = [reader EXCEPT ![g] =
                    IF c.a < Window(sets[c.set])[h + 1].lo
                    THEN [c EXCEPT !.j = h]
                    ELSE [c EXCEPT !.i = h + 1]]
     /\ UNCHANGED <<heap, sets, freeze, added>>

(* Mutant: the last address of the interval excluded. *)
AnswerHalfOpen(g) ==
  LET c == reader[g]
  IN /\ c.pc = "search"
     /\ c.i >= c.j
     /\ reader' = [reader EXCEPT ![g] =
                    [c EXCEPT !.pc = "done",
                              !.ok = c.i # 0 /\ c.a < Window(sets[c.set])[c.i].hi]]
     /\ UNCHANGED <<heap, sets, freeze, added>>

Answer(g) ==
  LET c == reader[g]
  IN /\ c.pc = "search"
     /\ c.i >= c.j
     /\ reader' = [reader EXCEPT ![g] =
                    [c EXCEPT !.pc = "done",
                              !.ok = c.i # 0 /\ ~(Window(sets[c.set])[c.i].hi < c.a)]]
     /\ UNCHANGED <<heap, sets, freeze, added>>

(* The caller takes the answer and may call again. *)
Take(g) ==
  /\ reader[g].pc = "done"
  /\ reader' = [reader EXCEPT ![g] = Asleep]
  /\ UNCHANGED <<heap, sets, freeze, added>>
-----------------------------------------------------------------------------
Adds == (\E p \in Prefixes : Add(p)) \/ (\E lo, hi \in Addr : AddRange(lo, hi))

Freezes == FreezeSmall \/ FreezeSort

Merging == MergeStep \/ FreezeReturn

Query(g) == Probe(g) \/ Answer(g) \/ Take(g)

Reading(g) == (\E k \in DOMAIN sets, a \in Addr : Ask(g, k, a)) \/ Query(g)

(* Any caller of the exported methods. *)
Next == Adds \/ Freezes \/ Merging \/ \E g \in Readers : Reading(g)

Spec == Init /\ [][Next]_vars

(* The documented use: every Add before the one Freeze, then only queries. *)
BuildOnce == sets = <<>> /\ (Adds \/ Freezes)

OnceNext == BuildOnce \/ Merging \/ \E g \in Readers : Reading(g)

(* Each goroutine that is inside a call keeps running. *)
Fairness == WF_vars(Merging) /\ \A g \in Readers : WF_vars(Query(g))

OnceSpec == Init /\ [][OnceNext]_vars

FairOnceSpec == OnceSpec /\ Fairness
-----------------------------------------------------------------------------
TypeOK ==
  /\ heap # <<>>
  /\ heap \in Seq(Array)
  /\ \A k \in 1 .. Len(heap) : Len(heap[k].cells) <= heap[k].cap
  /\ sets \in Seq([arr : Nat, len : Nat, want : SUBSET Addr])
  /\ \A k \in 1 .. Len(sets) : sets[k].arr \in 1 .. Len(heap)
  /\ \A k \in 1 .. Len(sets) : sets[k].len <= Len(heap[sets[k].arr].cells)
  /\ freeze \in [pc : {"idle", "merge"}, r : Nat, w : Nat]
  /\ reader \in [Readers -> [pc : {"idle", "search", "done"}, set : Nat, a : Addr,
                             i : Nat, j : Nat, ok : BOOLEAN]]
  /\ added \in SUBSET Addr

(* Sorted, disjoint and with a gap between neighbours: what Contains' single
   candidate and Len's "disjoint intervals" rely on (cidr.go:108, 168-170). *)
Separated(cells, n) ==
  /\ \A i \in 1 .. n : cells[i].lo <= cells[i].hi
  /\ \A i, j \in 1 .. n : i < j => cells[i].hi + 1 < cells[j].lo

(* Nothing added is ever lost from the builder, and nothing appears in it:
   the in-place merge overwrites only cells whose addresses out already
   covers (mergeRanges, Builder.Add, Builder.AddRange). *)
BuilderExact == Cover(Buf.cells, Len(Buf.cells)) = added

(* Every set answers for exactly the addresses added before its Freeze, from
   disjoint intervals, for as long as it lives (Set, "immutable"). *)
SetsExact ==
  \A k \in 1 .. Len(sets) :
    /\ Separated(Window(sets[k]), sets[k].len)
    /\ Cover(Window(sets[k]), sets[k].len) = sets[k].want

(* "Freeze compiles the accumulated prefixes into an immutable Set"
   (cidr.go:145): once no Freeze is running, a set still covers all that was
   added before it was frozen.  Only callers that follow OnceSpec have it. *)
SetsKeepMembers ==
  freeze.pc = "idle" =>
    \A k \in 1 .. Len(sets) : sets[k].want \subseteq Cover(Window(sets[k]), sets[k].len)

(* Whatever the builder went through before, the set Freeze returns is
   exactly the union of all that was added so far (Builder.Freeze). *)
FreezeExact ==
  [][Len(sets') > Len(sets) =>
       LET s == sets'[Len(sets')]
           cells == heap'[s.arr].cells
       IN Separated(cells, s.len) /\ Cover(cells, s.len) = added]_vars

(* Contains answers membership in the added prefixes (cidr.go:150). *)
AnswersExact ==
  \A g \in Readers :
    reader[g].pc = "done" => (reader[g].ok <=> reader[g].a \in sets[reader[g].set].want)

(***************************************************************************)
(* The loop invariants.  While mergeRanges runs, the write cursor is       *)
(* behind the read cursor, out is separated, what is still to be read is   *)
(* sorted and starts at or past the last interval of out, and every cell   *)
(* already read lies inside one interval of out, so that overwriting it    *)
(* loses nothing.  While Contains searches, index i is the end of the      *)
(* intervals known to start at or below a, j the start of those above.     *)
(***************************************************************************)
MergeProgress(cells, r, w) ==
  /\ w \in 1 .. Len(cells) /\ r \in 2 .. Len(cells) + 1 /\ w < r
  /\ Separated(cells, w)
  /\ \A i, j \in r .. Len(cells) : i < j => cells[i].lo <= cells[j].lo
  /\ \A j \in r .. Len(cells) : cells[w].lo <= cells[j].lo
  /\ \A i \in 1 .. r - 1 : \E j \in 1 .. w :
       cells[j].lo <= cells[i].lo /\ cells[i].hi <= cells[j].hi

MergeInvariant == freeze.pc = "merge" => MergeProgress(Buf.cells, freeze.r, freeze.w)

SearchInvariant ==
  \A g \in Readers : LET c == reader[g] IN
    /\ c.pc # "idle" => c.set \in 1 .. Len(sets) /\ c.a \in Addr
    /\ c.pc = "search" =>
         /\ c.i <= c.j /\ c.j <= sets[c.set].len
         /\ \A m \in 1 .. c.i : Window(sets[c.set])[m].lo <= c.a
         /\ \A m \in c.j + 1 .. sets[c.set].len : c.a < Window(sets[c.set])[m].lo

(* The abstract reading of the state: the builder and each set stand for the
   addresses their cells cover now, a call for its question and answer. *)
CallOf(c) ==
  [pc |-> CASE c.pc = "idle" -> "none" [] c.pc = "search" -> "asked" [] c.pc = "done" -> "answered",
   set |-> c.set, a |-> c.a, ok |-> c.ok]

Abstract == INSTANCE Membership WITH
  building <- Cover(Buf.cells, Len(Buf.cells)),
  frozen <- [k \in 1 .. Len(sets) |-> Cover(Window(sets[k]), sets[k].len)],
  call <- [g \in Readers |-> CallOf(reader[g])]

(* In the documented use, Builder, Freeze and Contains implement a growing
   set of addresses, immutable copies of it, and exact answers: sorting and
   merging in place and probing are invisible. *)
ImplementsMembership == Abstract!Spec

(* A running Freeze returns, and a running Contains answers. *)
CallsReturn ==
  /\ freeze.pc = "merge" ~> freeze.pc = "idle"
  /\ \A g \in Readers : reader[g].pc = "search" ~> reader[g].pc = "done"
=============================================================================
