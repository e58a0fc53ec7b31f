----------------------------- MODULE TableSweep -----------------------------
(***************************************************************************)
(* TableBuilder, its Freeze (dedup and the line sweep) and Table.Lookup of *)
(* table.go, with TableBuilder.AddRange of range.go, for one family.       *)
(*                                                                         *)
(* Freeze opens and closes every prefix once, one event per step.  The     *)
(* events are sorted by coordinate only and sort.Slice is not stable, and  *)
(* dedup lists its map in random order, so that events at one coordinate   *)
(* come in any order.  Unlike mergeRanges, nothing here writes to the      *)
(* builder's slices: the builder may go on after a Freeze.                 *)
(***************************************************************************)
EXTENDS PrefixFamily, Sequences, FiniteSetsExt

CONSTANTS
  MaxLength,   (* The longest mask; a prefix is [lo, hi, length].          *)
  MaxAdds,     (* Bound on the prefixes one builder accumulates.           *)
  MaxTables    (* Bound on the calls of Freeze.                            *)

Lengths == 0 .. MaxLength

ASSUME BoundAssumption == MaxAdds \in Nat \ {0}

ASSUME MaskAssumption ==
  /\ MaxLength \in Nat /\ \A p \in Prefixes : p.length \in Lengths
  /\ \A p, q \in Prefixes : Around(p, q) /\ p # q => q.length < p.length

VARIABLES
  v,        (* The builder's prefixes, in the order they were added.       *)
  vals,     (* The builder's values: vals[vi + 1] belongs to index vi.     *)
  tables,   (* Frozen tables.  n is a history field: Len(v) at the Freeze. *)
  sweep     (* The state of a running Freeze.                              *)

vars == <<v, vals, tables, sweep>>

(* Each call brings a value of its own, so that every mix-up shows. *)
Fresh == IF vals = <<>> THEN 1 ELSE vals[Len(vals)] + 1

Infinity == MaxAddr + 1

Quiet == [pc |-> "idle", evs |-> {}, at |-> 0,
          count |-> [l \in Lengths |-> 0], valBy |-> [l \in Lengths |-> 0], out |-> <<>>]

Init == v = <<>> /\ vals = <<>> /\ tables = <<>> /\ sweep = Quiet
-----------------------------------------------------------------------------
Entry(p, vi) == [lo |-> p.lo, hi |-> p.hi, length |-> p.length, vi |-> vi]

Add(p) ==
  /\ sweep.pc = "idle"
  /\ Len(v) < MaxAdds
  /\ v' = Append(v, Entry(p, Len(vals)))
  /\ vals' = Append(vals, Fresh)
  /\ UNCHANGED <<tables, sweep>>

(* The minimal cover of lo .. hi in ascending order (module RangeCover): one
   sequence, as the prefixes are disjoint. *)
RangePrefixes(lo, hi) ==
  LET cover == MaximalInside(lo, hi)
  IN {ps \in [1 .. Cardinality(cover) -> cover] : \A i, j \in DOMAIN ps : i < j => ps[i].lo < ps[j].lo}

(* Add for every prefix of the cover, each carrying the same value; an empty
   range (hi < lo) adds none. *)
AddRange(lo, hi) ==
  \E ps \in RangePrefixes(lo, hi) :
    /\ sweep.pc = "idle"
    /\ Len(v) + Len(ps) <= MaxAdds
    /\ v' = v \o [i \in 1 .. Len(ps) |-> Entry(ps[i], Len(vals) + i - 1)]
    /\ vals' = vals \o [i \in 1 .. Len(ps) |-> Fresh]
    /\ UNCHANGED <<tables, sweep>>

(* Mutant: the first added kept. *)
dedupFirst(entries) ==
  {p \in entries : \A q \in entries : q.lo = p.lo /\ q.hi = p.hi => q.vi >= p.vi}

(* Of the entries with the same network and length, the last added. *)
dedup(entries) ==
  {p \in entries : \A q \in entries : q.lo = p.lo /\ q.hi = p.hi => q.vi <= p.vi}

(* Open at lo, close just past hi. *)
Past(p) == IF p.hi = MaxAddr THEN Infinity ELSE p.hi + 1

Open(p) == [at |-> p.lo, open |-> TRUE, length |-> p.length, vi |-> p.vi]
Close(p) == [at |-> Past(p), open |-> FALSE, length |-> p.length, vi |-> p.vi]

Events(ps) == {Open(p) : p \in ps} \cup {Close(p) : p \in ps}

Publish(segs) ==
  /\ tables' = Append(tables, [segs |-> segs, vals |-> vals, n |-> Len(v)])
  /\ sweep' = Quiet
  /\ UNCHANGED <<v, vals>>

(* sweep of nothing is nil; otherwise its loop starts. *)
Freeze ==
  /\ sweep.pc = "idle"
  /\ Len(tables) < MaxTables
  /\ \/ /\ v = <<>>
        /\ Publish(<<>>)
     \/ /\ v # <<>>
        /\ sweep' = [Quiet EXCEPT !.pc = "events", !.evs = Events(dedup({v[i] : i \in 1 .. Len(v)}))]
        /\ UNCHANGED <<v, vals, tables>>

(* Mutant: every event taken for the last of its coordinate. *)
EventUngrouped(e) ==
  /\ sweep.pc = "events"
  /\ \A f \in sweep.evs : e.at <= f.at
  /\ sweep' = [sweep EXCEPT
       !.pc = "boundary",
       !.evs = @ \ {e},
       !.at = e.at,
       !.count[e.length] = @ + IF e.open THEN 1 ELSE -1,
       !.valBy[e.length] = IF e.open THEN e.vi ELSE @]
  /\ UNCHANGED <<v, vals, tables>>

(* One event of the lowest coordinate left. *)
Event(e) ==
  LET rest == sweep.evs \ {e}
      delta == IF e.open THEN 1 ELSE -1
  IN /\ sweep.pc = "events"
     /\ \A f \in sweep.evs : e.at <= f.at
     /\ sweep' = [sweep EXCEPT
          !.pc = IF \E f \in rest : f.at = e.at THEN "events" ELSE "boundary",
          !.evs = rest,
          !.at = e.at,
          !.count[e.length] = @ + delta,
          !.valBy[e.length] = IF e.open THEN e.vi ELSE @]
     /\ UNCHANGED <<v, vals, tables>>

(* The longest active prefix, or -1 for a gap. *)
Winner ==
  LET active == {l \in Lengths : sweep.count[l] > 0}
  IN IF active = {} THEN -1 ELSE sweep.valBy[Max(active)]

(* Extend the previous segment, or start a new one. *)
Emit(out, start, vi) ==
  IF out # <<>> /\ out[Len(out)].vi = vi THEN out ELSE Append(out, [start |-> start, vi |-> vi])

(* Mutant: the loop ends at +infinity only. *)
BoundaryInfOnly ==
  LET out == Emit(sweep.out, sweep.at, Winner)
  IN /\ sweep.pc = "boundary"
     /\ \/ sweep.at = Infinity /\ Publish(sweep.out)
        \/ /\ sweep.at # Infinity /\ sweep.evs # {}
           /\ sweep' = [sweep EXCEPT !.pc = "events", !.out = out]
           /\ UNCHANGED <<v, vals, tables>>

(* After the last event of a coordinate; past the address space the loop
   breaks, and past the last event it ends. *)
Boundary ==
  LET out == Emit(sweep.out, sweep.at, Winner)
  IN /\ sweep.pc = "boundary"
     /\ \/ sweep.at = Infinity /\ Publish(sweep.out)
        \/ sweep.at # Infinity /\ sweep.evs = {} /\ Publish(out)
        \/ /\ sweep.at # Infinity /\ sweep.evs # {}
           /\ sweep' = [sweep EXCEPT !.pc = "events", !.out = out]
           /\ UNCHANGED <<v, vals, tables>>

Next ==
  \/ \E p \in Prefixes : Add(p)
  \/ \E lo, hi \in Addr : AddRange(lo, hi)
  \/ Freeze
  \/ \E e \in sweep.evs : Event(e)
  \/ Boundary

Spec == Init /\ [][Next]_vars

FairSpec == Spec /\ WF_vars(Boundary \/ \E e \in sweep.evs : Event(e))
-----------------------------------------------------------------------------
(* sort.Search, as its contract has it: how many segments come before the first
   one that starts above a.  It needs the starts in ascending order, which is
   part of SweepInvariant. *)
Search(segs, a) == Min({i \in 0 .. Len(segs) : i = Len(segs) \/ a < segs[i + 1].start})

None == 0

(* The value, or None where Go returns the zero value and false. *)
Lookup(t, a) ==
  LET i == Search(t.segs, a)
  IN IF i = 0 \/ t.segs[i].vi < 0 THEN None ELSE t.vals[t.segs[i].vi + 1]
-----------------------------------------------------------------------------
(* What the code is to compute: the last added of the longest prefixes that
   hold a, among the first n added. *)
LongestMatch(n, a) ==
  LET holds == {i \in 1 .. n : v[i].lo <= a /\ a <= v[i].hi}
      longest == {i \in holds : \A j \in holds : v[j].length <= v[i].length}
  IN IF holds = {} THEN None ELSE vals[Max(longest)]

TypeOK ==
  /\ v \in Seq([lo : Addr, hi : Addr, length : Lengths, vi : 0 .. MaxAdds - 1])
  /\ Len(vals) = Len(v) /\ vals \in Seq(1 .. MaxAdds)
  /\ \A k \in 1 .. Len(tables) :
       /\ tables[k].segs \in Seq([start : Addr, vi : -1 .. Len(tables[k].vals) - 1])
       /\ tables[k].n \in 0 .. Len(v)
  /\ sweep.pc \in {"idle", "events", "boundary"} /\ sweep.at \in 0 .. Infinity
  /\ sweep.count \in [Lengths -> Int] /\ sweep.valBy \in [Lengths -> 0 .. MaxAdds - 1]

(* Every table answers with the longest match, and the last added value of a
   duplicate prefix, of what was added before its Freeze (table.go:8-10,
   43-45, 171-172), whatever order the events of one coordinate came in, and
   still does so while the builder is used further ("immutable"). *)
TablesExact ==
  \A k \in 1 .. Len(tables) : \A a \in Addr :
    Lookup(tables[k], a) = LongestMatch(tables[k].n, a)

(* What the sweep keeps besides its types: at every boundary, count and valBy
   describe the prefixes active there, at most one of each length, although
   closing and opening events of the same length meet at one coordinate in any
   order (table.go:137-151); and the segments of every table ascend, as the
   binary search of Lookup needs. *)
SweepInvariant ==
  /\ TypeOK
  /\ sweep.pc = "boundary" => \A l \in Lengths :
       LET active == {p \in dedup({v[i] : i \in 1 .. Len(v)}) :
                        p.length = l /\ p.lo <= sweep.at /\ sweep.at <= p.hi}
       IN /\ sweep.count[l] = Cardinality(active)
          /\ \A p \in active : sweep.valBy[l] = p.vi
          /\ sweep.count[l] <= 1
  /\ \A k \in 1 .. Len(tables) : \A i, j \in 1 .. Len(tables[k].segs) :
       i < j => tables[k].segs[i].start < tables[k].segs[j].start

(* The addresses the call with value x gave to the first n prefixes. *)
Given(n, x) == UNION {v[i].lo .. v[i].hi : i \in {j \in 1 .. n : vals[j] = x}}

(* A range added after one that covers it decides every address of its own:
   its pieces are at least as long as those around them, and win the ties. *)
LaterNestedRangeWins ==
  \A k \in 1 .. Len(tables) : \A x, y \in 1 .. MaxAdds :
    LET n == tables[k].n
    IN x < y /\ Given(n, y) \subseteq Given(n, x) =>
         \A a \in Given(n, y) : Lookup(tables[k], a) # x

(* A running Freeze returns. *)
FreezeReturns == sweep.pc # "idle" ~> sweep.pc = "idle"
=============================================================================
