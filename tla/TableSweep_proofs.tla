-------------------------- MODULE TableSweep_proofs --------------------------
(***************************************************************************)
(* Proofs about the table, for every family of nested prefixes: whatever   *)
(* is added in whatever order, and whatever order the events of one        *)
(* coordinate come in, a lookup answers the longest match; and about the   *)
(* split of a range into prefixes, which adds the most of them.            *)
(***************************************************************************)
EXTENDS TableSweep, DataLemmas, FiniteSetTheorems

-----------------------------------------------------------------------------
EntrySet == [lo : Addr, hi : Addr, length : Lengths, vi : 0 .. MaxAdds - 1]

(* An entry is a prefix with its position. *)
Entries ==
  /\ v \in Seq(EntrySet) /\ Len(v) <= MaxAdds
  /\ \A i \in 1 .. Len(v) :
       /\ v[i].vi = i - 1
       /\ \E p \in Prefixes : p.lo = v[i].lo /\ p.hi = v[i].hi /\ p.length = v[i].length
  /\ vals \in Seq(1 .. MaxAdds) /\ Len(vals) = Len(v)
  /\ \A i \in 1 .. Len(vals) : vals[i] <= i

Kept == dedup({v[i] : i \in 1 .. Len(v)})

Holds(p, a) == p.lo <= a /\ a <= p.hi

(* Entries of one length that share an address have the same ends. *)
LEMMA SameLength ==
  ASSUME Entries, NEW i \in 1 .. Len(v), NEW j \in 1 .. Len(v), NEW a \in Addr,
         Holds(v[i], a), Holds(v[j], a), v[i].length = v[j].length
  PROVE  v[i].lo = v[j].lo /\ v[i].hi = v[j].hi
<1>1. PICK p \in Prefixes : p.lo = v[i].lo /\ p.hi = v[i].hi /\ p.length = v[i].length
  BY DEF Entries
<1>2. PICK q \in Prefixes : q.lo = v[j].lo /\ q.hi = v[j].hi /\ q.length = v[j].length
  BY DEF Entries
<1>3. p.lo \in Addr /\ p.hi \in Addr /\ q.lo \in Addr /\ q.hi \in Addr
  BY PrefixAssumption
<1>4. Around(p, q) \/ Around(q, p)
  BY <1>1, <1>2, <1>3, NestingAssumption, AddrAssumption, SMTT(30) DEF Holds, Around, Addr
<1>5. p.length \in Int /\ q.length \in Int
  BY MaskAssumption DEF Lengths
<1>6. p = q
  BY <1>1, <1>2, <1>4, <1>5, MaskAssumption
<1> QED
  BY <1>1, <1>2, <1>6

(* The same for entries with the same ends and any length. *)
LEMMA SameEnds ==
  ASSUME Entries, NEW i \in 1 .. Len(v), NEW j \in 1 .. Len(v), v[i].lo = v[j].lo, v[i].hi = v[j].hi
  PROVE  v[i].length = v[j].length
<1>1. PICK p \in Prefixes : p.lo = v[i].lo /\ p.hi = v[i].hi /\ p.length = v[i].length
  BY DEF Entries
<1>2. PICK q \in Prefixes : q.lo = v[j].lo /\ q.hi = v[j].hi /\ q.length = v[j].length
  BY DEF Entries
<1> QED
  BY <1>1, <1>2, EndsAssumption

LEMMA KeptFacts ==
  ASSUME Entries
  PROVE  /\ \A p \in Kept : /\ p \in EntrySet /\ p.lo <= p.hi
                            /\ p.vi + 1 \in 1 .. Len(v) /\ p = v[p.vi + 1]
         /\ \A p \in Kept : \A j \in 1 .. Len(v) : v[j].lo = p.lo /\ v[j].hi = p.hi => j <= p.vi + 1
         /\ \A p, q \in Kept : p.vi = q.vi => p = q
<1>1. \A p \in Kept : \E i \in 1 .. Len(v) : p = v[i]
  BY DEF Kept, dedup
<1>2. \A i \in 1 .. Len(v) : v[i] \in EntrySet /\ v[i].vi = i - 1 /\ v[i].lo <= v[i].hi
  BY PrefixAssumption DEF Entries
<1>3. Len(v) \in Nat
  BY DEF Entries
<1>4. \A p \in Kept : p \in EntrySet /\ p.lo <= p.hi /\ p.vi + 1 \in 1 .. Len(v) /\ p = v[p.vi + 1]
  <2> SUFFICES ASSUME NEW p \in Kept
               PROVE  p \in EntrySet /\ p.lo <= p.hi /\ p.vi + 1 \in 1 .. Len(v) /\ p = v[p.vi + 1]
    OBVIOUS
  <2>1. PICK i \in 1 .. Len(v) : p = v[i]
    BY <1>1
  <2>2. p.vi = i - 1 /\ p.vi + 1 = i
    BY <1>2, <1>3, <2>1
  <2> QED
    BY <1>2, <2>1, <2>2
<1>5. \A p \in Kept : \A j \in 1 .. Len(v) : v[j].lo = p.lo /\ v[j].hi = p.hi => j <= p.vi + 1
  <2> SUFFICES ASSUME NEW p \in Kept, NEW j \in 1 .. Len(v), v[j].lo = p.lo, v[j].hi = p.hi
               PROVE  j <= p.vi + 1
    OBVIOUS
  <2>1. v[j].vi <= p.vi
    BY DEF Kept, dedup
  <2> QED
    BY <1>2, <1>3, <1>4, <2>1
<1> QED
  BY <1>4, <1>5

(* Of the entries with the same ends the last is kept. *)
LEMMA KeptOf ==
  ASSUME Entries, NEW j \in 1 .. Len(v)
  PROVE  \E p \in Kept : p.lo = v[j].lo /\ p.hi = v[j].hi /\ p.length = v[j].length
<1> DEFINE same == {i \in 1 .. Len(v) : v[i].lo = v[j].lo /\ v[i].hi = v[j].hi}
<1>1. Len(v) \in Nat /\ \A i \in 1 .. Len(v) : v[i].vi = i - 1
  BY DEF Entries
<1>2. same \in SUBSET (0 .. Len(v)) /\ same # {}
  BY <1>1
<1>3. PICK m \in same : \A i \in same : m >= i
  <2> HIDE DEF same
  <2> QED
    BY <1>1, <1>2, GreatestExists
<1>4. v[m] \in Kept
  <2> SUFFICES ASSUME NEW i \in 1 .. Len(v), v[i].lo = v[m].lo, v[i].hi = v[m].hi
               PROVE  v[i].vi <= v[m].vi
    BY DEF Kept, dedup
  <2>1. i \in same
    OBVIOUS
  <2> QED
    BY <1>1, <1>3, <2>1
<1>5. v[m].length = v[j].length
  BY SameEnds
<1> QED
  BY <1>3, <1>4, <1>5

(* Two kept entries of one length share no address. *)
LEMMA KeptApart ==
  ASSUME Entries, NEW p \in Kept, NEW q \in Kept, p.length = q.length, NEW a \in Addr, Holds(p, a), Holds(q, a)
  PROVE  p = q
<1> DEFINE i == p.vi + 1
<1> DEFINE j == q.vi + 1
<1>1. i \in 1 .. Len(v) /\ p = v[i] /\ j \in 1 .. Len(v) /\ q = v[j]
  BY KeptFacts
<1>2. v[i].lo = v[j].lo /\ v[i].hi = v[j].hi
  <2> HIDE DEF i, j
  <2> QED
    BY <1>1, SameLength
<1>3. j <= i /\ i <= j
  BY <1>1, <1>2, KeptFacts
<1>4. i \in Int /\ j \in Int
  BY <1>1
<1> QED
  BY <1>1, <1>3, <1>4

(* The index the sweep should have for an address. *)
RightIndex(w, a) ==
  \/ w = -1 /\ \A p \in Kept : ~Holds(p, a)
  \/ \E p \in Kept : w = p.vi /\ Holds(p, a) /\ \A q \in Kept : Holds(q, a) => q.length <= p.length

LEMMA RightIndexAnswers ==
  ASSUME Entries, NEW a \in Addr, NEW w, RightIndex(w, a)
  PROVE  /\ w \in -1 .. Len(vals) - 1
         /\ LongestMatch(Len(v), a) = IF w < 0 THEN None ELSE vals[w + 1]
<1> DEFINE holds == {i \in 1 .. Len(v) : v[i].lo <= a /\ a <= v[i].hi}
<1> DEFINE longest == {i \in holds : \A j \in holds : v[j].length <= v[i].length}
<1>1. LongestMatch(Len(v), a) = IF holds = {} THEN None ELSE vals[Max(longest)]
  BY DEF LongestMatch
<1>2. Len(v) \in Nat /\ Len(vals) = Len(v) /\ \A i \in 1 .. Len(v) : v[i] \in EntrySet
  BY DEF Entries
<1>3. CASE w = -1 /\ \A p \in Kept : ~Holds(p, a)
  <2>1. holds = {}
    BY <1>3, KeptOf DEF Holds
  <2> QED
    BY <1>1, <1>2, <1>3, <2>1
<1>4. ASSUME NEW p \in Kept, w = p.vi, Holds(p, a), \A q \in Kept : Holds(q, a) => q.length <= p.length
      PROVE  /\ w \in -1 .. Len(vals) - 1
             /\ LongestMatch(Len(v), a) = IF w < 0 THEN None ELSE vals[w + 1]
  <2>1. w + 1 \in 1 .. Len(v) /\ p = v[w + 1] /\ w \in Int
    <3>1. p.vi + 1 \in 1 .. Len(v) /\ p = v[p.vi + 1] /\ p \in EntrySet
      BY KeptFacts
    <3> QED
      BY <1>4, <3>1 DEF EntrySet
  <2>2. w + 1 \in holds
    BY <1>4, <2>1 DEF Holds
  <2>3. \A j \in holds : v[j].length <= v[w + 1].length
    <3> SUFFICES ASSUME NEW j \in holds PROVE v[j].length <= p.length
      BY <2>1
    <3>1. PICK q \in Kept : q.lo = v[j].lo /\ q.hi = v[j].hi /\ q.length = v[j].length
      BY KeptOf
    <3> QED
      BY <1>4, <3>1 DEF Holds
  <2>4. w + 1 \in longest
    BY <2>2, <2>3
  <2>5. \A j \in longest : w + 1 >= j
    <3> SUFFICES ASSUME NEW j \in longest PROVE w + 1 >= j
      OBVIOUS
    <3>1. v[j].length = v[w + 1].length
      <4>1. v[j].length <= v[w + 1].length /\ v[w + 1].length <= v[j].length
        BY <2>2, <2>3
      <4>2. v[j].length \in Int /\ v[w + 1].length \in Int
        BY <1>2, <2>1 DEF EntrySet, Lengths
      <4> QED
        BY <4>1, <4>2
    <3>2. v[j].lo = p.lo /\ v[j].hi = p.hi
      BY <1>4, <2>1, <3>1, SameLength, SMTT(30) DEF Holds
    <3>3. j <= p.vi + 1
      BY <3>2, KeptFacts
    <3> QED
      BY <1>4, <2>1, <3>3
  <2>6. Max(longest) = w + 1
    <3>1. longest \in SUBSET Int
      OBVIOUS
    <3> HIDE DEF longest
    <3> QED
      BY <2>4, <2>5, <3>1, MaxIs
  <2> QED
    BY <1>1, <1>2, <2>1, <2>2, <2>6
<1> QED
  BY <1>3, <1>4 DEF RightIndex
-----------------------------------------------------------------------------
(* The prefixes whose event was taken. *)
Opened(l) == {p \in Kept : p.length = l /\ Open(p) \notin sweep.evs}
Closed(l) == {p \in Kept : p.length = l /\ Close(p) \notin sweep.evs}

Shape ==
  /\ sweep \in [pc : {"events", "boundary"}, evs : SUBSET Events(Kept), at : 0 .. Infinity, count : [Lengths -> Int],
                valBy : [Lengths -> 0 .. MaxAdds - 1], out : Seq([start : Addr, vi : -1 .. Len(vals) - 1])]

(* The events up to the coordinate were taken, at a boundary all of its own. *)
Timely ==
  /\ \A e \in sweep.evs : sweep.at <= e.at /\ (sweep.pc = "boundary" => sweep.at < e.at)
  /\ \A p \in Kept : /\ Open(p) \notin sweep.evs => p.lo <= sweep.at
                     /\ Close(p) \notin sweep.evs => Past(p) <= sweep.at

Counted == \A l \in Lengths : sweep.count[l] = Cardinality(Opened(l)) - Cardinality(Closed(l))

(* The value of a length is that of its prefix opened last. *)
Valued ==
  \A l \in Lengths : \A p \in Opened(l) :
    (\A q \in Opened(l) : q.lo <= p.lo) => sweep.valBy[l] = p.vi

Ascending(segs) == \A i, j \in 1 .. Len(segs) : i < j => segs[i].start < segs[j].start

(* The segments have the right index for an address. *)
Decides(segs, a) ==
  /\ (\A i \in 1 .. Len(segs) : a < segs[i].start) => RightIndex(-1, a)
  /\ \A i \in 1 .. Len(segs) :
       segs[i].start <= a /\ (i < Len(segs) => a < segs[i + 1].start) => RightIndex(segs[i].vi, a)

(* The addresses that are passed. *)
Passed(a) ==
  \/ sweep.pc = "events" /\ \A e \in sweep.evs : a < e.at
  \/ sweep.pc = "boundary" /\ a < sweep.at

Emitted ==
  /\ Ascending(sweep.out)
  /\ \A i \in 1 .. Len(sweep.out) :
       /\ \A e \in sweep.evs : sweep.out[i].start < e.at
       /\ sweep.pc = "boundary" => sweep.out[i].start < sweep.at
  /\ \A a \in Addr : Passed(a) => Decides(sweep.out, a)

Sweeping == Shape /\ Timely /\ Counted /\ Valued /\ Emitted

LEMMA KeptFinite ==
  ASSUME Entries
  PROVE  IsFiniteSet(Kept)
<1> DEFINE all == {v[i] : i \in 1 .. Len(v)}
<1>1. Len(v) \in Nat /\ v \in [1 .. Len(v) -> all]
  BY DEF Entries
<1>2. \A t \in all : \E s \in 1 .. Len(v) : v[s] = t
  OBVIOUS
<1>3. v \in Surjection(1 .. Len(v), all)
  BY <1>1, <1>2 DEF Surjection
<1>4. IsFiniteSet(all)
  <2> HIDE DEF all
  <2> QED
    BY <1>1, <1>3, FS_NatSurjection DEF ExistsSurjection
<1>5. Kept \in SUBSET all
  BY DEF Kept, dedup
<1> QED
  BY <1>4, <1>5, FS_Subset

LEMMA EventFacts ==
  ASSUME Entries
  PROVE  /\ \A p, q \in Kept : /\ Open(p) = Open(q) => p = q
                               /\ Close(p) = Close(q) => p = q
                               /\ Open(p) # Close(q)
         /\ \A p \in Kept : /\ p.lo \in 0 .. Infinity /\ Past(p) \in 0 .. Infinity /\ p.lo < Past(p)
                            /\ \A a \in 0 .. Infinity : a <= p.hi <=> a < Past(p)
<1>1. \A p, q \in Kept : p.vi = q.vi => p = q
  BY KeptFacts
<1>2. \A p, q \in Kept : /\ Open(p) = Open(q) => p = q
                         /\ Close(p) = Close(q) => p = q
                         /\ Open(p) # Close(q)
  BY <1>1 DEF Open, Close
<1>3. \A p \in Kept : p.lo \in Addr /\ p.hi \in Addr /\ p.lo <= p.hi
  BY KeptFacts DEF EntrySet
<1>4. \A p \in Kept : /\ p.lo \in 0 .. Infinity /\ Past(p) \in 0 .. Infinity /\ p.lo < Past(p)
                      /\ \A a \in 0 .. Infinity : a <= p.hi <=> a < Past(p)
  BY <1>3, AddrAssumption DEF Addr, Infinity, Past
<1> QED
  BY <1>2, <1>4

(* At a boundary a prefix is opened and not closed if it holds the coordinate,
   and with it every address up to the next one. *)
LEMMA ActiveIsOpen ==
  ASSUME Entries, Shape, Timely, sweep.pc = "boundary", NEW p \in Kept, NEW a \in 0 .. Infinity,
         sweep.at <= a, \A e \in sweep.evs : a < e.at
  PROVE  /\ Close(p) \notin sweep.evs => Open(p) \notin sweep.evs
         /\ Holds(p, a) <=> Open(p) \notin sweep.evs /\ Close(p) \in sweep.evs
<1>1. Open(p).at = p.lo /\ Close(p).at = Past(p) /\ sweep.at \in 0 .. Infinity
  BY DEF Open, Close, Shape
<1>2. p.lo \in 0 .. Infinity /\ Past(p) \in 0 .. Infinity /\ p.lo < Past(p) /\ (a <= p.hi <=> a < Past(p))
  BY EventFacts
<1>3. Open(p) \in sweep.evs => a < p.lo
  BY <1>1
<1>4. Close(p) \in sweep.evs => a < Past(p)
  BY <1>1
<1>5. /\ Open(p) \notin sweep.evs => p.lo <= sweep.at
      /\ Close(p) \notin sweep.evs => Past(p) <= sweep.at
  BY DEF Timely
<1>6. Infinity \in Int
  BY AddrAssumption DEF Infinity
<1> QED
  BY <1>1, <1>2, <1>3, <1>4, <1>5, <1>6 DEF Holds

ActiveAt(l, a) == {p \in Kept : p.length = l /\ Holds(p, a)}

(* At a boundary, count and valBy tell the one active prefix of each length. *)
LEMMA BoundaryTells ==
  ASSUME Entries, Shape, Timely, Counted, Valued, sweep.pc = "boundary", NEW l \in Lengths
  PROVE  /\ sweep.count[l] = Cardinality(ActiveAt(l, sweep.at))
         /\ \A p \in ActiveAt(l, sweep.at) : sweep.valBy[l] = p.vi
         /\ sweep.count[l] <= 1
         /\ sweep.count[l] > 0 <=> ActiveAt(l, sweep.at) # {}
<1> DEFINE act == ActiveAt(l, sweep.at)
<1>1. sweep.at \in 0 .. Infinity /\ sweep.at <= sweep.at /\ \A e \in sweep.evs : sweep.at < e.at
  BY AddrAssumption DEF Shape, Timely, Infinity
<1>2. \A p \in Kept : /\ Close(p) \notin sweep.evs => Open(p) \notin sweep.evs
                      /\ Holds(p, sweep.at) <=> Open(p) \notin sweep.evs /\ Close(p) \in sweep.evs
  BY <1>1, ActiveIsOpen
<1>3. act = Opened(l) \ Closed(l) /\ Closed(l) \subseteq Opened(l)
  BY <1>2 DEF ActiveAt, Opened, Closed
<1>4. IsFiniteSet(Opened(l))
  BY KeptFinite, FS_Subset DEF Opened
<1>5. Cardinality(act) = Cardinality(Opened(l)) - Cardinality(Closed(l)) /\ IsFiniteSet(act)
  <2>1. IsFiniteSet(Closed(l)) /\ Cardinality(Closed(l)) \in Nat /\ Cardinality(Opened(l)) \in Nat
    BY <1>3, <1>4, FS_Subset, FS_CardinalityType
  <2>2. Opened(l) \cap Closed(l) = Closed(l)
    BY <1>3
  <2> QED
    BY <1>3, <1>4, <2>1, <2>2, FS_Difference
<1>6. sweep.count[l] = Cardinality(act)
  BY <1>5 DEF Counted
<1>7. sweep.at = Infinity => act = {}
  BY AddrAssumption, KeptFacts DEF ActiveAt, Holds, EntrySet, Addr, Infinity
<1>8. \A p, q \in act : p = q
  <2> SUFFICES ASSUME NEW p \in act, NEW q \in act PROVE p = q
    OBVIOUS
  <2>1. sweep.at \in Addr
    BY <1>1, <1>7, AddrAssumption DEF Addr, Infinity
  <2> QED
    BY <2>1, KeptApart DEF ActiveAt
<1>9. \A p \in act : sweep.valBy[l] = p.vi
  <2> SUFFICES ASSUME NEW p \in act PROVE sweep.valBy[l] = p.vi
    OBVIOUS
  <2>1. p \in Opened(l) /\ p \in Kept /\ p.length = l /\ Holds(p, sweep.at) /\ sweep.at \in Addr
    BY <1>1, <1>3, <1>7, AddrAssumption DEF ActiveAt, Addr, Infinity
  <2>2. ASSUME NEW q \in Opened(l) PROVE q.lo <= p.lo
    <3>1. q \in Kept /\ q.length = l /\ q.lo <= sweep.at
      BY DEF Opened, Timely
    <3>2. q.lo \in Int /\ p.lo \in Int /\ q.hi \in Int /\ p.hi \in Int /\ q.lo <= q.hi /\ q.lo \in Addr
      BY <2>1, <3>1, KeptFacts DEF EntrySet, Addr
    <3>3. CASE p.lo < q.lo
      <4>1. Holds(p, q.lo) /\ Holds(q, q.lo)
        BY <1>1, <2>1, <3>1, <3>2, <3>3, AddrAssumption DEF Holds, Addr, Infinity
      <4>2. p = q
        BY <2>1, <3>1, <3>2, <4>1, KeptApart
      <4> QED
        BY <3>2, <4>2
    <3> QED
      BY <3>2, <3>3
  <2> QED
    BY <2>1, <2>2 DEF Valued
<1>10. Cardinality(act) <= 1 /\ (Cardinality(act) > 0 <=> act # {})
  <2>1. CASE act = {}
    BY <2>1, FS_EmptySet
  <2>2. CASE act # {}
    <3>1. PICK p \in act : act = {p}
      BY <1>8, <2>2
    <3>2. Cardinality(act) = 1
      <4> HIDE DEF act
      <4> QED
        BY <3>1, FS_Singleton
    <3> QED
      BY <2>2, <3>2
  <2> QED
    BY <2>1, <2>2
<1> QED
  BY <1>6, <1>9, <1>10

(* So the winner at a boundary is right for the addresses up to the next one. *)
LEMMA WinnerRight ==
  ASSUME Entries, Shape, Timely, Counted, Valued, sweep.pc = "boundary", NEW a \in Addr,
         sweep.at <= a, \A e \in sweep.evs : a < e.at
  PROVE  RightIndex(Winner, a)
<1> DEFINE active == {l \in Lengths : sweep.count[l] > 0}
<1>1. Winner = IF active = {} THEN -1 ELSE sweep.valBy[Max(active)]
  BY DEF Winner
<1>2. a \in 0 .. Infinity /\ sweep.at \in 0 .. Infinity /\ \A e \in sweep.evs : sweep.at < e.at
  BY AddrAssumption DEF Addr, Infinity, Shape, Timely
<1>3. \A p \in Kept : Holds(p, a) <=> Holds(p, sweep.at)
  <2>1. sweep.at <= sweep.at
    BY <1>2
  <2> QED
    BY <1>2, <2>1, ActiveIsOpen
<1>4. \A l \in Lengths : /\ \A p \in ActiveAt(l, sweep.at) : sweep.valBy[l] = p.vi
                         /\ sweep.count[l] > 0 <=> ActiveAt(l, sweep.at) # {}
  BY BoundaryTells
<1>5. \A p \in Kept : p.length \in Lengths
  BY KeptFacts DEF EntrySet
<1>6. CASE active = {}
  <2>1. \A p \in Kept : ~Holds(p, a)
    BY <1>3, <1>4, <1>5, <1>6 DEF ActiveAt
  <2> QED
    BY <1>1, <1>6, <2>1 DEF RightIndex
<1>7. CASE active # {}
  <2>1. active \in SUBSET (0 .. MaxLength) /\ MaxLength \in Nat
    BY MaskAssumption DEF Lengths
  <2>2. PICK m \in active : \A l \in active : m >= l
    <3> HIDE DEF active
    <3> QED
      BY <1>7, <2>1, GreatestExists
  <2>3. Max(active) = m
    <3>1. active \in SUBSET Int
      BY <2>1
    <3> HIDE DEF active
    <3> QED
      BY <2>2, <3>1, MaxIs
  <2>4. PICK p \in ActiveAt(m, sweep.at) : TRUE
    BY <1>4, <2>2
  <2>5. p \in Kept /\ Holds(p, a) /\ p.length = m /\ Winner = p.vi
    BY <1>1, <1>3, <1>4, <1>7, <2>2, <2>3, <2>4 DEF ActiveAt
  <2>6. \A q \in Kept : Holds(q, a) => q.length <= p.length
    <3> SUFFICES ASSUME NEW q \in Kept, Holds(q, a) PROVE q.length <= m
      BY <2>5
    <3>1. q.length \in active
      BY <1>3, <1>4, <1>5 DEF ActiveAt
    <3> QED
      BY <2>1, <2>2, <3>1
  <2> QED
    BY <2>5, <2>6 DEF RightIndex
<1> QED
  BY <1>6, <1>7
-----------------------------------------------------------------------------
Segments == Seq([start : Addr, vi : Int])

LEMMA StartTypes ==
  ASSUME NEW R, NEW segs \in Seq([start : Addr, vi : R])
  PROVE  Len(segs) \in Nat /\ \A i \in 1 .. Len(segs) : segs[i].start \in Int
<1> DEFINE T == [start : Addr, vi : R]
<1>1. Len(segs) \in Nat /\ \A i \in 1 .. Len(segs) : segs[i] \in T
  <2> HIDE DEF T
  <2>1. segs \in Seq(T)
    BY DEF T
  <2> QED
    BY <2>1
<1>2. \A t \in T : t.start \in Int
  BY AddrAssumption DEF Addr
<1> QED
  BY <1>1, <1>2

LEMMA SearchFinds ==
  ASSUME NEW segs \in Segments, Ascending(segs), NEW a \in Addr
  PROVE  /\ Search(segs, a) \in 0 .. Len(segs)
         /\ Search(segs, a) = 0 => \A i \in 1 .. Len(segs) : a < segs[i].start
         /\ Search(segs, a) # 0 => /\ segs[Search(segs, a)].start <= a
                                   /\ Search(segs, a) < Len(segs) => a < segs[Search(segs, a) + 1].start
<1> DEFINE ends == {i \in 0 .. Len(segs) : i = Len(segs) \/ a < segs[i + 1].start}
<1>1. Len(segs) \in Nat /\ a \in Int /\ \A i \in 1 .. Len(segs) : segs[i].start \in Int
  <2>1. Len(segs) \in Nat /\ \A i \in 1 .. Len(segs) : segs[i].start \in Int
    BY StartTypes DEF Segments
  <2>2. a \in Int
    BY AddrAssumption DEF Addr
  <2> QED
    BY <2>1, <2>2
<1>2. ends \in SUBSET Nat /\ ends # {}
  BY <1>1
<1>3. PICK m \in ends : \A i \in ends : m <= i
  <2> HIDE DEF ends
  <2> QED
    BY <1>2, LeastExists
<1>4. Search(segs, a) = m
  <2>1. Search(segs, a) = Min(ends)
    BY DEF Search
  <2>2. Min(ends) = m
    <3>1. ends \in SUBSET Int
      BY <1>2
    <3> HIDE DEF ends
    <3> QED
      BY <1>3, <3>1, MinIs
  <2> QED
    BY <2>1, <2>2
<1>5. m \in 0 .. Len(segs) /\ (m < Len(segs) => a < segs[m + 1].start)
  BY <1>1
<1>6. ASSUME m = 0, NEW i \in 1 .. Len(segs) PROVE a < segs[i].start
  <2>1. a < segs[1].start /\ 1 \in 1 .. Len(segs)
    BY <1>1, <1>5, <1>6
  <2>2. i = 1 \/ segs[1].start < segs[i].start
    BY <1>1, <2>1 DEF Ascending
  <2> QED
    BY <1>1, <2>1, <2>2
<1>7. ASSUME m # 0 PROVE segs[m].start <= a
  <2>1. m - 1 \in 0 .. Len(segs) /\ m - 1 # Len(segs) /\ m - 1 \notin ends /\ m - 1 + 1 = m /\ m \in 1 .. Len(segs)
    <3>1. m - 1 \in ends => m <= m - 1
      BY <1>3
    <3> QED
      BY <1>1, <1>5, <1>7, <3>1
  <2> QED
    BY <1>1, <2>1
<1> QED
  BY <1>4, <1>5, <1>6, <1>7

(* A table whose segments decide every address answers the longest match. *)
LEMMA DecidesAnswers ==
  ASSUME Entries, NEW segs \in Segments, Ascending(segs), \A a \in Addr : Decides(segs, a),
         NEW t, t.segs = segs, t.vals = vals, NEW a \in Addr
  PROVE  Lookup(t, a) = LongestMatch(Len(v), a)
<1> DEFINE i == Search(segs, a)
<1>1. Lookup(t, a) = IF i = 0 \/ segs[i].vi < 0 THEN None ELSE vals[segs[i].vi + 1]
  BY DEF Lookup
<1>2. /\ i \in 0 .. Len(segs)
      /\ i = 0 => \A j \in 1 .. Len(segs) : a < segs[j].start
      /\ i # 0 => segs[i].start <= a /\ (i < Len(segs) => a < segs[i + 1].start)
  BY SearchFinds
<1>3. CASE i = 0
  <2>1. RightIndex(-1, a)
    BY <1>2, <1>3 DEF Decides
  <2>2. LongestMatch(Len(v), a) = None
    BY <2>1, RightIndexAnswers
  <2> QED
    BY <1>1, <1>3, <2>2
<1>4. CASE i # 0
  <2>1. i \in 1 .. Len(segs)
    BY <1>2, <1>4 DEF Segments
  <2>2. RightIndex(segs[i].vi, a)
    <3> HIDE DEF i
    <3> QED
      BY <1>2, <1>4, <2>1 DEF Decides
  <2>3. LongestMatch(Len(v), a) = IF segs[i].vi < 0 THEN None ELSE vals[segs[i].vi + 1]
    <3> HIDE DEF i
    <3> QED
      BY <2>2, RightIndexAnswers
  <2> QED
    BY <1>1, <1>4, <2>3
<1> QED
  BY <1>3, <1>4

(* What a boundary emits decides every address up to the next coordinate. *)
LEMMA EmitDecides ==
  ASSUME Entries, Sweeping, sweep.pc = "boundary", sweep.at # Infinity,
         NEW out, out = Emit(sweep.out, sweep.at, Winner)
  PROVE  /\ out \in Seq([start : Addr, vi : -1 .. Len(vals) - 1]) /\ Ascending(out)
         /\ \A i \in 1 .. Len(out) : out[i].start <= sweep.at
         /\ \A a \in Addr : (\A e \in sweep.evs : a < e.at) => Decides(out, a)
<1> DEFINE old == sweep.out
<1> DEFINE n == Len(old)
<1> DEFINE seg == [start |-> sweep.at, vi |-> Winner]
<1>1. sweep.at \in Addr /\ sweep.at \in Int /\ \A e \in sweep.evs : sweep.at < e.at
  BY AddrAssumption DEF Sweeping, Shape, Timely, Addr, Infinity
<1>2. RightIndex(Winner, sweep.at)
  BY <1>1, WinnerRight DEF Sweeping
<1>3. Winner \in -1 .. Len(vals) - 1
  BY <1>1, <1>2, RightIndexAnswers
<1>4. /\ old \in Seq([start : Addr, vi : -1 .. Len(vals) - 1]) /\ n \in Nat
      /\ Ascending(old) /\ \A i \in 1 .. n : old[i].start < sweep.at /\ old[i].start \in Int
  <2>1. old \in Seq([start : Addr, vi : -1 .. Len(vals) - 1])
    BY DEF Sweeping, Shape
  <2>2. Ascending(old) /\ \A i \in 1 .. n : old[i].start < sweep.at
    BY DEF Sweeping, Emitted
  <2>3. n \in Nat /\ \A i \in 1 .. n : old[i].start \in Int
    BY <2>1, StartTypes
  <2> QED
    BY <2>1, <2>2, <2>3
<1>5. \A a \in Addr : a < sweep.at => Decides(old, a)
  BY DEF Sweeping, Emitted, Passed
<1>6. \A a \in Addr : sweep.at <= a /\ (\A e \in sweep.evs : a < e.at) => RightIndex(Winner, a)
  BY WinnerRight DEF Sweeping
<1>7. \A a \in Addr : a \in Int
  BY DEF Addr
<1>8. CASE old # <<>> /\ old[n].vi = Winner
  <2>1. out = old /\ n \in 1 .. n
    BY <1>4, <1>8 DEF Emit
  <2>2. ASSUME NEW a \in Addr, \A e \in sweep.evs : a < e.at, sweep.at <= a PROVE Decides(old, a)
    <3>1. \A i \in 1 .. n : ~(a < old[i].start)
      BY <1>1, <1>4, <1>7, <2>2, SMTT(30)
    <3>2. \A i \in 1 .. n : i < n => ~(a < old[i + 1].start)
      BY <1>4, <3>1
    <3>3. RightIndex(old[n].vi, a)
      BY <1>6, <1>8, <2>2
    <3> HIDE DEF old
    <3>4. \A i \in 1 .. n : i < n \/ i = n
      BY <1>4
    <3> QED
      BY <2>1, <3>1, <3>2, <3>3, <3>4 DEF Decides
  <2>3. ASSUME NEW a \in Addr, \A e \in sweep.evs : a < e.at PROVE Decides(old, a)
    BY <1>1, <1>5, <1>7, <2>2, <2>3
  <2> QED
    BY <1>1, <1>4, <2>1, <2>3
<1>9. CASE ~(old # <<>> /\ old[n].vi = Winner)
  <2>1. out = Append(old, seg)
    BY <1>9 DEF Emit
  <2>2. /\ out \in Seq([start : Addr, vi : -1 .. Len(vals) - 1]) /\ Len(out) = n + 1 /\ out[n + 1] = seg
        /\ \A i \in 1 .. n : out[i] = old[i]
    BY <1>1, <1>3, <1>4, <2>1
  <2>8. n = Len(old)
    OBVIOUS
  <2> HIDE DEF old, n, seg
  <2>3. \A i \in 1 .. n + 1 : i \in 1 .. n \/ i = n + 1
    BY <1>4
  <2>9. out[n + 1].start = sweep.at
    BY <2>2 DEF seg
  <2>4. \A i \in 1 .. n + 1 : out[i].start <= sweep.at /\ out[i].start \in Int
    <3> SUFFICES ASSUME NEW i \in 1 .. n + 1 PROVE out[i].start <= sweep.at /\ out[i].start \in Int
      OBVIOUS
    <3>1. CASE i = n + 1
      BY <1>1, <2>9, <3>1
    <3>2. CASE i \in 1 .. n
      <4>1. out[i] = old[i] /\ old[i].start < sweep.at /\ old[i].start \in Int
        BY <1>4, <2>2, <3>2
      <4> QED
        BY <1>1, <4>1
    <3> QED
      BY <2>3, <3>1, <3>2
  <2>5. Ascending(out)
    <3> SUFFICES ASSUME NEW i \in 1 .. n + 1, NEW j \in 1 .. n + 1, i < j PROVE out[i].start < out[j].start
      BY <2>2 DEF Ascending
    <3>1. i \in 1 .. n
      BY <1>4
    <3>2. CASE j = n + 1
      <4>1. out[i] = old[i] /\ old[i].start < sweep.at
        BY <1>4, <2>2, <3>1
      <4> QED
        BY <2>9, <3>2, <4>1
    <3>3. CASE j \in 1 .. n
      <4>1. out[i] = old[i] /\ out[j] = old[j]
        BY <2>2, <3>1, <3>3
      <4> QED
        BY <1>4, <2>8, <3>1, <3>3, <4>1 DEF Ascending
    <3> QED
      BY <2>3, <3>2, <3>3
  <2>6. ASSUME NEW a \in Addr, \A e \in sweep.evs : a < e.at, sweep.at <= a PROVE Decides(out, a)
    <3>1. \A i \in 1 .. n + 1 : ~(a < out[i].start)
      <4> SUFFICES ASSUME NEW i \in 1 .. n + 1 PROVE ~(a < out[i].start)
        OBVIOUS
      <4>1. out[i].start <= sweep.at /\ out[i].start \in Int
        BY <2>4
      <4> QED
        BY <1>1, <1>7, <2>6, <4>1
    <3>2. \A i \in 1 .. n + 1 : i < n + 1 => i + 1 \in 1 .. n + 1
      BY <1>4
    <3>3. RightIndex(out[n + 1].vi, a) /\ n + 1 \in 1 .. n + 1
      BY <1>4, <1>6, <2>2, <2>6 DEF seg
    <3>4. \A i \in 1 .. n + 1 : i < n + 1 \/ i = n + 1
      BY <1>4
    <3> QED
      BY <2>2, <3>1, <3>2, <3>3, <3>4 DEF Decides
  <2>7. ASSUME NEW a \in Addr, a < sweep.at PROVE Decides(out, a)
    <3>1. Decides(old, a)
      BY <1>5, <2>7
    <3>2. ~(out[n + 1].start <= a)
      BY <1>1, <1>7, <2>2, <2>7 DEF seg
    <3>3. \A i \in 1 .. n : i < n + 1 /\ (i < n => i + 1 \in 1 .. n)
      BY <1>4
    <3>4. (\A i \in 1 .. n + 1 : a < out[i].start) => RightIndex(-1, a)
      <4>1. (\A i \in 1 .. n + 1 : a < out[i].start) => \A i \in 1 .. n : a < old[i].start
        BY <2>2, <3>3, <2>3, <1>4, SMTT(30)
      <4> QED
        BY <2>8, <3>1, <4>1 DEF Decides
    <3>5. ASSUME NEW i \in 1 .. n + 1, out[i].start <= a, i < n + 1 => a < out[i + 1].start
          PROVE  RightIndex(out[i].vi, a)
      <4>1. i \in 1 .. n
        BY <2>3, <3>2, <3>5
      <4>2. i < n => a < old[i + 1].start
        <5>1. i < n + 1 /\ (i < n => i + 1 \in 1 .. n)
          BY <3>3, <4>1
        <5> QED
          BY <2>2, <3>5, <5>1
      <4> QED
        BY <2>2, <2>8, <3>1, <3>5, <4>1, <4>2 DEF Decides
    <3> QED
      BY <2>2, <3>4, <3>5 DEF Decides
  <2> QED
    BY <1>1, <1>7, <2>2, <2>4, <2>5, <2>6, <2>7, SMTT(30)
<1> QED
  BY <1>8, <1>9
-----------------------------------------------------------------------------
LEMMA EventEffect ==
  ASSUME Entries, Shape, NEW e \in sweep.evs, Event(e)
  PROVE  /\ sweep' \in [pc : {"events", "boundary"}, evs : SUBSET Events(Kept), at : 0 .. Infinity,
                        count : [Lengths -> Int], valBy : [Lengths -> 0 .. MaxAdds - 1],
                        out : Seq([start : Addr, vi : -1 .. Len(vals) - 1])]
         /\ e.at \in 0 .. Infinity /\ e.length \in Lengths
         /\ sweep'.pc = "boundary" => \A f \in sweep.evs \ {e} : f.at # e.at
         /\ sweep'.pc = "events" => \E f \in sweep.evs \ {e} : f.at = e.at
         /\ sweep'.evs = sweep.evs \ {e} /\ sweep'.at = e.at /\ sweep'.out = sweep.out
         /\ \A l \in Lengths :
              /\ sweep'.count[l] = IF l # e.length THEN sweep.count[l]
                                   ELSE IF e.open THEN sweep.count[l] + 1 ELSE sweep.count[l] - 1
              /\ sweep'.valBy[l] = IF l = e.length /\ e.open THEN e.vi ELSE sweep.valBy[l]
<1> DEFINE delta == IF e.open THEN 1 ELSE -1
<1> DEFINE pc == IF \E f \in sweep.evs \ {e} : f.at = e.at THEN "events" ELSE "boundary"
<1> DEFINE count == [sweep.count EXCEPT ![e.length] = @ + delta]
<1> DEFINE valBy == [sweep.valBy EXCEPT ![e.length] = IF e.open THEN e.vi ELSE @]
<1>1. sweep' = [sweep EXCEPT !.pc = pc, !.evs = sweep.evs \ {e}, !.at = e.at,
                             !.count[e.length] = @ + delta, !.valBy[e.length] = IF e.open THEN e.vi ELSE @]
  BY DEF Event
<1>2. PICK p \in Kept : e = Open(p) \/ e = Close(p)
  BY DEF Shape, Events
<1>3. p.length \in Lengths /\ p.vi \in 0 .. MaxAdds - 1 /\ p.lo \in 0 .. Infinity /\ Past(p) \in 0 .. Infinity
  BY KeptFacts, EventFacts DEF EntrySet
<1>4. e.at \in 0 .. Infinity /\ e.length \in Lengths /\ e.vi \in 0 .. MaxAdds - 1 /\ e.open \in BOOLEAN
  <2>1. CASE e = Open(p)
    BY <1>3, <2>1 DEF Open
  <2>2. CASE e = Close(p)
    BY <1>3, <2>2 DEF Close
  <2> QED
    BY <1>2, <2>1, <2>2
<1>5. /\ sweep.count \in [Lengths -> Int] /\ sweep.valBy \in [Lengths -> 0 .. MaxAdds - 1]
      /\ sweep.evs \in SUBSET Events(Kept) /\ sweep.out \in Seq([start : Addr, vi : -1 .. Len(vals) - 1])
  BY DEF Shape
<1>6. sweep' = [pc |-> pc, evs |-> sweep.evs \ {e}, at |-> e.at, count |-> count, valBy |-> valBy, out |-> sweep.out]
  BY <1>1 DEF Shape
<1>7. count \in [Lengths -> Int] /\ valBy \in [Lengths -> 0 .. MaxAdds - 1]
  BY <1>4, <1>5
<1>8. \A l \in Lengths :
        /\ count[l] = IF l # e.length THEN sweep.count[l]
                      ELSE IF e.open THEN sweep.count[l] + 1 ELSE sweep.count[l] - 1
        /\ valBy[l] = IF l = e.length /\ e.open THEN e.vi ELSE sweep.valBy[l]
  BY <1>4, <1>5
<1>9. /\ pc \in {"events", "boundary"}
      /\ pc = "boundary" => \A f \in sweep.evs \ {e} : f.at # e.at
      /\ pc = "events" => \E f \in sweep.evs \ {e} : f.at = e.at
  OBVIOUS
<1> HIDE DEF pc, count, valBy
<1> QED
  BY <1>4, <1>5, <1>6, <1>7, <1>8, <1>9

LEMMA EventStep ==
  ASSUME Entries, Sweeping, NEW e \in sweep.evs, Event(e)
  PROVE  Sweeping'
<1>1. v' = v /\ vals' = vals /\ Kept' = Kept /\ \A f \in sweep.evs : e.at <= f.at
  BY DEF Event, Kept
<1>2. Shape /\ Timely /\ Counted /\ Valued /\ Emitted
  BY DEF Sweeping
<1>3. /\ e.at \in 0 .. Infinity /\ e.length \in Lengths
      /\ sweep'.pc = "boundary" => \A f \in sweep.evs \ {e} : f.at # e.at
      /\ sweep'.pc = "events" => \E f \in sweep.evs \ {e} : f.at = e.at
      /\ sweep'.pc \in {"events", "boundary"}
      /\ sweep'.evs = sweep.evs \ {e} /\ sweep'.at = e.at /\ sweep'.out = sweep.out
  BY <1>2, EventEffect
<1>4. \A l \in Lengths :
        /\ sweep'.count[l] = IF l # e.length THEN sweep.count[l]
                             ELSE IF e.open THEN sweep.count[l] + 1 ELSE sweep.count[l] - 1
        /\ sweep'.valBy[l] = IF l = e.length /\ e.open THEN e.vi ELSE sweep.valBy[l]
  BY <1>2, EventEffect
<1>5. Shape'
  BY <1>1, <1>2, EventEffect DEF Shape
<1>6. \A f \in sweep.evs : f.at \in Int
  <2> SUFFICES ASSUME NEW f \in sweep.evs PROVE f.at \in Int
    OBVIOUS
  <2>1. PICK q \in Kept : f = Open(q) \/ f = Close(q)
    BY <1>2 DEF Shape, Events
  <2>2. q.lo \in Int /\ Past(q) \in Int
    BY EventFacts
  <2> QED
    BY <2>1, <2>2 DEF Open, Close
<1>7. sweep.at \in Int /\ sweep.at <= e.at /\ e.at \in Int
  BY <1>2, <1>6 DEF Shape, Timely
<1>8. \A q \in Kept : /\ Open(q).at = q.lo /\ Close(q).at = Past(q) /\ q.lo \in Int /\ Past(q) \in Int
                      /\ Open(q).length = q.length /\ Open(q).vi = q.vi /\ Open(q).open
                      /\ Close(q).length = q.length /\ ~Close(q).open
  BY EventFacts DEF Open, Close
<1>9. \A p, q \in Kept : /\ Open(p) = Open(q) => p = q
                         /\ Close(p) = Close(q) => p = q
                         /\ Open(p) # Close(q)
  BY EventFacts
<1>10. Timely'
  <2>1. \A f \in sweep'.evs : sweep'.at <= f.at /\ (sweep'.pc = "boundary" => sweep'.at < f.at)
    BY <1>1, <1>3, <1>6
  <2>2. ASSUME NEW q \in Kept, Open(q) \notin sweep'.evs PROVE q.lo <= sweep'.at
    <3>1. CASE Open(q) = e
      BY <1>3, <1>7, <1>8, <3>1
    <3>2. CASE Open(q) \notin sweep.evs
      BY <1>2, <1>3, <1>7, <1>8, <3>2 DEF Timely
    <3> QED
      BY <1>3, <2>2, <3>1, <3>2
  <2>3. ASSUME NEW q \in Kept, Close(q) \notin sweep'.evs PROVE Past(q) <= sweep'.at
    <3>1. CASE Close(q) = e
      BY <1>3, <1>7, <1>8, <3>1
    <3>2. CASE Close(q) \notin sweep.evs
      BY <1>2, <1>3, <1>7, <1>8, <3>2 DEF Timely
    <3> QED
      BY <1>3, <2>3, <3>1, <3>2
  <2> QED
    BY <1>1, <2>1, <2>2, <2>3 DEF Timely
<1>11. PICK p \in Kept : e = Open(p) \/ e = Close(p)
  BY <1>2 DEF Shape, Events
<1>12. /\ \A l \in Lengths : IsFiniteSet(Opened(l)) /\ IsFiniteSet(Closed(l))
       /\ \A l \in Lengths : Cardinality(Opened(l)) \in Nat /\ Cardinality(Closed(l)) \in Nat
  BY KeptFinite, FS_Subset, FS_CardinalityType DEF Opened, Closed
<1>13. ASSUME e = Open(p) PROVE Counted' /\ Valued'
  <2>1. /\ e.length = p.length /\ e.at = p.lo /\ e.vi = p.vi /\ e.open
        /\ p \in Opened(p.length)' /\ p \notin Opened(p.length)
    BY <1>1, <1>3, <1>8, <1>13 DEF Opened
  <2>2. Opened(p.length)' = Opened(p.length) \cup {p}
    BY <1>1, <1>3, <1>9, <1>13 DEF Opened
  <2>3. \A l \in Lengths : l # p.length => Opened(l)' = Opened(l)
    BY <1>1, <1>3, <1>9, <1>13 DEF Opened
  <2>4. \A l \in Lengths : Closed(l)' = Closed(l)
    BY <1>1, <1>3, <1>9, <1>13 DEF Closed
  <2>5. Counted'
    <3> SUFFICES ASSUME NEW l \in Lengths
                 PROVE  sweep'.count[l] = Cardinality(Opened(l)') - Cardinality(Closed(l)')
      BY DEF Counted
    <3>1. sweep.count[l] = Cardinality(Opened(l)) - Cardinality(Closed(l))
      BY <1>2 DEF Counted
    <3>2. CASE l = p.length
      <4>1. Cardinality(Opened(l)') = Cardinality(Opened(l)) + 1
        BY <1>12, <2>1, <2>2, <3>2, FS_AddElement, SMTT(30)
      <4> QED
        BY <1>4, <1>12, <2>1, <2>4, <3>1, <3>2, <4>1
    <3>3. CASE l # p.length
      BY <1>4, <2>1, <2>3, <2>4, <3>1, <3>3
    <3> QED
      BY <3>2, <3>3
  <2>6. Valued'
    <3> SUFFICES ASSUME NEW l \in Lengths, NEW q \in Opened(l)', \A r \in Opened(l)' : r.lo <= q.lo
                 PROVE  sweep'.valBy[l] = q.vi
      BY DEF Valued
    <3>1. CASE l = p.length
      <4>1. ASSUME q # p PROVE FALSE
        <5>1. q \in Kept /\ q.length = l /\ Open(q) \notin sweep.evs
          BY <2>2, <3>1, <4>1 DEF Opened
        <5>2. q.lo <= sweep.at /\ p.lo <= q.lo
          BY <1>2, <2>1, <3>1, <5>1 DEF Timely
        <5>3. q.lo = p.lo
          BY <1>7, <1>8, <2>1, <5>1, <5>2
        <5>4. q.lo \in Addr /\ q.lo \in Int /\ p.lo <= p.hi /\ q.lo <= q.hi
          BY <1>8, <5>1, KeptFacts DEF EntrySet
        <5>5. Holds(p, q.lo) /\ Holds(q, q.lo)
          BY <5>3, <5>4 DEF Holds
        <5> QED
          BY <3>1, <4>1, <5>1, <5>4, <5>5, KeptApart
      <4> QED
        BY <1>4, <2>1, <3>1, <4>1
    <3>2. CASE l # p.length
      <4>1. q \in Opened(l) /\ \A r \in Opened(l) : r.lo <= q.lo
        BY <2>3, <3>2
      <4> QED
        BY <1>2, <1>4, <2>1, <3>2, <4>1 DEF Valued
    <3> QED
      BY <3>1, <3>2
  <2> QED
    BY <2>5, <2>6
<1>14. ASSUME e = Close(p) PROVE Counted' /\ Valued'
  <2>1. /\ e.length = p.length /\ ~e.open
        /\ p \in Closed(p.length)' /\ p \notin Closed(p.length)
    BY <1>1, <1>3, <1>8, <1>14 DEF Closed
  <2>2. Closed(p.length)' = Closed(p.length) \cup {p}
    BY <1>1, <1>3, <1>9, <1>14 DEF Closed
  <2>3. \A l \in Lengths : l # p.length => Closed(l)' = Closed(l)
    BY <1>1, <1>3, <1>9, <1>14 DEF Closed
  <2>4. \A l \in Lengths : Opened(l)' = Opened(l)
    BY <1>1, <1>3, <1>9, <1>14 DEF Opened
  <2>5. Counted'
    <3> SUFFICES ASSUME NEW l \in Lengths
                 PROVE  sweep'.count[l] = Cardinality(Opened(l)') - Cardinality(Closed(l)')
      BY DEF Counted
    <3>1. sweep.count[l] = Cardinality(Opened(l)) - Cardinality(Closed(l))
      BY <1>2 DEF Counted
    <3>2. CASE l = p.length
      <4>1. Cardinality(Closed(l)') = Cardinality(Closed(l)) + 1
        BY <1>12, <2>1, <2>2, <3>2, FS_AddElement, ZenonT(30)
      <4> QED
        BY <1>4, <1>12, <2>1, <2>4, <3>1, <3>2, <4>1
    <3>3. CASE l # p.length
      BY <1>4, <2>1, <2>3, <2>4, <3>1, <3>3
    <3> QED
      BY <3>2, <3>3
  <2>6. Valued'
    <3> SUFFICES ASSUME NEW l \in Lengths, NEW q \in Opened(l)', \A r \in Opened(l)' : r.lo <= q.lo
                 PROVE  sweep'.valBy[l] = q.vi
      BY DEF Valued
    <3>1. q \in Opened(l) /\ \A r \in Opened(l) : r.lo <= q.lo
      BY <2>4
    <3> QED
      BY <1>2, <1>4, <2>1, <3>1 DEF Valued
  <2> QED
    BY <2>5, <2>6
<1>15. Emitted'
  <2>1. Ascending(sweep.out)'
    BY <1>2, <1>3 DEF Emitted, Ascending
  <2>2. \A i \in 1 .. Len(sweep'.out) :
          /\ \A f \in sweep'.evs : sweep'.out[i].start < f.at
          /\ sweep'.pc = "boundary" => sweep'.out[i].start < sweep'.at
    BY <1>2, <1>3 DEF Emitted
  <2>3. ASSUME NEW a \in Addr, Passed(a)' PROVE Decides(sweep.out, a)'
    <3>1. a \in Int
      BY AddrAssumption DEF Addr
    <3>2. a < e.at
      BY <1>3, <2>3 DEF Passed
    <3>3. \A f \in sweep.evs : a < f.at
      BY <1>1, <1>6, <1>7, <3>1, <3>2
    <3>4. CASE sweep.pc = "events"
      <4>1. Decides(sweep.out, a)
        BY <1>2, <3>3, <3>4 DEF Emitted, Passed
      <4> QED
        BY <1>1, <1>3, <4>1 DEF Decides, RightIndex
    <3> QED
      BY <3>4 DEF Event
  <2> QED
    BY <1>1, <2>1, <2>2, <2>3 DEF Emitted
<1> QED
  BY <1>5, <1>10, <1>11, <1>13, <1>14, <1>15 DEF Sweeping
-----------------------------------------------------------------------------
TableOK(t) ==
  /\ t.segs \in Seq([start : Addr, vi : -1 .. Len(t.vals) - 1]) /\ Ascending(t.segs)
  /\ t.n \in 0 .. Len(v)
  /\ \A a \in Addr : Lookup(t, a) = LongestMatch(t.n, a)

Tabled ==
  /\ tables \in Seq([segs : Segments, vals : Seq(Int), n : Nat])
  /\ \A k \in 1 .. Len(tables) : TableOK(tables[k])

Inv == Entries /\ Tabled /\ (sweep = Quiet \/ Sweeping)

(* What is added later changes no answer for what was added before. *)
LEMMA MatchStable ==
  ASSUME Entries, NEW n \in 0 .. Len(v), NEW a \in Addr,
         \A i \in 1 .. Len(v) : v'[i] = v[i] /\ vals'[i] = vals[i]
  PROVE  LongestMatch(n, a)' = LongestMatch(n, a)
<1> DEFINE holds == {i \in 1 .. n : v[i].lo <= a /\ a <= v[i].hi}
<1> DEFINE longest == {i \in holds : \A j \in holds : v[j].length <= v[i].length}
<1>1. LongestMatch(n, a) = IF holds = {} THEN None ELSE vals[Max(longest)]
  BY DEF LongestMatch
<1>2. Len(v) \in Nat /\ n \in Nat /\ \A i \in 1 .. n : i \in 1 .. Len(v) /\ v[i].length \in 0 .. MaxLength
  <2>1. Len(v) \in Nat /\ n \in Nat /\ \A i \in 1 .. n : i \in 1 .. Len(v)
    BY DEF Entries
  <2>2. \A i \in 1 .. Len(v) : v[i] \in EntrySet
    BY DEF Entries
  <2> QED
    BY <2>1, <2>2 DEF EntrySet, Lengths
<1>3. \A i \in 1 .. n : v'[i] = v[i]
  BY <1>2
<1>4. {i \in 1 .. n : v'[i].lo <= a /\ a <= v'[i].hi} = holds
  BY <1>3
<1>5. {i \in holds : \A j \in holds : v'[j].length <= v'[i].length} = longest
  BY <1>3
<1>6. LongestMatch(n, a)' = IF holds = {} THEN None ELSE vals'[Max(longest)]
  BY <1>4, <1>5 DEF LongestMatch
<1>7. ASSUME holds # {} PROVE Max(longest) \in 1 .. Len(v)
  <2> DEFINE ls == {v[i].length : i \in holds}
  <2>1. ls \in SUBSET (0 .. MaxLength) /\ ls # {} /\ MaxLength \in Nat
    BY <1>2, <1>7, MaskAssumption
  <2>2. PICK l \in ls : \A x \in ls : l >= x
    <3> HIDE DEF ls
    <3> QED
      BY <2>1, GreatestExists
  <2>3. PICK i \in holds : l = v[i].length
    OBVIOUS
  <2>4. \A j \in holds : v[j].length \in ls
    OBVIOUS
  <2>5. \A j \in holds : v[j].length <= v[i].length
    <3> SUFFICES ASSUME NEW j \in holds PROVE v[j].length <= v[i].length
      OBVIOUS
    <3>1. v[j].length \in ls /\ v[j].length \in 0 .. MaxLength /\ l \in 0 .. MaxLength
      BY <2>1, <2>2, <2>4
    <3>2. l >= v[j].length /\ v[j].length \in Int /\ l \in Int
      BY <2>1, <2>2, <3>1
    <3> QED
      BY <2>3, <3>2
  <2>6. i \in longest /\ longest \in SUBSET (0 .. n)
    BY <1>2, <2>5
  <2>7. PICK m \in longest : \A x \in longest : m >= x
    <3> HIDE DEF longest
    <3> QED
      BY <1>2, <2>6, GreatestExists
  <2>8. Max(longest) = m
    <3>1. longest \in SUBSET Int
      BY <1>2, <2>6
    <3> HIDE DEF longest
    <3> QED
      BY <2>7, <3>1, MaxIs
  <2> QED
    BY <1>2, <2>7, <2>8
<1> QED
  BY <1>1, <1>6, <1>7

LEMMA TabledStable ==
  ASSUME Entries, Tabled, tables' = tables, Len(v') \in Nat, Len(v) <= Len(v'),
         \A i \in 1 .. Len(v) : v'[i] = v[i] /\ vals'[i] = vals[i]
  PROVE  Tabled'
<1>1. ASSUME NEW k \in 1 .. Len(tables) PROVE TableOK(tables[k])'
  <2> DEFINE t == tables[k]
  <2>1. TableOK(t) /\ t' = t
    BY DEF Tabled
  <2>2. t.n \in 0 .. Len(v')
    BY <2>1 DEF TableOK, Entries
  <2>3. \A a \in Addr : LongestMatch(t.n, a)' = LongestMatch(t.n, a)
    <3>1. t.n \in 0 .. Len(v)
      BY <2>1 DEF TableOK
    <3> HIDE DEF t
    <3> QED
      BY <2>1, <3>1, MatchStable
  <2> HIDE DEF t
  <2>4. TableOK(t)'
    BY <2>1, <2>2, <2>3 DEF TableOK, Lookup, Ascending
  <2> QED
    BY <2>4 DEF t
<1> QED
  BY <1>1 DEF Tabled

LEMMA PublishStep ==
  ASSUME Entries, Tabled, NEW segs \in Seq([start : Addr, vi : -1 .. Len(vals) - 1]), Ascending(segs),
         \A a \in Addr : Decides(segs, a), Publish(segs)
  PROVE  Tabled' /\ sweep' = Quiet
<1> DEFINE t == [segs |-> segs, vals |-> vals, n |-> Len(v)]
<1>1. tables' = Append(tables, t) /\ sweep' = Quiet /\ v' = v /\ vals' = vals
  BY DEF Publish
<1>2. segs \in Segments
  <2> DEFINE T == [start : Addr, vi : -1 .. Len(vals) - 1]
  <2>1. Len(vals) \in Int /\ T \subseteq [start : Addr, vi : Int]
    BY DEF Entries
  <2> HIDE DEF T
  <2>2. segs \in Seq(T)
    BY DEF T
  <2> QED
    BY <2>1, <2>2, SeqWider DEF Segments
<1>3. Len(v) \in Nat /\ vals \in Seq(Int) /\ Len(tables) \in Nat
  <2>1. 1 .. MaxAdds \subseteq Int
    BY BoundAssumption
  <2>2. vals \in Seq(1 .. MaxAdds) /\ Len(v) \in Nat
    BY DEF Entries
  <2>3. vals \in Seq(Int)
    BY <2>1, <2>2, SeqWider
  <2>4. Len(tables) \in Nat
    <3> DEFINE T == [segs : Segments, vals : Seq(Int), n : Nat]
    <3>1. tables \in Seq(T)
      BY DEF Tabled
    <3> HIDE DEF T
    <3> QED
      BY <3>1
  <2> QED
    BY <2>2, <2>3, <2>4
<1>4. \A a \in Addr : Lookup(t, a) = LongestMatch(Len(v), a)
  <2>1. t.segs = segs /\ t.vals = vals
    OBVIOUS
  <2> HIDE DEF t
  <2> QED
    BY <1>2, <2>1, DecidesAnswers
<1>5. TableOK(t)
  BY <1>3, <1>4 DEF TableOK
<1>6. tables' \in Seq([segs : Segments, vals : Seq(Int), n : Nat])
  <2>1. t \in [segs : Segments, vals : Seq(Int), n : Nat]
    BY <1>2, <1>3
  <2> HIDE DEF t
  <2> QED
    BY <1>1, <2>1 DEF Tabled
<1>7. ASSUME NEW k \in 1 .. Len(tables') PROVE TableOK(tables'[k])
  <2> HIDE DEF t
  <2>1. CASE k \in 1 .. Len(tables)
    <3>1. tables'[k] = tables[k]
      BY <1>1, <1>3, <2>1 DEF Tabled
    <3> QED
      BY <2>1, <3>1 DEF Tabled
  <2>2. CASE k = Len(tables) + 1
    <3>1. tables'[k] = t
      BY <1>1, <1>3, <2>2 DEF Tabled
    <3> QED
      BY <1>5, <3>1
  <2>3. k \in 1 .. Len(tables) + 1
    BY <1>1, <1>3 DEF Tabled
  <2> QED
    BY <1>3, <2>1, <2>2, <2>3
<1>8. \A k \in 1 .. Len(tables') : TableOK(tables[k])'
  <2> SUFFICES ASSUME NEW k \in 1 .. Len(tables') PROVE TableOK(tables[k])'
    OBVIOUS
  <2> PICK u : u = tables'[k]
    OBVIOUS
  <2>1. TableOK(u)
    BY <1>7
  <2>2. \A m \in 0 .. Len(v) : \A a \in Addr : LongestMatch(m, a)' = LongestMatch(m, a)
    BY <1>1, MatchStable
  <2>3. \A a \in Addr : LongestMatch(u.n, a)' = LongestMatch(u.n, a)
    BY <2>1, <2>2, SMTT(30) DEF TableOK
  <2>4. TableOK(u)'
    BY <1>1, <2>1, <2>3 DEF TableOK, Lookup, Ascending
  <2> QED
    BY <2>4 DEF TableOK, Lookup, Ascending
<1> QED
  BY <1>1, <1>6, <1>8 DEF Tabled
-----------------------------------------------------------------------------
LEMMA BoundaryStep ==
  ASSUME Entries, Tabled, Sweeping, Boundary
  PROVE  Inv'
<1> DEFINE out == Emit(sweep.out, sweep.at, Winner)
<1>1. Shape /\ Timely /\ Counted /\ Valued /\ Emitted /\ sweep.pc = "boundary" /\ v' = v /\ vals' = vals
  BY DEF Sweeping, Boundary, Publish
<1>2. Entries'
  BY <1>1 DEF Entries
<1>3. CASE sweep.at = Infinity /\ Publish(sweep.out)
  <2>1. ASSUME NEW a \in Addr PROVE Decides(sweep.out, a)
    <3>1. a < sweep.at
      BY <1>3, AddrAssumption DEF Addr, Infinity
    <3> QED
      BY <1>1, <3>1 DEF Emitted, Passed
  <2>2. sweep.out \in Seq([start : Addr, vi : -1 .. Len(vals) - 1]) /\ Ascending(sweep.out)
    BY <1>1 DEF Shape, Emitted
  <2>3. Tabled' /\ sweep' = Quiet
    BY <1>3, <2>1, <2>2, PublishStep
  <2> QED
    BY <1>2, <2>3 DEF Inv, Quiet
<1>4. ASSUME sweep.at # Infinity
      PROVE  /\ out \in Seq([start : Addr, vi : -1 .. Len(vals) - 1]) /\ Ascending(out)
             /\ \A i \in 1 .. Len(out) : out[i].start <= sweep.at
             /\ \A a \in Addr : (\A e \in sweep.evs : a < e.at) => Decides(out, a)
  <2> PICK o : o = out
    OBVIOUS
  <2>1. o = Emit(sweep.out, sweep.at, Winner)
    OBVIOUS
  <2> HIDE DEF out
  <2> QED
    BY <1>1, <1>4, <2>1, EmitDecides DEF out
<1> HIDE DEF out
<1>5. CASE sweep.at # Infinity /\ sweep.evs = {} /\ Publish(out)
  <2>1. \A a \in Addr : Decides(out, a)
    BY <1>4, <1>5
  <2>2. Tabled' /\ sweep' = Quiet
    BY <1>4, <1>5, <2>1, PublishStep
  <2> QED
    BY <1>2, <2>2 DEF Inv, Quiet
<1>6. CASE sweep.at # Infinity /\ sweep' = [sweep EXCEPT !.pc = "events", !.out = out] /\ tables' = tables
  <2>1. /\ sweep'.pc = "events" /\ sweep'.evs = sweep.evs /\ sweep'.at = sweep.at /\ sweep'.count = sweep.count
        /\ sweep'.valBy = sweep.valBy /\ sweep'.out = out
    BY <1>1, <1>6 DEF Shape
  <2>2. Kept' = Kept
    BY <1>1 DEF Kept
  <2>3. Shape'
    BY <1>1, <1>4, <1>6, <2>2 DEF Shape
  <2>4. Timely'
    BY <1>1, <2>1, <2>2 DEF Timely
  <2>5. \A l : Opened(l)' = Opened(l) /\ Closed(l)' = Closed(l)
    BY <2>1, <2>2 DEF Opened, Closed
  <2>6. Counted' /\ Valued'
    BY <1>1, <2>1, <2>5 DEF Counted, Valued
  <2>7. Emitted'
    <3> PICK o : o = out
      OBVIOUS
    <3>1. \A i \in 1 .. Len(o) : \A e \in sweep.evs : o[i].start < e.at
      <4> SUFFICES ASSUME NEW i \in 1 .. Len(o), NEW e \in sweep.evs PROVE o[i].start < e.at
        OBVIOUS
      <4>1. o[i].start <= sweep.at /\ sweep.at < e.at
        BY <1>1, <1>4, <1>6 DEF Timely
      <4>2. o[i].start \in Int
        BY <1>4, <1>6, StartTypes
      <4>3. e.at \in Int
        <5>1. PICK q \in Kept : e = Open(q) \/ e = Close(q)
          BY <1>1 DEF Shape, Events
        <5>2. q.lo \in Int /\ Past(q) \in Int
          BY EventFacts
        <5> QED
          BY <5>1, <5>2 DEF Open, Close
      <4>4. sweep.at \in Int
        BY <1>1 DEF Shape
      <4> QED
        BY <4>1, <4>2, <4>3, <4>4
    <3>2. ASSUME NEW a \in Addr, \A e \in sweep.evs : a < e.at PROVE Decides(o, a)'
      <4>1. Decides(o, a)
        BY <1>4, <1>6, <3>2
      <4> QED
        BY <2>2, <4>1 DEF Decides, RightIndex
    <3>3. Ascending(o)
      BY <1>4, <1>6
    <3>4. o = sweep'.out
      BY <2>1
    <3>5. \A a \in Addr : Passed(a)' => Decides(sweep.out, a)'
      BY <2>1, <3>2, <3>4 DEF Passed, Decides
    <3> QED
      BY <2>1, <3>1, <3>3, <3>4, <3>5 DEF Emitted, Ascending
  <2>8. Tabled'
    <3>1. Len(v) \in Nat
      BY DEF Entries
    <3> QED
      BY <1>1, <1>6, <3>1, TabledStable
  <2> QED
    BY <1>2, <2>3, <2>4, <2>6, <2>7, <2>8 DEF Inv, Sweeping
<1> QED
  BY <1>3, <1>5, <1>6 DEF Boundary, out

LEMMA FreezeStep ==
  ASSUME Entries, Tabled, Freeze
  PROVE  Inv'
<1>1. v' = v /\ vals' = vals
  BY DEF Freeze, Publish
<1>2. Entries'
  BY <1>1 DEF Entries
<1>3. CASE v = <<>> /\ Publish(<<>>)
  <2>1. Kept = {}
    BY <1>3 DEF Kept, dedup
  <2>2. \A a \in Addr : Decides(<<>>, a)
    BY <2>1 DEF Decides, RightIndex
  <2>3. Tabled' /\ sweep' = Quiet
    <3>1. <<>> \in Seq([start : Addr, vi : -1 .. Len(vals) - 1]) /\ Ascending(<<>>)
      BY DEF Ascending
    <3> QED
      BY <1>3, <2>2, <3>1, PublishStep
  <2> QED
    BY <1>2, <2>3 DEF Inv, Quiet
<1>4. CASE sweep' = [Quiet EXCEPT !.pc = "events", !.evs = Events(dedup({v[i] : i \in 1 .. Len(v)}))] /\ tables' = tables
  <2>1. sweep' = [pc |-> "events", evs |-> Events(Kept), at |-> 0, count |-> [l \in Lengths |-> 0],
                  valBy |-> [l \in Lengths |-> 0], out |-> <<>>]
    BY <1>4 DEF Kept, Quiet
  <2>2. Kept' = Kept
    BY <1>1 DEF Kept
  <2>3. Shape'
    <3>1. 0 \in 0 .. Infinity /\ 0 \in 0 .. MaxAdds - 1
      BY AddrAssumption, BoundAssumption DEF Infinity
    <3>2. /\ [l \in Lengths |-> 0] \in [Lengths -> Int] /\ [l \in Lengths |-> 0] \in [Lengths -> 0 .. MaxAdds - 1]
          /\ <<>> \in Seq([start : Addr, vi : -1 .. Len(vals) - 1])
      BY <3>1
    <3> QED
      BY <1>1, <2>1, <2>2, <3>1, <3>2 DEF Shape
  <2>4. \A p \in Kept : Open(p) \in sweep'.evs /\ Close(p) \in sweep'.evs
    BY <2>1 DEF Events
  <2>5. Timely'
    <3> SUFFICES ASSUME NEW e \in Events(Kept) PROVE 0 <= e.at
      BY <2>1, <2>2, <2>4 DEF Timely
    <3>1. PICK q \in Kept : e = Open(q) \/ e = Close(q)
      BY DEF Events
    <3>2. q.lo \in 0 .. Infinity /\ Past(q) \in 0 .. Infinity
      BY EventFacts
    <3> QED
      BY <3>1, <3>2 DEF Open, Close
  <2>6. \A l : Opened(l)' = {} /\ Closed(l)' = {}
    BY <2>2, <2>4 DEF Opened, Closed
  <2>7. Counted' /\ Valued'
    <3>1. Cardinality({}) = 0
      BY FS_EmptySet
    <3>2. \A l \in Lengths : sweep'.count[l] = 0
      BY <2>1
    <3> QED
      BY <2>6, <3>1, <3>2 DEF Counted, Valued
  <2>8. Emitted'
    <3>1. ASSUME NEW a \in Addr, Passed(a)' PROVE RightIndex(-1, a)
      <4>1. \A q \in Kept : a < q.lo
        BY <2>1, <2>4, <3>1 DEF Passed, Open
      <4>2. \A q \in Kept : q.lo \in Int /\ a \in Int
        BY EventFacts, AddrAssumption DEF Addr
      <4> QED
        BY <4>1, <4>2 DEF RightIndex, Holds
    <3>2. ASSUME NEW a \in Addr, Passed(a)' PROVE Decides(sweep.out, a)'
      <4>1. RightIndex(-1, a)'
        BY <2>2, <3>1, <3>2 DEF RightIndex
      <4>2. Len(sweep'.out) = 0
        BY <2>1
      <4> QED
        BY <4>1, <4>2 DEF Decides
    <3> QED
      BY <2>1, <3>2 DEF Emitted, Ascending
  <2>9. Tabled'
    <3>1. Len(v) \in Nat
      BY DEF Entries
    <3> QED
      BY <1>1, <1>4, <3>1, TabledStable
  <2> QED
    BY <1>2, <2>3, <2>5, <2>7, <2>8, <2>9 DEF Inv, Sweeping
<1> QED
  BY <1>3, <1>4 DEF Freeze
-----------------------------------------------------------------------------
(* Any number of prefixes added at once, with the values given. *)
LEMMA GrowStep ==
  ASSUME Entries, Tabled, sweep = Quiet, NEW ps \in Seq(Prefixes), NEW xs \in Seq(1 .. MaxAdds), Len(xs) = Len(ps),
         \A i \in 1 .. Len(ps) : xs[i] <= Len(vals) + 1,
         Len(v) + Len(ps) <= MaxAdds,
         v' = v \o [i \in 1 .. Len(ps) |-> Entry(ps[i], Len(vals) + i - 1)],
         vals' = vals \o xs, UNCHANGED <<tables, sweep>>
  PROVE  Inv'
<1> DEFINE n == Len(v)
<1> DEFINE m == Len(ps)
<1> DEFINE new == [i \in 1 .. m |-> Entry(ps[i], n + i - 1)]
<1>1. n \in Nat /\ m \in Nat /\ Len(vals) = n /\ n + m <= MaxAdds /\ MaxAdds \in Nat
  BY BoundAssumption DEF Entries
<1>2. \A i \in 1 .. m : ps[i] \in Prefixes
  OBVIOUS
<1>3. \A i \in 1 .. m : new[i] = Entry(ps[i], n + i - 1) /\ new[i] \in EntrySet /\ new[i].vi = n + i - 1
  <2> SUFFICES ASSUME NEW i \in 1 .. m PROVE Entry(ps[i], n + i - 1) \in EntrySet /\ Entry(ps[i], n + i - 1).vi = n + i - 1
    OBVIOUS
  <2>1. ps[i].lo \in Addr /\ ps[i].hi \in Addr /\ ps[i].length \in Lengths
    BY <1>2, PrefixAssumption, MaskAssumption
  <2>2. n + i - 1 \in 0 .. MaxAdds - 1
    BY <1>1
  <2> QED
    BY <2>1, <2>2 DEF Entry, EntrySet
<1>4. v \in Seq(EntrySet) /\ new \in Seq(EntrySet) /\ Len(new) = m
  <2>1. v \in Seq(EntrySet)
    BY DEF Entries
  <2>2. new \in [1 .. m -> EntrySet]
    BY <1>3
  <2> HIDE DEF new, m
  <2> QED
    BY <1>1, <2>1, <2>2, MakeSeq
<1>5. v' = v \o new
  BY <1>1
<1>6. /\ v' \in Seq(EntrySet) /\ Len(v') = n + m
      /\ \A i \in 1 .. n : v'[i] = v[i]
      /\ \A i \in 1 .. m : v'[n + i] = new[i]
  <2> HIDE DEF new
  <2>1. /\ v \o new \in Seq(EntrySet) /\ Len(v \o new) = Len(v) + Len(new)
        /\ \A i \in 1 .. Len(v) : (v \o new)[i] = v[i]
        /\ \A i \in 1 .. Len(new) : (v \o new)[Len(v) + i] = new[i]
    <3>1. v \o new \in Seq(EntrySet) /\ Len(v \o new) = Len(v) + Len(new)
      BY <1>4, Concat
    <3>2. \A i \in 1 .. Len(v) : (v \o new)[i] = v[i]
      BY <1>4, Concat
    <3>3. \A i \in 1 .. Len(new) : (v \o new)[Len(v) + i] = new[i]
      BY <1>4, Concat
    <3> QED
      BY <3>1, <3>2, <3>3
  <2> QED
    BY <1>4, <1>5, <2>1
<1>8. /\ vals \in Seq(1 .. MaxAdds) /\ vals' \in Seq(1 .. MaxAdds) /\ Len(vals') = n + m
      /\ \A i \in 1 .. n : vals'[i] = vals[i]
      /\ \A i \in 1 .. m : vals'[n + i] = xs[i]
  <2>1. vals \in Seq(1 .. MaxAdds)
    BY DEF Entries
  <2>2. /\ vals \o xs \in Seq(1 .. MaxAdds) /\ Len(vals \o xs) = Len(vals) + Len(xs)
        /\ \A i \in 1 .. Len(vals) : (vals \o xs)[i] = vals[i]
        /\ \A i \in 1 .. Len(xs) : (vals \o xs)[Len(vals) + i] = xs[i]
    <3>1. vals \o xs \in Seq(1 .. MaxAdds) /\ Len(vals \o xs) = Len(vals) + Len(xs)
      BY <2>1, Concat
    <3>2. \A i \in 1 .. Len(vals) : (vals \o xs)[i] = vals[i]
      BY <2>1, Concat
    <3>3. \A i \in 1 .. Len(xs) : (vals \o xs)[Len(vals) + i] = xs[i]
      BY <2>1, Concat
    <3> QED
      BY <3>1, <3>2, <3>3
  <2> QED
    BY <1>1, <2>1, <2>2
<1>10. \A i \in 1 .. n + m : i \in 1 .. n \/ \E j \in 1 .. m : i = n + j
  <2> SUFFICES ASSUME NEW i \in 1 .. n + m, i \notin 1 .. n PROVE \E j \in 1 .. m : i = n + j
    OBVIOUS
  <2>1. i - n \in 1 .. m /\ i = n + (i - n)
    BY <1>1
  <2> QED
    BY <2>1
<1>11. \A i \in 1 .. n + m :
         /\ v'[i].vi = i - 1
         /\ \E p \in Prefixes : p.lo = v'[i].lo /\ p.hi = v'[i].hi /\ p.length = v'[i].length
         /\ vals'[i] <= i
  <2> SUFFICES ASSUME NEW i \in 1 .. n + m
               PROVE  /\ v'[i].vi = i - 1
                      /\ \E p \in Prefixes : p.lo = v'[i].lo /\ p.hi = v'[i].hi /\ p.length = v'[i].length
                      /\ vals'[i] <= i
    OBVIOUS
  <2>1. CASE i \in 1 .. n
    <3>1. /\ v[i].vi = i - 1 /\ vals[i] <= i
          /\ \E p \in Prefixes : p.lo = v[i].lo /\ p.hi = v[i].hi /\ p.length = v[i].length
      BY <1>1, <2>1 DEF Entries
    <3> HIDE DEF n
    <3> QED
      BY <1>6, <1>8, <2>1, <3>1
  <2>2. ASSUME NEW j \in 1 .. m, i = n + j
        PROVE  /\ v'[i].vi = i - 1
               /\ \E p \in Prefixes : p.lo = v'[i].lo /\ p.hi = v'[i].hi /\ p.length = v'[i].length
               /\ vals'[i] <= i
    <3>1. v'[i] = new[j] /\ vals'[i] = xs[j]
      BY <1>6, <1>8, <2>2
    <3>2. new[j] = Entry(ps[j], n + j - 1)
      BY <1>3
    <3>3. v'[i].lo = ps[j].lo /\ v'[i].hi = ps[j].hi /\ v'[i].length = ps[j].length /\ v'[i].vi = n + j - 1
      <4> HIDE DEF new
      <4>1. v'[i] = Entry(ps[j], n + j - 1)
        BY <3>1, <3>2
      <4> PICK e : e = v'[i]
        OBVIOUS
      <4>2. e = [lo |-> ps[j].lo, hi |-> ps[j].hi, length |-> ps[j].length, vi |-> n + j - 1]
        BY <4>1 DEF Entry
      <4>3. e.lo = ps[j].lo /\ e.hi = ps[j].hi /\ e.length = ps[j].length /\ e.vi = n + j - 1
        BY <4>2, SMTT(30)
      <4> QED
        BY <4>3
    <3>4. xs[j] <= n + 1 /\ xs[j] \in Int
      BY <1>1, <1>8, SMTT(30)
    <3>5. vals'[i] <= i
      BY <1>1, <2>2, <3>1, <3>4, SMTT(30)
    <3> QED
      <4>1. v'[i].vi = i - 1
        BY <1>1, <2>2, <3>3, SMTT(30)
      <4>2. ps[j] \in Prefixes
        BY <1>2
      <4> QED
        BY <3>3, <3>5, <4>1, <4>2
  <2> QED
    BY <1>10, <2>1, <2>2
<1>12. Entries'
  <2> HIDE DEF n, m, new
  <2> QED
    BY <1>1, <1>6, <1>8, <1>11 DEF Entries
<1>13. Tabled'
  <2>1. \A i \in 1 .. Len(v) : v'[i] = v[i] /\ vals'[i] = vals[i]
    BY <1>6, <1>8
  <2>2. Len(v') \in Nat /\ Len(v) <= Len(v')
    BY <1>1, <1>6
  <2> QED
    BY <2>1, <2>2, TabledStable
<1> QED
  BY <1>12, <1>13 DEF Inv, Quiet

LEMMA FreshType ==
  ASSUME Entries, Len(vals) < MaxAdds
  PROVE  Fresh \in 1 .. MaxAdds /\ Fresh <= Len(vals) + 1
<1>1. vals \in Seq(1 .. MaxAdds) /\ Len(vals) \in Nat /\ MaxAdds \in Nat /\ \A i \in 1 .. Len(vals) : vals[i] <= i
  BY BoundAssumption DEF Entries
<1>2. CASE vals = <<>>
  BY <1>1, <1>2, BoundAssumption DEF Fresh
<1>3. CASE vals # <<>>
  <2>1. Len(vals) \in 1 .. Len(vals)
    BY <1>1, <1>3
  <2>2. vals[Len(vals)] \in 1 .. MaxAdds /\ vals[Len(vals)] <= Len(vals)
    BY <1>1, <2>1
  <2> QED
    BY <1>1, <1>3, <2>2 DEF Fresh
<1> QED
  BY <1>2, <1>3

LEMMA AddStep ==
  ASSUME Entries, Tabled, sweep = Quiet, NEW p \in Prefixes, Add(p)
  PROVE  Inv'
<1> DEFINE ps == <<p>>
<1> DEFINE xs == <<Fresh>>
<1>1. Len(v) < MaxAdds /\ Len(v) \in Nat /\ Len(vals) = Len(v) /\ MaxAdds \in Nat
  BY BoundAssumption DEF Add, Entries
<1>2. Fresh \in 1 .. MaxAdds /\ Fresh <= Len(vals) + 1
  BY <1>1, FreshType
<1>3. ps \in Seq(Prefixes) /\ xs \in Seq(1 .. MaxAdds) /\ Len(ps) = 1 /\ Len(xs) = 1 /\ ps[1] = p /\ xs[1] = Fresh
  BY <1>2
<1>4. v' = v \o <<Entry(p, Len(vals))>>
  BY DEF Add, Entries
<1>5. [i \in 1 .. Len(ps) |-> Entry(ps[i], Len(vals) + i - 1)] = <<Entry(p, Len(vals))>>
  <2> HIDE DEF ps
  <2>1. \A i \in 1 .. 1 : Entry(ps[i], Len(vals) + i - 1) = Entry(p, Len(vals))
    BY <1>1, <1>3
  <2> QED
    BY <1>3, <2>1
<1>6. vals' = vals \o xs
  BY DEF Add, Entries
<1>7. UNCHANGED <<tables, sweep>>
  BY DEF Add
<1>8. \A i \in 1 .. Len(ps) : xs[i] <= Len(vals) + 1
  BY <1>2, <1>3
<1> HIDE DEF ps, xs
<1>9. Len(v) + Len(ps) <= MaxAdds
  BY <1>1, <1>3
<1> QED
  BY <1>3, <1>4, <1>5, <1>6, <1>7, <1>8, <1>9, GrowStep

(* Finitely many prefixes, as their ends tell them apart. *)
LEMMA InsideFinite ==
  ASSUME NEW lo \in Addr, NEW hi \in Addr
  PROVE  IsFiniteSet(MaximalInside(lo, hi)) /\ MaximalInside(lo, hi) \in SUBSET Prefixes
<1> DEFINE S == MaximalInside(lo, hi)
<1> DEFINE f == [p \in S |-> <<p.lo, p.hi>>]
<1>1. S \in SUBSET Prefixes
  BY DEF MaximalInside
<1>2. IsFiniteSet(Addr)
  BY AddrAssumption, FS_Interval DEF Addr
<1>3. IsFiniteSet(Addr \X Addr)
  BY <1>2, FS_Product
<1>4. f \in Injection(S, Addr \X Addr)
  <2> HIDE DEF S
  <2>1. f \in [S -> Addr \X Addr]
    BY <1>1, PrefixAssumption
  <2>2. ASSUME NEW p \in S, NEW q \in S, f[p] = f[q] PROVE p = q
    <3>1. p.lo = q.lo /\ p.hi = q.hi /\ p \in Prefixes /\ q \in Prefixes
      BY <1>1, <2>2
    <3> QED
      BY <3>1, EndsAssumption
  <2> HIDE DEF f
  <2> QED
    BY <2>1, <2>2 DEF Injection, IsInjective
<1>5. IsFiniteSet(S)
  <2> HIDE DEF S, f
  <2> QED
    BY <1>3, <1>4, FS_Injection
<1> QED
  BY <1>1, <1>5

LEMMA RangeSeq ==
  ASSUME NEW lo \in Addr, NEW hi \in Addr, NEW ps \in RangePrefixes(lo, hi)
  PROVE  ps \in Seq(Prefixes)
<1> DEFINE S == MaximalInside(lo, hi)
<1>1. Cardinality(S) \in Nat /\ S \in SUBSET Prefixes
  <2>1. IsFiniteSet(S) /\ S \in SUBSET Prefixes
    BY InsideFinite
  <2> HIDE DEF S
  <2> QED
    BY <2>1, FS_CardinalityType
<1>2. ps \in [1 .. Cardinality(S) -> S]
  BY DEF RangePrefixes
<1> HIDE DEF S
<1>3. ps \in Seq(S)
  BY <1>1, <1>2, MakeSeq
<1> QED
  BY <1>1, <1>3, SeqWider

LEMMA AddRangeStep ==
  ASSUME Entries, Tabled, sweep = Quiet, NEW lo \in Addr, NEW hi \in Addr, AddRange(lo, hi)
  PROVE  Inv'
<1>1. PICK ps \in RangePrefixes(lo, hi) :
        /\ Len(v) + Len(ps) <= MaxAdds
        /\ v' = v \o [i \in 1 .. Len(ps) |-> Entry(ps[i], Len(vals) + i - 1)]
        /\ vals' = vals \o [i \in 1 .. Len(ps) |-> Fresh]
        /\ UNCHANGED <<tables, sweep>>
  BY DEF AddRange
<1> DEFINE xs == [i \in 1 .. Len(ps) |-> Fresh]
<1>2. ps \in Seq(Prefixes) /\ Len(ps) \in Nat
  <2>1. ps \in Seq(Prefixes)
    BY RangeSeq
  <2> QED
    BY <2>1
<1>3. Len(v) \in Nat /\ Len(vals) = Len(v) /\ MaxAdds \in Nat
  BY BoundAssumption DEF Entries
<1>4. \A i \in 1 .. Len(ps) : Fresh \in 1 .. MaxAdds /\ Fresh <= Len(vals) + 1
  <2> SUFFICES ASSUME NEW i \in 1 .. Len(ps) PROVE Fresh \in 1 .. MaxAdds /\ Fresh <= Len(vals) + 1
    OBVIOUS
  <2>1. Len(vals) < MaxAdds
    BY <1>1, <1>2, <1>3
  <2> QED
    BY <2>1, FreshType
<1>5. xs \in [1 .. Len(ps) -> 1 .. MaxAdds]
  BY <1>4
<1>6. \A i \in 1 .. Len(ps) : xs[i] <= Len(vals) + 1
  BY <1>4
<1>7. vals' = vals \o xs
  BY <1>1
<1> HIDE DEF xs
<1>8. xs \in Seq(1 .. MaxAdds) /\ Len(xs) = Len(ps)
  BY <1>2, <1>5, MakeSeq
<1> QED
  BY <1>1, <1>2, <1>6, <1>7, <1>8, GrowStep

LEMMA InvInit ==
  ASSUME Init
  PROVE  Inv
<1>1. v = <<>> /\ vals = <<>> /\ tables = <<>> /\ sweep = Quiet
  BY DEF Init
<1>2. Entries
  BY <1>1, BoundAssumption DEF Entries
<1>3. Tabled
  BY <1>1 DEF Tabled
<1> QED
  BY <1>1, <1>2, <1>3 DEF Inv

LEMMA InvStep ==
  ASSUME Inv, [Next]_vars
  PROVE  Inv'
<1>1. Entries /\ Tabled /\ (sweep = Quiet \/ Sweeping)
  BY DEF Inv
<1>2. sweep.pc = "idle" => sweep = Quiet
  BY <1>1 DEF Sweeping, Shape
<1>3. sweep.pc \in {"events", "boundary"} => Sweeping
  BY <1>1 DEF Quiet
<1>4. ASSUME NEW p \in Prefixes, Add(p) PROVE Inv'
  BY <1>1, <1>2, <1>4, AddStep DEF Add
<1>5. ASSUME NEW lo \in Addr, NEW hi \in Addr, AddRange(lo, hi) PROVE Inv'
  <2>1. sweep.pc = "idle"
    BY <1>5 DEF AddRange
  <2> QED
    BY <1>1, <1>2, <1>5, <2>1, AddRangeStep
<1>6. CASE Freeze
  BY <1>1, <1>6, FreezeStep
<1>7. ASSUME NEW e \in sweep.evs, Event(e) PROVE Inv'
  <2>1. Sweeping
    BY <1>3, <1>7 DEF Event
  <2>2. Sweeping'
    BY <1>1, <1>7, <2>1, EventStep
  <2>3. Entries'
    BY <1>1, <1>7 DEF Event, Entries
  <2>4. Tabled'
    <3>1. Len(v) \in Nat /\ v' = v /\ vals' = vals /\ tables' = tables
      BY <1>1, <1>7 DEF Event, Entries
    <3> QED
      BY <1>1, <3>1, TabledStable
  <2> QED
    BY <2>2, <2>3, <2>4 DEF Inv
<1>8. CASE Boundary
  <2>1. Sweeping
    BY <1>3, <1>8 DEF Boundary
  <2> QED
    BY <1>1, <1>8, <2>1, BoundaryStep
<1>9. CASE UNCHANGED vars
  <2>1. v' = v /\ vals' = vals /\ tables' = tables /\ sweep' = sweep
    BY <1>9 DEF vars
  <2>2. Entries'
    BY <1>1, <2>1 DEF Entries
  <2>3. Tabled'
    <3>1. Len(v) \in Nat
      BY <1>1 DEF Entries
    <3> QED
      BY <1>1, <2>1, <3>1, TabledStable
  <2>4. sweep = Quiet => sweep' = Quiet'
    BY <2>1 DEF Quiet
  <2>5. Kept' = Kept
    BY <2>1 DEF Kept
  <2>6. Sweeping => Sweeping'
    BY <2>1, <2>5 DEF Sweeping, Shape, Timely, Counted, Valued, Emitted, Opened, Closed, Passed, Decides, RightIndex, Ascending
  <2> QED
    BY <1>1, <2>2, <2>3, <2>4, <2>6 DEF Inv
<1> QED
  BY <1>4, <1>5, <1>6, <1>7, <1>8, <1>9 DEF Next
-----------------------------------------------------------------------------
LEMMA InvTypes ==
  ASSUME Inv
  PROVE  TypeOK
<1>1. Entries /\ Tabled /\ (sweep = Quiet \/ Sweeping)
  BY DEF Inv
<1>2. v \in Seq([lo : Addr, hi : Addr, length : Lengths, vi : 0 .. MaxAdds - 1])
  BY <1>1 DEF Entries, EntrySet
<1>3. Len(vals) = Len(v) /\ vals \in Seq(1 .. MaxAdds)
  BY <1>1 DEF Entries
<1>4. \A k \in 1 .. Len(tables) :
        /\ tables[k].segs \in Seq([start : Addr, vi : -1 .. Len(tables[k].vals) - 1])
        /\ tables[k].n \in 0 .. Len(v)
  BY <1>1 DEF Tabled, TableOK
<1>5. CASE sweep = Quiet
  <2>1. 0 \in 0 .. Infinity /\ 0 \in 0 .. MaxAdds - 1
    BY AddrAssumption, BoundAssumption DEF Infinity
  <2>2. sweep.pc = "idle" /\ sweep.at = 0 /\ sweep.count = [l \in Lengths |-> 0] /\ sweep.valBy = [l \in Lengths |-> 0]
    BY <1>5 DEF Quiet
  <2>3. sweep.count \in [Lengths -> Int] /\ sweep.valBy \in [Lengths -> 0 .. MaxAdds - 1]
    BY <2>1, <2>2
  <2> QED
    BY <1>2, <1>3, <1>4, <2>1, <2>2, <2>3 DEF TypeOK
<1>6. CASE Sweeping
  <2>1. /\ sweep.pc \in {"idle", "events", "boundary"} /\ sweep.at \in 0 .. Infinity
        /\ sweep.count \in [Lengths -> Int] /\ sweep.valBy \in [Lengths -> 0 .. MaxAdds - 1]
    BY <1>6 DEF Sweeping, Shape
  <2> QED
    BY <1>2, <1>3, <1>4, <2>1 DEF TypeOK
<1> QED
  BY <1>1, <1>5, <1>6

LEMMA InvSweep ==
  ASSUME Inv
  PROVE  SweepInvariant
<1>1. Entries /\ Tabled /\ (sweep = Quiet \/ Sweeping)
  BY DEF Inv
<1>2. ASSUME sweep.pc = "boundary", NEW l \in Lengths
      PROVE  LET active == {p \in dedup({v[i] : i \in 1 .. Len(v)}) :
                              p.length = l /\ p.lo <= sweep.at /\ sweep.at <= p.hi}
             IN /\ sweep.count[l] = Cardinality(active)
                /\ \A p \in active : sweep.valBy[l] = p.vi
                /\ sweep.count[l] <= 1
  <2>1. Shape /\ Timely /\ Counted /\ Valued
    BY <1>1, <1>2 DEF Quiet, Sweeping
  <2>2. /\ sweep.count[l] = Cardinality(ActiveAt(l, sweep.at))
        /\ \A p \in ActiveAt(l, sweep.at) : sweep.valBy[l] = p.vi
        /\ sweep.count[l] <= 1
    BY <1>1, <1>2, <2>1, BoundaryTells
  <2>3. ActiveAt(l, sweep.at) = {p \in dedup({v[i] : i \in 1 .. Len(v)}) :
                                   p.length = l /\ p.lo <= sweep.at /\ sweep.at <= p.hi}
    BY DEF ActiveAt, Kept, Holds
  <2> QED
    BY <2>2, <2>3
<1>3. \A k \in 1 .. Len(tables) : \A i, j \in 1 .. Len(tables[k].segs) :
        i < j => tables[k].segs[i].start < tables[k].segs[j].start
  BY <1>1 DEF Tabled, TableOK, Ascending
<1> QED
  BY <1>2, <1>3, InvTypes DEF SweepInvariant

LEMMA TableInvariant == Spec => []Inv
<1>1. Init => Inv
  BY InvInit
<1>2. Inv /\ [Next]_vars => Inv'
  BY InvStep
<1> QED
  BY <1>1, <1>2, PTL DEF Spec

(* Whatever is added in whatever order, whatever order dedup lists the prefixes
   in and sort.Slice leaves the events of one coordinate in: every frozen table
   answers every address with the last value of the longest prefix around it
   among what was added before its Freeze, for ever after. *)
THEOREM TableCorrect == Spec => []TablesExact
<1>1. Inv => TablesExact
  BY DEF Inv, Tabled, TableOK, TablesExact
<1> QED
  BY <1>1, TableInvariant, PTL

(* At every boundary of every sweep the counters tell the prefixes active there,
   at most one of each length, and the segments of every table ascend, which the
   binary search of Lookup needs. *)
THEOREM SweepCorrect == Spec => []SweepInvariant
<1>1. Inv => SweepInvariant
  BY InvSweep
<1> QED
  BY <1>1, TableInvariant, PTL
-----------------------------------------------------------------------------
(* The prefix of entry i is one of the largest inside lo .. hi. *)
Piece(i, lo, hi) ==
  /\ lo <= v[i].lo /\ v[i].hi <= hi
  /\ \A q \in Prefixes : /\ lo <= q.lo /\ q.hi <= hi
                         /\ q.lo <= v[i].lo /\ v[i].hi <= q.hi
                         => q.lo = v[i].lo /\ q.hi = v[i].hi

(* The values of the calls ascend, and each call has added pieces of a range. *)
Pieces ==
  /\ \A i, j \in 1 .. Len(v) : i < j => vals[i] <= vals[j]
  /\ \A x \in 1 .. MaxAdds : \E lo, hi \in Addr : \A i \in 1 .. Len(v) : vals[i] = x => Piece(i, lo, hi)

(* A fresh value is above all others. *)
LEMMA FreshAbove ==
  ASSUME Entries, Pieces
  PROVE  Fresh \in Nat \ {0} /\ \A i \in 1 .. Len(v) : vals[i] < Fresh /\ vals[i] \in Nat
<1>1. Len(v) \in Nat /\ Len(vals) = Len(v) /\ vals \in Seq(1 .. MaxAdds) /\ MaxAdds \in Nat
  BY BoundAssumption DEF Entries
<1>2. \A i \in 1 .. Len(v) : vals[i] \in 1 .. MaxAdds
  BY <1>1, ElementOfSeq
<1>3. CASE vals = <<>>
  BY <1>1, <1>3 DEF Fresh
<1>4. CASE vals # <<>>
  <2>1. Len(v) \in 1 .. Len(v)
    BY <1>1, <1>4
  <2>2. \A i \in 1 .. Len(v) : vals[i] <= vals[Len(v)]
    <3> SUFFICES ASSUME NEW i \in 1 .. Len(v) PROVE vals[i] <= vals[Len(v)]
      OBVIOUS
    <3>1. CASE i < Len(v)
      BY <2>1, <3>1 DEF Pieces
    <3>2. CASE i = Len(v)
      BY <1>2, <3>2
    <3> QED
      BY <1>1, <3>1, <3>2
  <2> QED
    BY <1>1, <1>2, <1>4, <2>1, <2>2 DEF Fresh
<1> QED
  BY <1>3, <1>4

(* More entries, of a value above all others, keep the pieces. *)
LEMMA PiecesGrow ==
  ASSUME Entries, Pieces, NEW lo \in Addr, NEW hi \in Addr, NEW ps \in Seq(Prefixes),
         \A i \in 1 .. Len(ps) : ps[i] \in MaximalInside(lo, hi),
         v' = v \o [i \in 1 .. Len(ps) |-> Entry(ps[i], Len(vals) + i - 1)],
         vals' = vals \o [i \in 1 .. Len(ps) |-> Fresh]
  PROVE  Pieces'
<1> DEFINE n == Len(v)
           m == Len(ps)
<1>1. n \in Nat /\ m \in Nat /\ Len(vals) = n /\ IsSeq(v) /\ IsSeq(vals)
  BY DEF Entries, IsSeq
<1>2. PICK es : es = [i \in 1 .. m |-> Entry(ps[i], Len(vals) + i - 1)]
  OBVIOUS
<1>3. PICK xs : xs = [i \in 1 .. m |-> Fresh]
  OBVIOUS
<1>4. v' = v \o es /\ vals' = vals \o xs
  BY <1>2, <1>3
<1>5. /\ Len(v') = n + m
      /\ \A i \in 1 .. n : v'[i] = v[i] /\ vals'[i] = vals[i]
      /\ \A i \in 1 .. m : v'[n + i] = es[i] /\ vals'[n + i] = xs[i]
  <2>1. PICK S : v \in Seq(S) /\ es \in Seq(S) /\ Len(es) = m
    <3>1. PICK S0 : v \in Seq(S0)
      BY <1>1 DEF IsSeq
    <3>2. PICK S : S = S0 \cup {es[i] : i \in 1 .. m}
      OBVIOUS
    <3>3. es \in [1 .. m -> S]
      BY <1>2, <3>2
    <3>4. es \in Seq(S) /\ Len(es) = m
      BY <1>1, <3>3, MakeSeq
    <3>5. v \in Seq(S)
      BY <3>1, <3>2, SeqWider
    <3> QED
      BY <3>4, <3>5
  <2>2. PICK T : vals \in Seq(T) /\ xs \in Seq(T) /\ Len(xs) = m
    <3>1. PICK S0 : vals \in Seq(S0)
      BY <1>1 DEF IsSeq
    <3>2. PICK S1 : S1 = S0 \cup {Fresh}
      OBVIOUS
    <3>3. xs \in [1 .. m -> S1]
      BY <1>3, <3>2
    <3>4. xs \in Seq(S1) /\ Len(xs) = m
      BY <1>1, <3>3, MakeSeq
    <3>5. vals \in Seq(S1)
      BY <3>1, <3>2, SeqWider
    <3> QED
      BY <3>4, <3>5
  <2>3. /\ Len(v \o es) = n + m
        /\ \A i \in 1 .. n : (v \o es)[i] = v[i]
        /\ \A i \in 1 .. m : (v \o es)[n + i] = es[i]
    <3>1. /\ Len(v \o es) = Len(v) + Len(es)
          /\ \A i \in 1 .. Len(v) : (v \o es)[i] = v[i]
          /\ \A i \in 1 .. Len(es) : (v \o es)[Len(v) + i] = es[i]
      <4>1. v \in Seq(S) /\ es \in Seq(S)
        BY <2>1
      <4> QED
        BY <4>1, Concat
    <3> QED
      BY <2>1, <3>1
  <2>4. /\ \A i \in 1 .. n : (vals \o xs)[i] = vals[i]
        /\ \A i \in 1 .. m : (vals \o xs)[n + i] = xs[i]
    BY <1>1, <2>2, Concat, SMTT(30)
  <2> QED
    BY <1>4, <2>3, <2>4
<1>6. \A i \in 1 .. m : /\ xs[i] = Fresh
                        /\ es[i].lo = ps[i].lo /\ es[i].hi = ps[i].hi
  BY <1>2, <1>3 DEF Entry
<1>7. PICK f \in Nat : f = Fresh /\ \A i \in 1 .. n : vals[i] < f /\ vals[i] \in Nat
  BY FreshAbove
<1>8. ASSUME NEW i \in 1 .. Len(v')
      PROVE  \/ /\ i \in 1 .. n /\ v'[i] = v[i] /\ vals'[i] = vals[i]
                /\ vals'[i] \in Nat /\ vals'[i] < f /\ vals'[i] # f
             \/ i \notin 1 .. n /\ vals'[i] = f /\ \E k \in 1 .. m : v'[i] = es[k]
  <2>1. CASE i \in 1 .. n
    <3>1. v'[i] = v[i] /\ vals'[i] = vals[i]
      BY <1>5, <2>1
    <3>2. vals[i] \in Nat /\ vals[i] < f /\ f \in Nat
      BY <1>7, <2>1
    <3>3. vals[i] # f
      BY <3>2
    <3> QED
      BY <2>1, <3>1, <3>2, <3>3
  <2>2. CASE i \notin 1 .. n
    <3>1. i - n \in 1 .. m /\ i = n + (i - n)
      BY <1>1, <1>5, <2>2
    <3>2. PICK k \in 1 .. m : i = n + k
      BY <3>1
    <3>3. v'[i] = es[k] /\ vals'[i] = f
      BY <1>5, <1>6, <1>7, <3>2
    <3> QED
      BY <2>2, <3>3
  <2> QED
    BY <2>1, <2>2
<1> HIDE DEF n, m
<1>9. \A i, j \in 1 .. Len(v') : i < j => vals'[i] <= vals'[j]
  <2> SUFFICES ASSUME NEW i \in 1 .. Len(v'), NEW j \in 1 .. Len(v'), i < j
               PROVE  vals'[i] <= vals'[j]
    OBVIOUS
  <2>1. CASE i \in 1 .. n /\ j \in 1 .. n
    <3>1. vals[i] <= vals[j]
      BY <2>1 DEF Pieces, n
    <3>2. vals'[i] = vals[i] /\ vals'[j] = vals[j]
      BY <1>5, <2>1
    <3> QED
      BY <3>1, <3>2
  <2>2. CASE j \notin 1 .. n
    <3>1. vals'[j] = f /\ (vals'[i] = f \/ (vals'[i] \in Nat /\ vals'[i] < f))
      BY <1>8, <2>2
    <3>2. PICK a, b : a = vals'[i] /\ b = vals'[j]
      OBVIOUS
    <3>3. b = f /\ (a = f \/ (a \in Nat /\ a < f)) /\ f \in Nat
      BY <3>1, <3>2
    <3>4. a <= b
      BY <3>3
    <3> QED
      BY <3>2, <3>4, Zenon
  <2>3. i \notin 1 .. n => j \notin 1 .. n
    BY <1>1, <1>5
  <2> QED
    BY <2>1, <2>2, <2>3
<1>10. ASSUME NEW x \in 1 .. MaxAdds
       PROVE  \E l, h \in Addr : \A i \in 1 .. Len(v') : vals'[i] = x => Piece(i, l, h)'
  <2>1. CASE x # f
    <3>1. PICK l, h \in Addr : \A i \in 1 .. n : vals[i] = x => Piece(i, l, h)
      BY DEF Pieces, n
    <3>2. \A i \in 1 .. Len(v') : vals'[i] = x => i \in 1 .. n /\ v'[i] = v[i] /\ vals[i] = x
      BY <1>8, <2>1
    <3>3. ASSUME NEW i \in 1 .. Len(v'), vals'[i] = x
          PROVE  Piece(i, l, h)'
      <4>1. v'[i] = v[i] /\ Piece(i, l, h)
        BY <3>1, <3>2, <3>3
      <4> QED
        BY <4>1 DEF Piece
    <3> QED
      BY <3>3
  <2>2. CASE x = f
    <3>1. ASSUME NEW i \in 1 .. Len(v'), vals'[i] = x
          PROVE  Piece(i, lo, hi)'
      <4>1. PICK k \in 1 .. m : v'[i] = es[k]
        BY <1>8, <2>2, <3>1
      <4>2. v'[i].lo = ps[k].lo /\ v'[i].hi = ps[k].hi /\ ps[k] \in MaximalInside(lo, hi)
        BY <1>6, <4>1, SMTT(30) DEF m
      <4> QED
        BY <4>2 DEF Piece, MaximalInside, Around
    <3> QED
      BY <3>1
  <2> QED
    BY <2>1, <2>2
<1> QED
  BY <1>9, <1>10 DEF Pieces

LEMMA PiecesInit == Init => Pieces
<1> SUFFICES ASSUME Init PROVE Pieces
  OBVIOUS
<1>1. v = <<>> /\ 1 .. Len(v) = {}
  BY DEF Init
<1> QED
  BY <1>1, AddrAssumption DEF Pieces, Addr

(* Only an addition has entries to give, and it gives pieces of one range. *)
LEMMA PiecesStep ==
  ASSUME Inv, Pieces, [Next]_vars
  PROVE  Pieces'
<1>1. Entries
  BY DEF Inv
<1>2. CASE UNCHANGED <<v, vals>>
  BY <1>2 DEF Pieces, Piece
<1>3. ASSUME NEW p \in Prefixes, Add(p)
      PROVE  Pieces'
  <2>0. <<p>> \in Seq(Prefixes)
    OBVIOUS
  <2>1. PICK ps \in Seq(Prefixes) : ps = <<p>>
    BY <2>0
  <2>2. Len(ps) = 1 /\ ps[1] = p /\ p.lo \in Addr /\ p.hi \in Addr /\ p.lo <= p.hi
    BY <2>1, PrefixAssumption
  <2>3. p \in MaximalInside(p.lo, p.hi)
    <3>1. \A q \in Prefixes : q.lo \in Addr /\ q.hi \in Addr
      BY PrefixAssumption
    <3>2. ASSUME NEW q \in Prefixes, p.lo <= q.lo, q.hi <= p.hi, q.lo <= p.lo, p.hi <= q.hi
          PROVE  q = p
      <4>1. q.lo = p.lo /\ q.hi = p.hi
        BY <2>2, <3>1, <3>2, AddrAssumption DEF Addr
      <4> QED
        BY <4>1, EndsAssumption
    <3>3. p.lo <= p.lo /\ p.hi <= p.hi
      BY <2>2, AddrAssumption DEF Addr
    <3> QED
      BY <3>2, <3>3 DEF MaximalInside, Around
  <2>4. \A i \in 1 .. Len(ps) : ps[i] \in MaximalInside(p.lo, p.hi)
    BY <2>2, <2>3
  <2>5. Append(v, Entry(p, Len(vals))) = v \o [i \in 1 .. Len(ps) |-> Entry(ps[i], Len(vals) + i - 1)]
    <3>1. Len(vals) + 1 - 1 = Len(vals)
      BY <1>1 DEF Entries
    <3>2. [i \in 1 .. 1 |-> Entry(ps[i], Len(vals) + i - 1)] = <<Entry(p, Len(vals))>>
      <4>1. \A i \in 1 .. 1 : Entry(ps[i], Len(vals) + i - 1) = Entry(p, Len(vals))
        BY <2>2, <3>1
      <4> QED
        BY <4>1
    <3>3. Append(v, Entry(p, Len(vals))) = v \o <<Entry(p, Len(vals))>>
      <4>1. IsSeq(v)
        BY <1>1 DEF Entries, IsSeq
      <4> QED
        BY <4>1, SeqAppend
    <3> QED
      BY <2>2, <3>2, <3>3
  <2>6. Append(vals, Fresh) = vals \o [i \in 1 .. Len(ps) |-> Fresh]
    <3>1. [i \in 1 .. 1 |-> Fresh] = <<Fresh>>
      OBVIOUS
    <3>2. IsSeq(vals)
      BY <1>1 DEF Entries, IsSeq
    <3>3. Append(vals, Fresh) = vals \o <<Fresh>>
      BY <3>2, SeqAppend
    <3> QED
      BY <2>2, <3>1, <3>3
  <2>7. /\ v' = v \o [i \in 1 .. Len(ps) |-> Entry(ps[i], Len(vals) + i - 1)]
        /\ vals' = vals \o [i \in 1 .. Len(ps) |-> Fresh]
    BY <1>3, <2>5, <2>6 DEF Add
  <2> QED
    BY <1>1, <2>2, <2>4, <2>7, PiecesGrow
<1>4. ASSUME NEW lo \in Addr, NEW hi \in Addr, AddRange(lo, hi)
      PROVE  Pieces'
  <2>1. PICK ps \in RangePrefixes(lo, hi) :
          /\ v' = v \o [i \in 1 .. Len(ps) |-> Entry(ps[i], Len(vals) + i - 1)]
          /\ vals' = vals \o [i \in 1 .. Len(ps) |-> Fresh]
    BY <1>4 DEF AddRange
  <2>2. ps \in Seq(Prefixes)
    BY RangeSeq
  <2>3. \A i \in 1 .. Len(ps) : ps[i] \in MaximalInside(lo, hi)
    <3>1. DOMAIN ps = 1 .. Len(ps)
      BY <2>2
    <3>2. PICK n : ps \in [1 .. n -> MaximalInside(lo, hi)]
      BY DEF RangePrefixes
    <3> QED
      BY <3>1, <3>2
  <2> QED
    BY <1>1, <2>1, <2>2, <2>3, PiecesGrow
<1> QED
  BY <1>2, <1>3, <1>4 DEF Next, vars, Freeze, Event, Boundary, Publish

(* The value of the longest match belongs to a longest prefix that no later one
   of its length holds the address with. *)
LEMMA LongestMatchOf ==
  ASSUME Entries, NEW n \in 0 .. Len(v), NEW a \in Addr, NEW i \in 1 .. n, Holds(v[i], a)
  PROVE  \E j \in 1 .. n :
           /\ Holds(v[j], a) /\ LongestMatch(n, a) = vals[j]
           /\ v[i].length <= v[j].length
           /\ v[i].length = v[j].length => i <= j
<1> DEFINE holds == {k \in 1 .. n : v[k].lo <= a /\ a <= v[k].hi}
           longest == {k \in holds : \A j \in holds : v[j].length <= v[k].length}
           lens == {v[k].length : k \in holds}
<1>1. n \in Nat /\ MaxLength \in Nat /\ \A k \in 1 .. n : v[k].length \in 0 .. MaxLength
  <2>1. Len(v) \in Nat /\ \A k \in 1 .. Len(v) : v[k] \in EntrySet
    BY ElementOfSeq DEF Entries
  <2> QED
    BY <2>1, MaskAssumption DEF EntrySet, Lengths
<1>2. i \in holds
  BY DEF Holds
<1>3. PICK m \in lens : \A y \in lens : m >= y
  <2>1. lens \in SUBSET (0 .. MaxLength) /\ lens # {}
    BY <1>1, <1>2
  <2> HIDE DEF lens
  <2> QED
    BY <1>1, <2>1, GreatestExists
<1>4. longest # {} /\ longest \in SUBSET (0 .. n) /\ longest \in SUBSET Int
  <2>1. PICK k \in holds : v[k].length = m
    BY <1>3
  <2>2. \A j \in holds : v[j].length <= v[k].length
    BY <1>1, <1>3, <2>1
  <2>3. k \in longest
    BY <2>1, <2>2
  <2>4. longest \in SUBSET (1 .. n)
    OBVIOUS
  <2> HIDE DEF longest
  <2> QED
    BY <1>1, <2>3, <2>4
<1>5. PICK j \in longest : \A k \in longest : j >= k
  <2> HIDE DEF longest
  <2> QED
    BY <1>1, <1>4, GreatestExists
<1>6. Max(longest) = j
  <2> HIDE DEF longest
  <2> QED
    BY <1>4, <1>5, MaxIs
<1>7. LongestMatch(n, a) = vals[j]
  <2>1. LongestMatch(n, a) = IF holds = {} THEN None ELSE vals[Max(longest)]
    BY DEF LongestMatch
  <2> QED
    BY <1>2, <1>6, <2>1
<1>8. j \in 1 .. n /\ Holds(v[j], a) /\ v[i].length <= v[j].length
  BY <1>2, <1>5 DEF Holds
<1>9. ASSUME v[i].length = v[j].length PROVE i <= j
  <2>1. i \in longest
    BY <1>2, <1>5, <1>9
  <2> QED
    BY <1>1, <1>5, <2>1
<1> QED
  BY <1>7, <1>8, <1>9

LEMMA LaterAt ==
  ASSUME Entries, Pieces, NEW n \in 0 .. Len(v), NEW x \in 1 .. MaxAdds, NEW y \in 1 .. MaxAdds, x < y,
         Given(n, y) \subseteq Given(n, x), NEW a \in Given(n, y)
  PROVE  LongestMatch(n, a) # x
<1> SUFFICES ASSUME LongestMatch(n, a) = x PROVE FALSE
  OBVIOUS
<1>1. Len(v) \in Nat /\ MaxAdds \in Nat
  BY BoundAssumption DEF Entries
<1>2. \A b, z : b \in Given(n, z) <=> \E m \in 1 .. n : vals[m] = z /\ b \in v[m].lo .. v[m].hi
  BY DEF Given
<1>3. PICK i \in 1 .. n : vals[i] = y /\ a \in v[i].lo .. v[i].hi
  BY <1>2
<1>4. \A j \in 1 .. n : j \in 1 .. Len(v) /\ v[j].lo \in Addr /\ v[j].hi \in Addr /\ v[j].length \in Int
  <2>1. \A j \in 1 .. Len(v) : v[j] \in EntrySet
    BY ElementOfSeq DEF Entries
  <2> QED
    BY <1>1, <2>1, MaskAssumption DEF EntrySet, Lengths
<1>5. a \in Addr /\ Holds(v[i], a)
  BY <1>3, <1>4, AddrAssumption DEF Addr, Holds
<1>6. PICK j \in 1 .. n :
        /\ Holds(v[j], a) /\ vals[j] = x
        /\ v[i].length <= v[j].length
        /\ v[i].length = v[j].length => i <= j
  <2>1. \E j \in 1 .. n :
          /\ Holds(v[j], a) /\ LongestMatch(n, a) = vals[j]
          /\ v[i].length <= v[j].length
          /\ v[i].length = v[j].length => i <= j
    BY <1>5, LongestMatchOf
  <2>2. \A z : LongestMatch(n, a) = z => x = z
    OBVIOUS
  <2> QED
    BY <2>1, <2>2, Zenon
<1>7. vals[j] = x
  BY <1>6
<1>8. j < i
  <2>1. i < j => vals[i] <= vals[j]
    BY <1>4 DEF Pieces
  <2>2. ~(y <= x) /\ y # x
    BY <1>1
  <2>3. i # j
    BY <1>3, <1>7, <2>2
  <2>4. ~(i < j)
    BY <1>3, <1>7, <2>1, <2>2
  <2> QED
    BY <1>1, <2>3, <2>4
<1>9. v[i].length < v[j].length
  <2>1. v[i].length # v[j].length
    <3>1. ~(i <= j)
      BY <1>1, <1>8
    <3>2. v[i].length = v[j].length => i <= j
      BY <1>6
    <3> QED
      BY <3>1, <3>2, Zenon
  <2> QED
    BY <1>4, <1>6, <2>1
<1>10. PICK p \in Prefixes : p.lo = v[i].lo /\ p.hi = v[i].hi /\ p.length = v[i].length
  BY <1>4 DEF Entries
<1>11. PICK q \in Prefixes : q.lo = v[j].lo /\ q.hi = v[j].hi /\ q.length = v[j].length
  BY <1>4 DEF Entries
<1>12. /\ p.lo \in Int /\ p.hi \in Int /\ q.lo \in Int /\ q.hi \in Int /\ p.lo <= p.hi
       /\ p.length \in Int /\ q.length \in Int /\ p.length < q.length
       /\ a \in Int /\ p.lo <= a /\ a <= p.hi /\ q.lo <= a /\ a <= q.hi
  <2>1. p.lo \in Addr /\ p.hi \in Addr /\ q.lo \in Addr /\ q.hi \in Addr /\ p.lo <= p.hi
    BY PrefixAssumption
  <2>2. \A b \in Addr : b \in Int
    BY AddrAssumption DEF Addr
  <2>3. p.length \in Int /\ q.length \in Int /\ p.length < q.length
    BY <1>4, <1>9, <1>10, <1>11
  <2>4. p.lo <= a /\ a <= p.hi /\ q.lo <= a /\ a <= q.hi
    <3>1. v[i].lo <= a /\ a <= v[i].hi
      BY <1>5 DEF Holds
    <3>2. v[j].lo <= a /\ a <= v[j].hi
      BY <1>6 DEF Holds
    <3> QED
      BY <1>10, <1>11, <3>1, <3>2
  <2> QED
    BY <1>5, <2>1, <2>2, <2>3, <2>4
<1>13. Around(q, p)
  <2>1. Around(p, q) \/ Around(q, p)
    <3>1. ~(p.hi < q.lo) /\ ~(q.hi < p.lo)
      BY <1>12
    <3>2. \/ p.hi < q.lo \/ q.hi < p.lo
          \/ p.lo <= q.lo /\ q.hi <= p.hi
          \/ q.lo <= p.lo /\ p.hi <= q.hi
      BY NestingAssumption
    <3> QED
      BY <3>1, <3>2 DEF Around
  <2>2. ~Around(p, q)
    <3>1. p # q /\ ~(q.length < p.length)
      BY <1>12
    <3> QED
      BY <3>1, MaskAssumption
  <2> QED
    BY <2>1, <2>2
<1>14. p.lo # q.lo \/ p.hi # q.hi
  BY <1>12, EndsAssumption
<1>15. PICK lo, hi \in Addr : \A m \in 1 .. Len(v) : vals[m] = x => Piece(m, lo, hi)
  BY DEF Pieces
<1>16. lo <= p.lo /\ p.hi <= hi
  <2>1. ASSUME NEW b \in p.lo .. p.hi
        PROVE  lo <= b /\ b <= hi
    <3>1. b \in Given(n, x)
      BY <1>2, <1>3, <1>10
    <3>2. PICK m \in 1 .. n : vals[m] = x /\ b \in v[m].lo .. v[m].hi
      BY <1>2, <3>1
    <3>3. lo <= v[m].lo /\ v[m].hi <= hi /\ v[m].lo \in Int /\ v[m].hi \in Int /\ lo \in Int /\ hi \in Int
      <4>1. Piece(m, lo, hi)
        BY <1>4, <1>15, <3>2
      <4>2. \A c \in Addr : c \in Int
        BY AddrAssumption DEF Addr
      <4> QED
        BY <1>4, <4>1, <4>2 DEF Piece
    <3> QED
      BY <3>2, <3>3
  <2>2. p.lo \in p.lo .. p.hi /\ p.hi \in p.lo .. p.hi
    BY <1>12
  <2> QED
    BY <2>1, <2>2
<1>17. Piece(j, lo, hi)
  BY <1>4, <1>7, <1>15
<1> QED
  BY <1>11, <1>13, <1>14, <1>16, <1>17 DEF Piece, Around

LEMMA LaterWins == Inv /\ Pieces => LaterNestedRangeWins
<1> SUFFICES ASSUME Inv, Pieces, NEW k \in 1 .. Len(tables), NEW x \in 1 .. MaxAdds, NEW y \in 1 .. MaxAdds, x < y,
                    Given(tables[k].n, y) \subseteq Given(tables[k].n, x), NEW a \in Given(tables[k].n, y)
             PROVE  Lookup(tables[k], a) # x
  BY DEF LaterNestedRangeWins
<1>1. PICK n \in 0 .. Len(v) : n = tables[k].n /\ \A b \in Addr : Lookup(tables[k], b) = LongestMatch(n, b)
  BY DEF Inv, Tabled, TableOK
<1>2. Entries
  BY DEF Inv
<1>3. LongestMatch(n, a) # x
  BY <1>1, <1>2, LaterAt
<1>4. a \in Addr
  <2>1. PICK i \in 1 .. n : a \in v[i].lo .. v[i].hi
    BY <1>1 DEF Given
  <2>2. v[i].lo \in Addr /\ v[i].hi \in Addr
    <3>1. i \in 1 .. Len(v) /\ v \in Seq(EntrySet)
      BY <1>1, <1>2 DEF Entries
    <3>2. v[i] \in EntrySet
      BY <3>1, ElementOfSeq
    <3> QED
      BY <3>2 DEF EntrySet
  <2> QED
    BY <2>1, <2>2, AddrAssumption, SMTT(30) DEF Addr
<1> QED
  BY <1>1, <1>3, <1>4

(* In every table a range added after one that covers it decides every address
   of its own: the later call's pieces are never shorter than the pieces of the
   range around them, because those are the largest prefixes inside it, and win
   where the lengths are equal. *)
THEOREM LaterNestedWins == Spec => []LaterNestedRangeWins
<1>1. Init => Inv /\ Pieces
  BY InvInit, PiecesInit
<1>2. (Inv /\ Pieces) /\ [Next]_vars => (Inv /\ Pieces)'
  BY InvStep, PiecesStep
<1>3. Inv /\ Pieces => LaterNestedRangeWins
  BY LaterWins
<1> QED
  BY <1>1, <1>2, <1>3, PTL DEF Spec
-----------------------------------------------------------------------------
(* A range is added as the prefixes it splits into: the split of low .. high
   and the blocks it has taken so far, up to next. *)
VARIABLES low, high, blocks, next, ended

Split == INSTANCE RangeSplit WITH lo <- low, hi <- high, cover <- blocks, a <- next, done <- ended

(* Each block was the largest at its place, and none in the range is larger. *)
SplitInv ==
  /\ Split!TypeOK
  /\ Split!Tiles
  /\ \A p \in blocks : Split!Maximal(p)

LEMMA PrefixTypes ==
  ASSUME NEW p \in Prefixes
  PROVE  /\ p.lo \in Split!Addr /\ p.hi \in Split!Addr
         /\ p.lo \in Int /\ p.hi \in Int /\ p.lo <= p.hi
BY PrefixAssumption, AddrAssumption DEF Split!Addr, Addr

LEMMA SplitInvInit ==
  ASSUME Split!Init
  PROVE  SplitInv
<1>1. low \in Int /\ high \in Int /\ \A x \in Split!Addr : x \in Int
  BY AddrAssumption DEF Split!Init, Split!Addr, Addr
<1>2. Split!TypeOK
  BY <1>1 DEF Split!Init, Split!TypeOK
<1>3. ASSUME NEW x \in Split!Addr
      PROVE  ~(low <= x /\ (x < next \/ (ended /\ x <= high)))
  <2>1. x \in Int /\ next = low /\ (ended <=> high < low)
    BY <1>1 DEF Split!Init
  <2> QED
    BY <1>1, <2>1
<1>4. Split!Tiles
  BY <1>3 DEF Split!Init, Split!Tiles
<1> QED
  BY <1>2, <1>4 DEF Split!Init, SplitInv

(* The largest prefix at next that stays inside is a maximal one: a larger one
   would have to start before it, inside a block that is maximal already. *)
LEMMA LargestIsMaximal ==
  ASSUME SplitInv, ~ended, NEW p \in Prefixes, Split!Largest(p)
  PROVE  Split!Maximal(p)
<1>1. /\ low \in Int /\ high \in Int /\ next \in Int /\ low <= next
      /\ p.lo = next /\ p.hi <= high /\ p.lo \in Int /\ p.hi \in Int /\ p.lo <= p.hi
  BY PrefixTypes, AddrAssumption DEF SplitInv, Split!TypeOK, Split!Largest, Split!Addr, Addr
<1>2. Split!Inside(p)
  BY <1>1 DEF Split!Inside
<1>3. ASSUME NEW q \in Prefixes, Split!Inside(q), Split!Around(p, q)
      PROVE  q = p
  <2>1. /\ q.lo \in Split!Addr /\ q.lo \in Int /\ q.hi \in Int
        /\ q.lo <= next /\ p.hi <= q.hi /\ low <= q.lo /\ q.hi <= high
    BY <1>1, <1>3, PrefixTypes DEF Split!Inside, Split!Around
  <2>2. CASE q.lo = next
    <3>1. q.hi <= p.hi
      BY <2>1, <2>2 DEF Split!Largest
    <3>2. q.lo = p.lo /\ q.hi = p.hi
      BY <1>1, <2>1, <2>2, <3>1
    <3> QED
      BY <3>2, EndsAssumption
  <2>3. CASE q.lo < next
    <3>1. PICK b \in blocks : b.lo <= q.lo /\ q.lo <= b.hi
      BY <2>1, <2>3 DEF SplitInv, Split!Tiles
    <3>2. b \in Prefixes /\ b.lo \in Int /\ b.hi \in Int /\ Split!Maximal(b) /\ b.hi \in Split!Addr
      BY <3>1, PrefixTypes DEF SplitInv, Split!TypeOK
    <3>3. b.hi < next
      <4>1. b.lo <= b.hi /\ low <= b.hi
        BY <1>1, <3>2, PrefixTypes DEF Split!Maximal, Split!Inside
      <4> QED
        BY <3>1, <3>2, <4>1 DEF SplitInv, Split!Tiles
    <3>4. Split!Around(b, q)
      <4>1. b.hi < q.hi
        BY <1>1, <2>1, <3>2, <3>3
      <4>2. \/ b.hi < q.lo \/ q.hi < b.lo
            \/ b.lo <= q.lo /\ q.hi <= b.hi
            \/ q.lo <= b.lo /\ b.hi <= q.hi
        BY <3>2, NestingAssumption
      <4> QED
        BY <2>1, <3>1, <3>2, <4>1, <4>2 DEF Split!Around
    <3>5. q = b
      BY <1>3, <3>2, <3>4 DEF Split!Maximal
    <3> QED
      BY <1>1, <2>1, <3>2, <3>3, <3>5
  <2> QED
    BY <2>1, <2>2, <2>3, <1>1
<1> QED
  BY <1>2, <1>3 DEF Split!Maximal

LEMMA SplitInvStep ==
  ASSUME SplitInv, [Split!Next]_Split!vars
  PROVE  SplitInv'
<1>1. CASE Split!Take
  <2>1. PICK p \in Prefixes :
          /\ Split!Largest(p) /\ ~ended
          /\ blocks' = blocks \cup {p}
          /\ ended' = (p.hi >= high)
          /\ next' = IF p.hi >= high THEN next ELSE p.hi + 1
          /\ UNCHANGED <<low, high>>
    BY <1>1 DEF Split!Take
  <2>2. /\ low \in Int /\ high \in Int /\ next \in Int /\ low <= next
        /\ p.lo = next /\ p.hi <= high /\ p.lo \in Int /\ p.hi \in Int /\ p.lo <= p.hi
        /\ high <= MaxAddr /\ MaxAddr \in Int /\ next <= high /\ low >= 0
    BY <2>1, PrefixTypes, AddrAssumption DEF SplitInv, Split!TypeOK, Split!Largest, Split!Addr, Addr
  <2>3. Split!TypeOK'
    <3>1. ended' \in BOOLEAN /\ blocks' \subseteq Prefixes
      BY <2>1 DEF SplitInv, Split!TypeOK
    <3>2. next' \in Split!Addr /\ low <= next' /\ next' <= high
      BY <2>1, <2>2 DEF Split!Addr, Addr
    <3> QED
      BY <2>1, <3>1, <3>2 DEF SplitInv, Split!TypeOK
  <2>4. \A q \in blocks : Split!Maximal(q)'
    BY <2>1 DEF SplitInv, Split!Maximal, Split!Inside, Split!Around
  <2>5. Split!Maximal(p)'
    BY <2>1, LargestIsMaximal DEF Split!Maximal, Split!Inside, Split!Around
  <2>6. Split!Tiles'
    <3>1. \A q \in blocks : q.hi < next /\ q.lo \in Int /\ q.hi \in Int
      <4> TAKE q \in blocks
      <4>1. q.lo \in Int /\ q.hi \in Int /\ q.lo <= q.hi /\ q.hi \in Split!Addr
        BY PrefixTypes DEF SplitInv, Split!TypeOK
      <4>2. q.hi < next
        BY <2>1, <4>1 DEF SplitInv, Split!Tiles
      <4> QED
        BY <4>1, <4>2
    <3>2. \A q, s \in blocks' : q # s => q.hi < s.lo \/ s.hi < q.lo
      <4> TAKE q, s \in blocks'
      <4>1. CASE q \in blocks /\ s \in blocks
        BY <4>1 DEF SplitInv, Split!Tiles
      <4>2. CASE q = p /\ s \in blocks
        BY <2>2, <3>1, <4>2
      <4>3. CASE s = p /\ q \in blocks
        BY <2>2, <3>1, <4>3
      <4> QED
        BY <2>1, <4>1, <4>2, <4>3
    <3>3. ASSUME NEW x \in Split!Addr
          PROVE  low' <= x /\ (x < next' \/ (ended' /\ x <= high')) <=>
                   \E q \in blocks' : q.lo <= x /\ x <= q.hi
      <4>1. x \in Int
        BY AddrAssumption DEF Split!Addr, Addr
      <4>2. (low <= x /\ x < next) <=> \E q \in blocks : q.lo <= x /\ x <= q.hi
        BY <2>1 DEF SplitInv, Split!Tiles
      <4>3. (\E q \in blocks' : q.lo <= x /\ x <= q.hi) <=>
              (low <= x /\ x < next) \/ (p.lo <= x /\ x <= p.hi)
        BY <2>1, <4>2
      <4>4. CASE p.hi >= high
        <5>1. ended' /\ next' = next /\ low' = low /\ high' = high
          BY <2>1, <4>4
        <5>2. p.hi = high
          BY <2>2, <4>4
        <5> QED
          BY <2>2, <4>1, <4>3, <5>1, <5>2
      <4>5. CASE ~(p.hi >= high)
        <5>1. ~ended' /\ next' = p.hi + 1 /\ low' = low /\ high' = high
          BY <2>1, <4>5
        <5> QED
          BY <2>2, <4>1, <4>3, <5>1
      <4> QED
        BY <4>4, <4>5
    <3> QED
      BY <3>2, <3>3 DEF Split!Tiles
  <2> QED
    BY <2>1, <2>3, <2>4, <2>5, <2>6 DEF SplitInv
<1>2. CASE UNCHANGED Split!vars
  BY <1>2 DEF Split!vars, SplitInv, Split!TypeOK, Split!Tiles, Split!Maximal, Split!Inside, Split!Around
<1> QED
  BY <1>1, <1>2 DEF Split!Next

(* When the split is done, a maximal prefix of the range cannot be missing:
   it shares its first address with a block, and the two are nested. *)
LEMMA DoneIsMinimal ==
  ASSUME SplitInv
  PROVE  Split!MinimalCover
<1>1. SUFFICES ASSUME ended, NEW q \in Prefixes, Split!Maximal(q)
               PROVE  q \in blocks
  BY DEF SplitInv, Split!TypeOK, Split!MinimalCover
<1>2. /\ q.lo \in Split!Addr /\ q.lo \in Int /\ q.hi \in Int /\ q.lo <= q.hi
      /\ low <= q.lo /\ q.hi <= high /\ low \in Int /\ high \in Int
  BY <1>1, PrefixTypes, AddrAssumption DEF Split!Maximal, Split!Inside, SplitInv, Split!TypeOK, Split!Addr, Addr
<1>3. PICK b \in blocks : b.lo <= q.lo /\ q.lo <= b.hi
  BY <1>1, <1>2 DEF SplitInv, Split!Tiles
<1>4. b \in Prefixes /\ Split!Maximal(b) /\ b.lo \in Int /\ b.hi \in Int
  BY <1>3, PrefixTypes DEF SplitInv, Split!TypeOK
<1>5. Split!Around(b, q) \/ Split!Around(q, b)
  <2>1. \/ b.hi < q.lo \/ q.hi < b.lo
        \/ b.lo <= q.lo /\ q.hi <= b.hi
        \/ q.lo <= b.lo /\ b.hi <= q.hi
    BY <1>4, NestingAssumption
  <2> QED
    BY <1>2, <1>3, <1>4, <2>1 DEF Split!Around
<1>6. q = b
  BY <1>1, <1>4, <1>5 DEF Split!Maximal
<1> QED
  BY <1>3, <1>6

(* RangePrefixes: the blocks are disjoint, fill the range exactly, and are in
   the end the maximal prefixes inside it, hence as few as can be. *)
THEOREM SplitCorrect == Split!Spec => [](Split!TypeOK /\ Split!Tiles /\ Split!MinimalCover)
<1>1. Split!Init => SplitInv
  BY SplitInvInit
<1>2. SplitInv /\ [Split!Next]_Split!vars => SplitInv'
  BY SplitInvStep
<1>3. SplitInv => Split!TypeOK /\ Split!Tiles /\ Split!MinimalCover
  BY DoneIsMinimal DEF SplitInv
<1> QED
  BY <1>1, <1>2, <1>3, PTL DEF Split!Spec
=============================================================================
