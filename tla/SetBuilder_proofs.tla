-------------------------- MODULE SetBuilder_proofs -------------------------
(***************************************************************************)
(* Proofs about SetBuilder, for every address width, every set of          *)
(* prefixes, any number of readers, intervals and frozen sets: first the   *)
(* builder and its Freeze, for any use; then Set.Contains in the           *)
(* documented use of the package, every Add before the one Freeze and then *)
(* any number of concurrent queries; last, that the whole of SetBuilder    *)
(* then implements Membership.                                             *)
(***************************************************************************)
EXTENDS SetBuilder, SequenceTheorems, TLAPS

-----------------------------------------------------------------------------
(* Facts about the helpers. *)

(* An address is covered iff one of the cells holds it (Cover). *)
LEMMA CoverMember ==
  ASSUME NEW cells \in Seq(IPRange), NEW n \in 0 .. Len(cells), NEW x
  PROVE  x \in Cover(cells, n) <=>
           x \in Addr /\ \E i \in 1 .. n : cells[i].lo <= x /\ x <= cells[i].hi
<1>1. \A i \in 1 .. n : cells[i] \in IPRange
  BY LenProperties, ElementOfSeq
<1>2. x \in Cover(cells, n) <=> \E i \in 1 .. n : x \in Interval(cells[i])
  BY DEF Cover
<1>3. \A i \in 1 .. n : x \in Interval(cells[i]) <=>
        x \in Addr /\ cells[i].lo <= x /\ x <= cells[i].hi
  <2> SUFFICES ASSUME NEW i \in 1 .. n
               PROVE  x \in Interval(cells[i]) <=>
                        x \in Addr /\ cells[i].lo <= x /\ x <= cells[i].hi
    OBVIOUS
  <2>1. cells[i].lo \in Addr /\ cells[i].hi \in Addr
    BY <1>1 DEF IPRange
  <2> QED
    BY <2>1, AddrAssumption DEF Interval, Addr
<1> QED
  BY <1>2, <1>3

(* The bounds of every interval are addresses. *)
LEMMA CellTypes ==
  ASSUME NEW cells \in Seq(IPRange)
  PROVE  /\ Len(cells) \in Nat /\ MaxAddr \in Nat
         /\ \A i \in 1 .. Len(cells) : /\ cells[i] \in IPRange
                                     /\ cells[i].lo \in Addr /\ cells[i].hi \in Addr
                                     /\ cells[i].lo \in Int /\ cells[i].hi \in Int
                                     /\ cells[i].hi <= MaxAddr
<1>1. Len(cells) \in Nat /\ \A i \in 1 .. Len(cells) : cells[i] \in IPRange
  BY LenProperties, ElementOfSeq
<1>2. \A i \in 1 .. Len(cells) : cells[i].lo \in Addr /\ cells[i].hi \in Addr
  BY <1>1 DEF IPRange
<1> QED
  BY <1>1, <1>2, AddrAssumption DEF Addr

(* Sequences of intervals that hold the same addresses have the same cover. *)
LEMMA CoverEqual ==
  ASSUME NEW c \in Seq(IPRange), NEW d \in Seq(IPRange),
         \A x \in Addr : \A i \in 1 .. Len(c) : c[i].lo <= x /\ x <= c[i].hi
           => \E j \in 1 .. Len(d) : d[j].lo <= x /\ x <= d[j].hi,
         \A x \in Addr : \A j \in 1 .. Len(d) : d[j].lo <= x /\ x <= d[j].hi
           => \E i \in 1 .. Len(c) : c[i].lo <= x /\ x <= c[i].hi
  PROVE  Cover(c, Len(c)) = Cover(d, Len(d))
<1>0. Len(c) \in 0 .. Len(c) /\ Len(d) \in 0 .. Len(d)
  BY LenProperties
<1>1. \A x : x \in Cover(c, Len(c)) <=> x \in Cover(d, Len(d))
  <2> TAKE x
  <2>1. x \in Cover(c, Len(c)) <=> x \in Addr /\ \E i \in 1 .. Len(c) : c[i].lo <= x /\ x <= c[i].hi
    BY <1>0, CoverMember
  <2>2. x \in Cover(d, Len(d)) <=> x \in Addr /\ \E i \in 1 .. Len(d) : d[i].lo <= x /\ x <= d[i].hi
    BY <1>0, CoverMember
  <2> QED
    BY <2>1, <2>2
<1> QED
  BY <1>1, Zenon

(* The builder's array exists and holds intervals. *)
LEMMA BufType ==
  ASSUME TypeOK
  PROVE  /\ Len(heap) \in Nat \ {0}
         /\ Buf \in Array
         /\ Buf.cells \in Seq(IPRange)
         /\ Len(Buf.cells) \in Nat
         /\ \A i \in 1 .. Len(Buf.cells) : Buf.cells[i] \in IPRange
<1>1. Len(heap) \in Nat \ {0}
  BY EmptySeq DEF TypeOK
<1>2. Buf \in Array
  BY <1>1, ElementOfSeq DEF TypeOK, Buf
<1>3. Buf.cells \in Seq(IPRange)
  BY <1>2 DEF Array
<1> QED
  BY <1>1, <1>2, <1>3, LenProperties, ElementOfSeq

(* The fields of a frozen set. *)
LEMMA SetFields ==
  ASSUME TypeOK
  PROVE  /\ Len(sets) \in Nat /\ DOMAIN sets = 1 .. Len(sets)
         /\ \A k \in 1 .. Len(sets) : /\ sets[k].arr \in 1 .. Len(heap)
                                     /\ sets[k].len \in Nat
                                     /\ sets[k].len <= Len(Window(sets[k]))
                                     /\ Window(sets[k]) \in Seq(IPRange)
                                     /\ Len(Window(sets[k])) \in Nat
<1> DEFINE T == [arr : Nat, len : Nat, want : SUBSET Addr]
<1>1. sets \in Seq(T) /\ heap \in Seq(Array)
  BY DEF TypeOK
<1>2. Len(sets) \in Nat /\ DOMAIN sets = 1 .. Len(sets)
  BY <1>1, LenProperties
<1>3. \A k \in 1 .. Len(sets) : sets[k] \in T
  BY <1>1, ElementOfSeq
<1>4. \A k \in 1 .. Len(sets) : heap[sets[k].arr] \in Array
  BY <1>1, ElementOfSeq DEF TypeOK
<1>5. \A k \in 1 .. Len(sets) : Window(sets[k]) \in Seq(IPRange)
  BY <1>4 DEF Array, Window
<1>6. \A k \in 1 .. Len(sets) : Len(Window(sets[k])) \in Nat
  BY <1>5, LenProperties
<1> QED
  BY <1>2, <1>3, <1>5, <1>6 DEF TypeOK, Window

(* Rewriting the cells of the builder's array leaves every other array and
   every length alone (the writes of mergeRanges). *)
LEMMA SetCellsEffect ==
  ASSUME TypeOK, NEW c \in Seq(IPRange), Len(c) = Len(Buf.cells), SetCells(c)
  PROVE  /\ heap' # <<>>
         /\ heap' \in Seq(Array)
         /\ Len(heap') = Len(heap)
         /\ (Buf.cells)' = c
         /\ \A k \in 1 .. Len(heap) : /\ Len(heap'[k].cells) = Len(heap[k].cells)
                                      /\ heap'[k].cap = heap[k].cap
<1> DEFINE a == [cap |-> Buf.cap, cells |-> c]
<1>1. Len(heap) \in 1 .. Len(heap) /\ a \in Array /\ heap \in Seq(Array)
  BY BufType DEF Array, TypeOK
<1>2. heap' = [heap EXCEPT ![Len(heap)] = a]
  BY DEF SetCells
<1>3. /\ heap' \in Seq(Array)
      /\ Len(heap') = Len(heap)
      /\ \A j \in 1 .. Len(heap) : heap'[j] = IF j = Len(heap) THEN a ELSE heap[j]
  <2> HIDE DEF a
  <2>1. LET h == [heap EXCEPT ![Len(heap)] = a]
        IN /\ h \in Seq(Array)
           /\ Len(h) = Len(heap)
           /\ \A j \in 1 .. Len(heap) : h[j] = IF j = Len(heap) THEN a ELSE heap[j]
    BY <1>1, ExceptSeq
  <2> QED
    BY <1>2, <2>1
<1>4. heap' # <<>>
  BY <1>3, BufType, EmptySeq
<1>5. Buf' = a
  BY <1>1, <1>3 DEF Buf
<1> QED
  BY <1>1, <1>3, <1>4, <1>5 DEF Buf

(* Adding an interval appends it to what the builder holds, and shortens no
   array, whether append grew the array or wrote in place. *)
LEMMA StoreEffect ==
  ASSUME TypeOK, NEW r \in IPRange, heap' = AppendTo(heap, r)
  PROVE  /\ heap' # <<>>
         /\ heap' \in Seq(Array)
         /\ Len(heap) <= Len(heap')
         /\ Len(heap') \in Nat
         /\ (Buf.cells)' = Append(Buf.cells, r)
         /\ \A k \in 1 .. Len(heap') : Len(heap'[k].cells) <= heap'[k].cap
         /\ \A k \in 1 .. Len(heap) : Len(heap[k].cells) <= Len(heap'[k].cells)
<1> DEFINE cells == Append(Buf.cells, r)
<1>0. /\ heap \in Seq(Array) /\ Len(heap) \in Nat \ {0}
      /\ Buf \in Array /\ Buf.cells \in Seq(IPRange) /\ Len(Buf.cells) \in Nat
      /\ Buf.cap \in Nat
      /\ \A k \in 1 .. Len(heap) : /\ Len(heap[k].cells) <= heap[k].cap
                                   /\ Len(heap[k].cells) \in Nat
  <2>1. \A k \in 1 .. Len(heap) : heap[k] \in Array
    BY ElementOfSeq DEF TypeOK
  <2>2. \A k \in 1 .. Len(heap) : Len(heap[k].cells) \in Nat
    BY <2>1, LenProperties DEF Array
  <2> QED
    BY <2>2, BufType DEF TypeOK, Array
<1>1. /\ cells = Append(Buf.cells, r)
      /\ cells \in Seq(IPRange)
      /\ Len(cells) = Len(Buf.cells) + 1
  BY <1>0
<1>2. CASE Len(Buf.cells) < Buf.cap
  <2> DEFINE a == [cap |-> Buf.cap, cells |-> cells]
  <2>1. heap' = [heap EXCEPT ![Len(heap)] = a]
    BY <1>2 DEF AppendTo, Buf
  <2>2. a \in Array /\ a.cells = cells /\ a.cap = Buf.cap
    BY <1>0, <1>1 DEF Array
  <2> HIDE DEF a, cells
  <2>3. /\ heap' \in Seq(Array)
        /\ Len(heap') = Len(heap)
        /\ \A j \in 1 .. Len(heap) : heap'[j] = IF j = Len(heap) THEN a ELSE heap[j]
    <3>1. LET h == [heap EXCEPT ![Len(heap)] = a]
          IN /\ h \in Seq(Array)
             /\ Len(h) = Len(heap)
             /\ \A j \in 1 .. Len(heap) : h[j] = IF j = Len(heap) THEN a ELSE heap[j]
      BY <1>0, <2>2, ExceptSeq
    <3> QED
      BY <2>1, <3>1
  <2>4. Buf' = a
    BY <1>0, <2>3 DEF Buf
  <2>5. Len(a.cells) <= a.cap /\ Len(Buf.cells) <= Len(a.cells)
    BY <1>0, <1>1, <1>2, <2>2
  <2>6. heap' # <<>>
    BY <1>0, <2>3, EmptySeq
  <2>7. heap'[Len(heap)] = a /\ \A j \in 1 .. Len(heap) : j # Len(heap) => heap'[j] = heap[j]
    BY <1>0, <2>3
  <2>8. \A k \in 1 .. Len(heap') : Len(heap'[k].cells) <= heap'[k].cap
    <3> SUFFICES ASSUME NEW k \in 1 .. Len(heap')
                 PROVE  Len(heap'[k].cells) <= heap'[k].cap
      OBVIOUS
    <3>1. k \in 1 .. Len(heap) /\ Len(heap[k].cells) <= heap[k].cap
      BY <1>0, <2>3
    <3>2. CASE k = Len(heap)
      BY <2>5, <2>7, <3>2
    <3>3. CASE k # Len(heap)
      BY <2>7, <3>1, <3>3
    <3> QED
      BY <3>2, <3>3
  <2>9. \A k \in 1 .. Len(heap) : Len(heap[k].cells) <= Len(heap'[k].cells)
    <3> SUFFICES ASSUME NEW k \in 1 .. Len(heap)
                 PROVE  Len(heap[k].cells) <= Len(heap'[k].cells)
      OBVIOUS
    <3>1. Len(heap[k].cells) \in Nat
      BY <1>0
    <3>2. CASE k = Len(heap)
      BY <2>5, <2>7, <3>2 DEF Buf
    <3>3. CASE k # Len(heap)
      BY <2>7, <3>1, <3>3
    <3> QED
      BY <3>2, <3>3
  <2>10. Len(heap') \in Nat /\ Len(heap) <= Len(heap')
    BY <1>0, <2>3
  <2> QED
    BY <1>1, <2>2, <2>3, <2>4, <2>6, <2>8, <2>9, <2>10
<1>3. CASE ~(Len(Buf.cells) < Buf.cap)
  <2> DEFINE a == [cap |-> Grow(Buf.cap), cells |-> cells]
  <2>1. Grow(Buf.cap) \in Nat /\ Buf.cap + 1 <= Grow(Buf.cap)
    BY <1>0 DEF Grow
  <2>2. a \in Array
    BY <1>1, <2>1 DEF Array
  <2>3. heap' = Append(heap, a)
    BY <1>3 DEF AppendTo, Buf
  <2>4. /\ heap' \in Seq(Array)
        /\ Len(heap') = Len(heap) + 1
        /\ \A j \in 1 .. Len(heap) : heap'[j] = heap[j]
        /\ heap'[Len(heap) + 1] = a
    BY ONLY <1>0, <2>2, <2>3
  <2>5. Buf' = a
    BY <1>0, <2>4 DEF Buf
  <2>6. Len(a.cells) <= a.cap
    BY <1>0, <1>1, <2>1 DEF Buf
  <2>7. heap' # <<>>
    BY <1>0, <2>4, EmptySeq
  <2>8. \A k \in 1 .. Len(heap) : /\ Len(heap'[k].cells) <= heap'[k].cap
                                  /\ Len(heap[k].cells) <= Len(heap'[k].cells)
    <3> TAKE k \in 1 .. Len(heap)
    <3>1. heap'[k] = heap[k] /\ Len(heap[k].cells) <= heap[k].cap /\ Len(heap[k].cells) \in Nat
      BY <1>0, <2>4
    <3> QED
      BY <3>1
  <2>9. \A k \in 1 .. Len(heap') : Len(heap'[k].cells) <= heap'[k].cap
    <3> SUFFICES ASSUME NEW k \in 1 .. Len(heap')
                 PROVE  Len(heap'[k].cells) <= heap'[k].cap
      OBVIOUS
    <3>1. k \in 1 .. Len(heap) \/ k = Len(heap) + 1
      BY <1>0, <2>4
    <3> QED
      BY <2>4, <2>6, <2>8, <3>1
  <2>10. Len(heap') \in Nat /\ Len(heap) <= Len(heap')
    BY <1>0, <2>4
  <2> QED
    BY <2>4, <2>5, <2>7, <2>8, <2>9, <2>10 DEF Buf
<1> QED
  BY <1>2, <1>3

(* Rewriting cells in place keeps the types (the writes of mergeRanges). *)
LEMMA SetCellsType ==
  ASSUME TypeOK, NEW c \in Seq(IPRange), Len(c) = Len(Buf.cells), SetCells(c),
         UNCHANGED <<sets, reader, added>>,
         freeze' \in [pc : {"idle", "merge"}, r : Nat, w : Nat]
  PROVE  TypeOK' /\ (Buf.cells)' = c
<1>1. /\ heap' # <<>>
      /\ heap' \in Seq(Array)
      /\ Len(heap') = Len(heap)
      /\ (Buf.cells)' = c
      /\ \A k \in 1 .. Len(heap) : /\ Len(heap'[k].cells) = Len(heap[k].cells)
                                   /\ heap'[k].cap = heap[k].cap
  BY SetCellsEffect
<1>2. \A k \in 1 .. Len(sets) : sets[k].arr \in 1 .. Len(heap)
  BY DEF TypeOK
<1> QED
  BY <1>1, <1>2 DEF TypeOK

(* Handing out a window of the builder's array keeps the types (Freeze). *)
LEMMA PublishType ==
  ASSUME TypeOK, NEW n \in 0 .. Len(Buf.cells), Publish(n), UNCHANGED <<heap, reader, added>>
  PROVE  /\ TypeOK'
         /\ Len(sets') = Len(sets) + 1
         /\ \A k \in 1 .. Len(sets) : sets'[k] = sets[k]
         /\ sets'[Len(sets) + 1] = [arr |-> Len(heap), len |-> n, want |-> added]
<1> DEFINE s == [arr |-> Len(heap), len |-> n, want |-> added]
<1>1. /\ s \in [arr : Nat, len : Nat, want : SUBSET Addr]
      /\ s.arr \in 1 .. Len(heap)
      /\ s.len <= Len(heap[s.arr].cells)
  BY BufType DEF TypeOK, Buf
<1>2. sets' = Append(sets, s)
  BY DEF Publish
<1> HIDE DEF s
<1>3. /\ sets' \in Seq([arr : Nat, len : Nat, want : SUBSET Addr])
      /\ Len(sets') = Len(sets) + 1
      /\ \A k \in 1 .. Len(sets) : sets'[k] = sets[k]
      /\ sets'[Len(sets) + 1] = s
  BY <1>1, <1>2 DEF TypeOK
<1>4. Len(sets) \in Nat
  BY DEF TypeOK
<1>5. \A k \in 1 .. Len(sets') : /\ sets'[k].arr \in 1 .. Len(heap)
                                 /\ sets'[k].len <= Len(heap[sets'[k].arr].cells)
  <2> SUFFICES ASSUME NEW k \in 1 .. Len(sets')
               PROVE  /\ sets'[k].arr \in 1 .. Len(heap)
                      /\ sets'[k].len <= Len(heap[sets'[k].arr].cells)
    OBVIOUS
  <2>1. CASE k \in 1 .. Len(sets)
    BY <1>3, <2>1 DEF TypeOK
  <2>2. CASE k = Len(sets) + 1
    BY <1>1, <1>3, <2>2
  <2> QED
    BY <1>3, <1>4, <2>1, <2>2
<1>6. freeze' \in [pc : {"idle", "merge"}, r : Nat, w : Nat]
  BY DEF Publish, Idle
<1>7. TypeOK'
  BY <1>3, <1>5, <1>6 DEF TypeOK
<1> QED
  BY <1>3, <1>7 DEF s

(* A sorted order of the cells is again a sequence of the same intervals
   (slices.SortFunc in mergeRanges). *)
LEMMA ReorderSeq ==
  ASSUME NEW cells \in Seq(IPRange), NEW f \in Shuffles(Len(cells))
  PROVE  /\ Reorder(cells, f) \in Seq(IPRange)
         /\ Len(Reorder(cells, f)) = Len(cells)
         /\ \A i \in 1 .. Len(cells) : f[i] \in 1 .. Len(cells)
                                     /\ Reorder(cells, f)[i] = cells[f[i]]
         /\ \A v \in 1 .. Len(cells) : \E i \in 1 .. Len(cells) : f[i] = v
<1>1. Len(cells) \in Nat /\ \A i \in 1 .. Len(cells) : cells[i] \in IPRange
  BY LenProperties, ElementOfSeq
<1>2. f \in [1 .. Len(cells) -> 1 .. Len(cells)]
  BY DEF Shuffles
<1>3. Reorder(cells, f) \in [1 .. Len(cells) -> IPRange]
  BY <1>1, <1>2 DEF Reorder
<1>4. Reorder(cells, f) \in Seq(IPRange)
  BY <1>1, <1>3, SeqDef
<1>5. Len(Reorder(cells, f)) = Len(cells)
  BY <1>1, <1>3, <1>4, LenProperties
<1> QED
  BY <1>2, <1>4, <1>5 DEF Reorder, Shuffles
-----------------------------------------------------------------------------
(* The type invariant. *)

LEMMA InitTypeOK ==
  ASSUME Init
  PROVE  TypeOK
<1>1. [cap |-> 0, cells |-> <<>>] \in Array
  BY DEF Array
<1>2. heap \in Seq(Array) /\ heap # <<>> /\ Len(heap) = 1 /\ heap[1] = [cap |-> 0, cells |-> <<>>]
  BY <1>1 DEF Init
<1>3. /\ sets \in Seq([arr : Nat, len : Nat, want : SUBSET Addr])
      /\ Len(sets) = 0
  BY DEF Init
<1>4. Asleep \in [pc : {"idle", "search", "done"}, set : Nat, a : Addr,
                  i : Nat, j : Nat, ok : BOOLEAN]
  BY AddrAssumption DEF Asleep, Addr
<1> QED
  BY <1>2, <1>3, <1>4 DEF Init, TypeOK, Idle
-----------------------------------------------------------------------------
(* One iteration of mergeRanges, as facts about the cells alone. *)

Valid(cells) == \A i \in 1 .. Len(cells) : cells[i].lo <= cells[i].hi

LEMMA GapWidens ==
  ASSUME NEW x \in Int, NEW y \in Int, NEW z \in Int, x + 1 < y, y <= z
  PROVE  x + 1 < z
OBVIOUS

(* The gap branch: copying the interval at r to w+1 keeps the loop invariant
   and loses no address, because cell w+1 has been read already. *)
LEMMA GapIteration ==
  ASSUME NEW cells \in Seq(IPRange), NEW r \in 1 .. Len(cells), NEW w \in Nat,
         Valid(cells), MergeProgress(cells, r, w),
         plusOneLess(cells[w].hi, cells[r].lo)
  PROVE  LET c == [cells EXCEPT ![w + 1] = cells[r]]
         IN /\ c \in Seq(IPRange) /\ Len(c) = Len(cells)
            /\ Valid(c)
            /\ MergeProgress(c, r + 1, w + 1)
            /\ Cover(c, Len(c)) = Cover(cells, Len(cells))
<1> DEFINE c == [cells EXCEPT ![w + 1] = cells[r]]
<1>1. Len(cells) \in Nat /\ w \in 1 .. Len(cells) /\ w < r /\ w + 1 \in 1 .. Len(cells)
  <2>1. w \in 1 .. Len(cells) /\ w < r
    BY DEF MergeProgress
  <2> QED
    BY <2>1, CellTypes
<1>2. c \in Seq(IPRange) /\ Len(c) = Len(cells)
  BY <1>1, ElementOfSeq, ExceptSeq
<1>3. c[w + 1] = cells[r] /\ \A i \in 1 .. Len(cells) : i # w + 1 => c[i] = cells[i]
  BY <1>1, ElementOfSeq, ExceptSeq
<1> HIDE DEF c
<1>4. \A i \in 1 .. w : i \in 1 .. Len(cells) /\ c[i] = cells[i]
  BY <1>1, <1>3
<1>5. \A i \in r + 1 .. Len(cells) : i \in r .. Len(cells) /\ c[i] = cells[i]
  BY <1>1, <1>3
<1>6. \A i \in 1 .. Len(cells) : /\ cells[i].lo \in Int /\ cells[i].hi \in Int
                              /\ cells[i].lo <= cells[i].hi
  BY CellTypes DEF Valid
<1>7. \A i \in 1 .. Len(cells) : c[i] = cells[r] \/ c[i] = cells[i]
  BY <1>3
<1>8. Valid(c)
  BY <1>2, <1>6, <1>7 DEF Valid
<1>9. Separated(c, w + 1)
  <2>1. \A i \in 1 .. w + 1 : i \in 1 .. Len(cells)
    BY <1>1
  <2>2. \A i \in 1 .. w + 1 : c[i].lo <= c[i].hi
    BY <1>2, <1>8, <2>1 DEF Valid
  <2>3. ASSUME NEW i \in 1 .. w + 1, NEW j \in 1 .. w + 1, i < j
        PROVE  c[i].hi + 1 < c[j].lo
    <3>1. CASE j # w + 1
      <4>1. i \in 1 .. w /\ j \in 1 .. w
        BY <1>1, <2>3, <3>1
      <4>2. cells[i].hi + 1 < cells[j].lo
        BY <2>3, <4>1 DEF MergeProgress, Separated
      <4> QED
        BY <1>4, <4>1, <4>2
    <3>2. CASE j = w + 1 /\ i = w
      <4>1. cells[w].hi + 1 < cells[r].lo
        BY DEF plusOneLess
      <4> QED
        BY <1>1, <1>3, <1>4, <3>2, <4>1
    <3>3. CASE j = w + 1 /\ i # w
      <4>1. i \in 1 .. w /\ w \in 1 .. w /\ i < w
        BY <1>1, <2>3, <3>3
      <4>2. cells[i].hi + 1 < cells[w].lo
        BY <4>1 DEF MergeProgress, Separated
      <4>3. cells[w].lo <= cells[r].lo
        <5>1. \A k \in r .. Len(cells) : cells[w].lo <= cells[k].lo
          BY DEF MergeProgress
        <5> QED
          BY <1>1, <5>1
      <4>4. cells[i].hi + 1 < cells[r].lo
        <5>1. /\ cells[i].hi \in Int /\ cells[w].lo \in Int /\ cells[r].lo \in Int
          BY <1>1, <1>4, <1>6, <4>1
        <5> QED
          BY <4>2, <4>3, <5>1, GapWidens
      <4> QED
        BY <1>3, <1>4, <3>3, <4>1, <4>4
    <3> QED
      BY <3>1, <3>2, <3>3
  <2> QED
    BY <2>2, <2>3 DEF Separated
<1>10. \A i \in 1 .. r : \E j \in 1 .. w + 1 : c[j].lo <= c[i].lo /\ c[i].hi <= c[j].hi
  <2> SUFFICES ASSUME NEW i \in 1 .. r
               PROVE  \E j \in 1 .. w + 1 : c[j].lo <= c[i].lo /\ c[i].hi <= c[j].hi
    OBVIOUS
  <2>1. CASE i = r \/ i = w + 1
    <3>1. c[i] = cells[r] /\ w + 1 \in 1 .. w + 1
      BY <1>1, <1>3, <2>1
    <3> QED
      BY <1>3, <1>6, <3>1
  <2>2. CASE i # r /\ i # w + 1
    <3>1. i \in 1 .. r - 1 /\ i \in 1 .. Len(cells) /\ c[i] = cells[i]
      BY <1>1, <1>3, <2>2
    <3>2. PICK j \in 1 .. w : cells[j].lo <= cells[i].lo /\ cells[i].hi <= cells[j].hi
      BY <3>1 DEF MergeProgress
    <3>3. j \in 1 .. w + 1 /\ c[j] = cells[j]
      BY <1>1, <1>4
    <3> QED
      BY <3>1, <3>2, <3>3
  <2> QED
    BY <2>1, <2>2
<1>11. MergeProgress(c, r + 1, w + 1)
  <2>1. /\ w + 1 \in 1 .. Len(c) /\ r + 1 \in 2 .. Len(c) + 1 /\ w + 1 < r + 1
        /\ (r + 1) - 1 = r
    BY <1>1, <1>2
  <2>2. \A i, j \in r + 1 .. Len(c) : i < j => c[i].lo <= c[j].lo
    BY <1>2, <1>5 DEF MergeProgress
  <2>3. \A j \in r + 1 .. Len(c) : r < j /\ c[w + 1].lo <= c[j].lo
    BY <1>1, <1>2, <1>3, <1>5 DEF MergeProgress
  <2> QED
    BY <1>9, <1>10, <2>1, <2>2, <2>3 DEF MergeProgress
<1>12. Cover(c, Len(c)) = Cover(cells, Len(cells))
  <2>1. ASSUME NEW x \in Addr, NEW i \in 1 .. Len(c), c[i].lo <= x /\ x <= c[i].hi
        PROVE  \E j \in 1 .. Len(cells) : cells[j].lo <= x /\ x <= cells[j].hi
    BY <1>2, <1>7, <2>1
  <2>2. ASSUME NEW x \in Addr, NEW i \in 1 .. Len(cells), cells[i].lo <= x /\ x <= cells[i].hi
        PROVE  \E j \in 1 .. Len(c) : c[j].lo <= x /\ x <= c[j].hi
    <3>0. x \in Int
      BY AddrAssumption DEF Addr
    <3>1. CASE i # w + 1
      BY <1>2, <1>3, <2>2, <3>1
    <3>2. CASE i = w + 1 /\ r = w + 1
      BY <1>2, <1>3, <2>2, <3>2
    <3>3. CASE i = w + 1 /\ r # w + 1
      <4>1. i \in 1 .. r - 1
        BY <1>1, <3>3
      <4>2. PICK j \in 1 .. w : cells[j].lo <= cells[i].lo /\ cells[i].hi <= cells[j].hi
        BY <4>1 DEF MergeProgress
      <4>3. j \in 1 .. Len(cells) /\ c[j] = cells[j]
        BY <1>4
      <4>4. cells[j].lo <= x /\ x <= cells[j].hi
        <5>1. i \in 1 .. Len(cells) /\ cells[i].lo <= x /\ x <= cells[i].hi
          BY <2>2
        <5> QED
          BY <1>6, <3>0, <4>2, <4>3, <5>1
      <4> QED
        BY <1>2, <4>3, <4>4
    <3> QED
      BY <3>1, <3>2, <3>3
  <2>3. \A x \in Addr : \A i \in 1 .. Len(c) : c[i].lo <= x /\ x <= c[i].hi
          => \E j \in 1 .. Len(cells) : cells[j].lo <= x /\ x <= cells[j].hi
    BY <2>1, Zenon
  <2>4. \A x \in Addr : \A i \in 1 .. Len(cells) : cells[i].lo <= x /\ x <= cells[i].hi
          => \E j \in 1 .. Len(c) : c[j].lo <= x /\ x <= c[j].hi
    BY <2>2, Zenon
  <2> QED
    BY <1>2, <2>3, <2>4, CoverEqual, Zenon
<1> QED
  BY <1>2, <1>8, <1>11, <1>12 DEF c

(* The other branch: the last interval of out takes in the one at r, which
   overlaps or touches it, so exactly the same addresses stay covered. *)
LEMMA ExtendIteration ==
  ASSUME NEW cells \in Seq(IPRange), NEW r \in 1 .. Len(cells), NEW w \in Nat,
         Valid(cells), MergeProgress(cells, r, w),
         ~plusOneLess(cells[w].hi, cells[r].lo)
  PROVE  LET c == [cells EXCEPT ![w] = Extend(cells[w], cells[r])]
         IN /\ c \in Seq(IPRange) /\ Len(c) = Len(cells)
            /\ Valid(c)
            /\ MergeProgress(c, r + 1, w)
            /\ Cover(c, Len(c)) = Cover(cells, Len(cells))
<1> DEFINE e == Extend(cells[w], cells[r])
           c == [cells EXCEPT ![w] = e]
<1>1. /\ Len(cells) \in Nat /\ w \in 1 .. Len(cells) /\ w < r
      /\ cells[w].lo <= cells[r].lo
  <2>1. w \in 1 .. Len(cells) /\ w < r /\ \A j \in r .. Len(cells) : cells[w].lo <= cells[j].lo
    BY DEF MergeProgress
  <2> QED
    BY <2>1, CellTypes
<1>2. \A i \in 1 .. Len(cells) : /\ cells[i].lo \in Int /\ cells[i].hi \in Int
                              /\ cells[i].lo <= cells[i].hi
  BY CellTypes DEF Valid
<1>3. cells[r].lo <= cells[w].hi + 1
  <2>1. cells[w].hi = MaxAddr \/ cells[r].lo <= cells[w].hi + 1
    BY <1>1, <1>2 DEF plusOneLess
  <2>2. cells[r].lo <= MaxAddr /\ MaxAddr \in Int
    <3>1. cells[r].hi <= MaxAddr /\ MaxAddr \in Nat
      BY CellTypes
    <3> QED
      BY <1>2, <3>1
  <2> QED
    BY <1>1, <1>2, <2>1, <2>2
<1>4. /\ e \in IPRange
      /\ e.lo = cells[w].lo
      /\ e.hi = IF cells[w].hi < cells[r].hi THEN cells[r].hi ELSE cells[w].hi
  BY <1>1, CellTypes DEF Extend, IPRange
<1> HIDE DEF e
<1>5. /\ e.lo \in Int /\ e.hi \in Int /\ e.lo <= e.hi
      /\ cells[w].hi <= e.hi /\ cells[r].hi <= e.hi
      /\ e.hi = cells[w].hi \/ e.hi = cells[r].hi
  BY <1>1, <1>2, <1>4
<1>6. c \in Seq(IPRange) /\ Len(c) = Len(cells)
  BY <1>1, <1>4, ExceptSeq
<1>7. c[w] = e /\ \A i \in 1 .. Len(cells) : i # w => c[i] = cells[i]
  BY <1>1, <1>4, ExceptSeq
<1> HIDE DEF c
<1>8. \A i \in 1 .. Len(cells) : /\ c[i].lo = cells[i].lo
                              /\ c[i].hi \in Int /\ cells[i].hi <= c[i].hi
  BY <1>2, <1>4, <1>5, <1>7
<1>9. Valid(c)
  <2>1. ASSUME NEW i \in 1 .. Len(c)
        PROVE  c[i].lo <= c[i].hi
    <3>1. /\ cells[i].lo \in Int /\ cells[i].hi \in Int /\ cells[i].lo <= cells[i].hi
          /\ c[i].lo = cells[i].lo /\ c[i].hi \in Int /\ cells[i].hi <= c[i].hi
      BY <1>2, <1>6, <1>8
    <3> QED
      BY <3>1
  <2> QED
    BY <2>1 DEF Valid
<1>10. \A i \in r + 1 .. Len(cells) : i \in r .. Len(cells) /\ c[i].lo = cells[i].lo
  BY <1>1, <1>8
<1>11. Separated(c, w)
  <2>1. \A i \in 1 .. w : i \in 1 .. Len(cells)
    BY <1>1
  <2>2. \A i \in 1 .. w : c[i].lo <= c[i].hi
    BY <1>6, <1>9, <2>1 DEF Valid
  <2>3. ASSUME NEW i \in 1 .. w, NEW j \in 1 .. w, i < j
        PROVE  c[i].hi + 1 < c[j].lo
    <3>1. cells[i].hi + 1 < cells[j].lo
      BY <2>3 DEF MergeProgress, Separated
    <3>2. i # w
      BY <1>1, <2>3
    <3>3. c[i] = cells[i] /\ c[j].lo = cells[j].lo
      BY <1>7, <1>8, <2>1, <3>2
    <3> QED
      BY <3>1, <3>3
  <2> QED
    BY <2>2, <2>3 DEF Separated
<1>12. \A i \in 1 .. r : \E j \in 1 .. w : c[j].lo <= c[i].lo /\ c[i].hi <= c[j].hi
  <2> SUFFICES ASSUME NEW i \in 1 .. r
               PROVE  \E j \in 1 .. w : c[j].lo <= c[i].lo /\ c[i].hi <= c[j].hi
    OBVIOUS
  <2>1. CASE i = w
    <3>1. w \in 1 .. w /\ c[w].lo <= c[w].lo /\ c[w].hi <= c[w].hi
      BY <1>1, <1>5, <1>7
    <3> QED
      BY <2>1, <3>1
  <2>2. CASE i = r
    <3>1. w \in 1 .. w /\ c[r] = cells[r]
      BY <1>1, <1>7
    <3>2. c[w].lo <= c[r].lo /\ c[r].hi <= c[w].hi
      BY <1>1, <1>2, <1>4, <1>5, <1>7, <3>1
    <3> QED
      BY <2>2, <3>1, <3>2
  <2>3. CASE i # r /\ i # w
    <3>1. i \in 1 .. r - 1 /\ i \in 1 .. Len(cells) /\ c[i] = cells[i]
      BY <1>1, <1>7, <2>3
    <3>2. PICK j \in 1 .. w : cells[j].lo <= cells[i].lo /\ cells[i].hi <= cells[j].hi
      BY <3>1 DEF MergeProgress
    <3>3. j \in 1 .. Len(cells)
      BY <1>1
    <3>4. c[j].lo = cells[j].lo /\ cells[j].hi <= c[j].hi /\ c[j].hi \in Int
      BY <1>8, <3>3
    <3>5. c[j].lo <= c[i].lo /\ c[i].hi <= c[j].hi
      BY <1>2, <3>1, <3>2, <3>3, <3>4
    <3> QED
      BY <3>5
  <2> QED
    BY <2>1, <2>2, <2>3
<1>13. MergeProgress(c, r + 1, w)
  <2>1. /\ w \in 1 .. Len(c) /\ r + 1 \in 2 .. Len(c) + 1 /\ w < r + 1
        /\ (r + 1) - 1 = r
    BY <1>1, <1>6
  <2>2. \A i, j \in r + 1 .. Len(c) : i < j => c[i].lo <= c[j].lo
    BY <1>6, <1>10 DEF MergeProgress
  <2>3. \A j \in r + 1 .. Len(c) : c[w].lo <= c[j].lo
    BY <1>4, <1>6, <1>7, <1>10 DEF MergeProgress
  <2> QED
    BY <1>11, <1>12, <2>1, <2>2, <2>3 DEF MergeProgress
<1>14. Cover(c, Len(c)) = Cover(cells, Len(cells))
  <2>1. ASSUME NEW x \in Addr, NEW i \in 1 .. Len(c), c[i].lo <= x /\ x <= c[i].hi
        PROVE  \E j \in 1 .. Len(cells) : cells[j].lo <= x /\ x <= cells[j].hi
    <3>0. x \in Int
      BY AddrAssumption DEF Addr
    <3>1. CASE i # w
      BY <1>6, <1>7, <2>1, <3>1
    <3>2. CASE i = w /\ x <= cells[w].hi
      BY <1>1, <1>4, <1>7, <2>1, <3>2
    <3>3. CASE i = w /\ ~(x <= cells[w].hi)
      <4>1. cells[w].hi < x /\ x <= e.hi
        BY <1>1, <1>2, <1>7, <2>1, <3>0, <3>3
      <4>2. cells[r].lo <= x /\ x <= cells[r].hi
        <5>1. /\ cells[r].lo \in Int /\ cells[r].hi \in Int /\ cells[w].hi \in Int
              /\ e.hi = cells[r].hi \/ e.hi = cells[w].hi
              /\ cells[r].lo <= cells[w].hi + 1 /\ e.hi \in Int
          BY <1>1, <1>2, <1>3, <1>5
        <5>2. cells[w].hi + 1 <= x
          BY <3>0, <4>1, <5>1
        <5>3. e.hi = cells[r].hi
          BY <3>0, <4>1, <5>1
        <5>4. cells[r].lo <= x
          BY <3>0, <5>1, <5>2
        <5> QED
          BY <4>1, <5>3, <5>4
      <4> QED
        BY <4>2
    <3> QED
      BY <3>1, <3>2, <3>3
  <2>2. ASSUME NEW x \in Addr, NEW i \in 1 .. Len(cells), cells[i].lo <= x /\ x <= cells[i].hi
        PROVE  \E j \in 1 .. Len(c) : c[j].lo <= x /\ x <= c[j].hi
    <3>0. x \in Int
      BY AddrAssumption DEF Addr
    <3>1. c[i].lo <= x /\ x <= c[i].hi
      BY <1>2, <1>8, <2>2, <3>0
    <3> QED
      BY <1>6, <3>1
  <2>3. \A x \in Addr : \A i \in 1 .. Len(c) : c[i].lo <= x /\ x <= c[i].hi
          => \E j \in 1 .. Len(cells) : cells[j].lo <= x /\ x <= cells[j].hi
    BY <2>1, Zenon
  <2>4. \A x \in Addr : \A i \in 1 .. Len(cells) : cells[i].lo <= x /\ x <= cells[i].hi
          => \E j \in 1 .. Len(c) : c[j].lo <= x /\ x <= c[j].hi
    BY <2>2, Zenon
  <2> QED
    BY <1>6, <2>3, <2>4, CoverEqual, Zenon
<1> QED
  BY <1>6, <1>9, <1>13, <1>14 DEF c, e
-----------------------------------------------------------------------------
(***************************************************************************)
(* The builder's inductive invariant, for any caller: TypeOK alone is not  *)
(* inductive (the merge loop's cursors must stay inside the array), and    *)
(* BuilderExact needs the loop invariant to know that what is overwritten  *)
(* has already been taken into out.                                        *)
(***************************************************************************)
BuilderInv == TypeOK /\ Valid(Buf.cells) /\ BuilderExact /\ MergeInvariant

(* Storing a valid interval (the common tail of Add and AddRange). *)
LEMMA StoreStep ==
  ASSUME BuilderInv, NEW r \in IPRange, r.lo <= r.hi, Store(r)
  PROVE  BuilderInv'
<1> DEFINE c == Append(Buf.cells, r)
<1>1. /\ TypeOK /\ Valid(Buf.cells) /\ BuilderExact
      /\ heap' = AppendTo(heap, r) /\ added' = added \cup Interval(r)
      /\ UNCHANGED <<sets, freeze, reader>> /\ freeze.pc = "idle"
  BY DEF BuilderInv, Store
<1>2. /\ heap' # <<>> /\ heap' \in Seq(Array)
      /\ Len(heap) <= Len(heap') /\ Len(heap') \in Nat
      /\ (Buf.cells)' = c
      /\ \A k \in 1 .. Len(heap') : Len(heap'[k].cells) <= heap'[k].cap
      /\ \A k \in 1 .. Len(heap) : Len(heap[k].cells) <= Len(heap'[k].cells)
  BY <1>1, StoreEffect
<1>3. /\ Buf.cells \in Seq(IPRange) /\ Len(Buf.cells) \in Nat /\ Len(heap) \in Nat
  BY <1>1, BufType
<1>4. /\ c \in Seq(IPRange) /\ Len(c) = Len(Buf.cells) + 1
      /\ c[Len(c)] = r /\ \A i \in 1 .. Len(Buf.cells) : c[i] = Buf.cells[i]
  BY <1>3
<1> HIDE DEF c
<1>5. Interval(r) \in SUBSET Addr
  BY AddrAssumption DEF Interval, IPRange, Addr
<1>6. TypeOK'
  <2>1. \A k \in 1 .. Len(sets) : sets[k].arr \in 1 .. Len(heap')
    <3>1. \A k \in 1 .. Len(sets) : sets[k].arr \in 1 .. Len(heap)
      BY <1>1 DEF TypeOK
    <3>2. \A n \in 1 .. Len(heap) : n \in 1 .. Len(heap')
      BY <1>2, <1>3
    <3> QED
      BY <3>1, <3>2
  <2>2. \A k \in 1 .. Len(sets) : sets[k].len <= Len(heap'[sets[k].arr].cells)
    <3> SUFFICES ASSUME NEW k \in 1 .. Len(sets)
                 PROVE  sets[k].len <= Len(heap'[sets[k].arr].cells)
      OBVIOUS
    <3>1. /\ sets[k].arr \in 1 .. Len(heap) /\ sets[k].arr \in 1 .. Len(heap')
          /\ sets[k].len <= Len(heap[sets[k].arr].cells)
      BY <1>1, <2>1 DEF TypeOK
    <3>2. sets[k].len \in Nat
      BY <1>1, SetFields
    <3>3. heap[sets[k].arr] \in Array /\ heap'[sets[k].arr] \in Array
      BY <1>1, <1>2, <3>1, ElementOfSeq DEF TypeOK
    <3>4. Len(heap[sets[k].arr].cells) \in Nat /\ Len(heap'[sets[k].arr].cells) \in Nat
      BY <3>3, LenProperties DEF Array
    <3>5. Len(heap[sets[k].arr].cells) <= Len(heap'[sets[k].arr].cells)
      BY <1>2, <3>1
    <3>6. \A x, y, z \in Nat : x <= y /\ y <= z => x <= z
      OBVIOUS
    <3> QED
      BY <3>1, <3>2, <3>4, <3>5, <3>6, Zenon
  <2> QED
    BY <1>1, <1>2, <1>5, <2>1, <2>2 DEF TypeOK
<1>7. Valid(c)
  <2>1. \A i \in 1 .. Len(Buf.cells) : Buf.cells[i].lo <= Buf.cells[i].hi
    BY <1>1 DEF Valid
  <2>2. ASSUME NEW i \in 1 .. Len(c)
        PROVE  c[i].lo <= c[i].hi
    <3>1. i = Len(c) \/ i \in 1 .. Len(Buf.cells)
      BY <1>3, <1>4
    <3> QED
      BY <1>4, <2>1, <3>1
  <2> QED
    BY <2>2 DEF Valid
<1>8. Cover(c, Len(c)) = added \cup Interval(r)
  <2>1. ASSUME NEW x
        PROVE  x \in Cover(c, Len(c)) <=> x \in Cover(Buf.cells, Len(Buf.cells)) \/ x \in Interval(r)
    <3>1. x \in Cover(c, Len(c)) <=> x \in Addr /\ \E i \in 1 .. Len(c) : c[i].lo <= x /\ x <= c[i].hi
      BY <1>3, <1>4, CoverMember, SMTT(30)
    <3>2. x \in Cover(Buf.cells, Len(Buf.cells)) <=>
            x \in Addr /\ \E i \in 1 .. Len(Buf.cells) : Buf.cells[i].lo <= x /\ x <= Buf.cells[i].hi
      BY <1>3, CoverMember
    <3>3. x \in Interval(r) <=> x \in Addr /\ r.lo <= x /\ x <= r.hi
      BY AddrAssumption DEF Interval, IPRange, Addr
    <3>4. \A i \in 1 .. Len(c) : i = Len(c) \/ i \in 1 .. Len(Buf.cells)
      BY <1>3, <1>4
    <3>5. Len(c) \in 1 .. Len(c) /\ \A i \in 1 .. Len(Buf.cells) : i \in 1 .. Len(c)
      BY <1>3, <1>4
    <3> QED
      BY <1>4, <3>1, <3>2, <3>3, <3>4, <3>5
  <2>2. Cover(Buf.cells, Len(Buf.cells)) = added
    BY <1>1 DEF BuilderExact
  <2> QED
    BY <2>1, <2>2
<1>9. BuilderExact'
  BY <1>1, <1>2, <1>8 DEF BuilderExact
<1>10. MergeInvariant'
  BY <1>1 DEF MergeInvariant
<1> QED
  BY <1>2, <1>6, <1>7, <1>9, <1>10 DEF BuilderInv

(* The in-place sort starts the loop in a state that satisfies its invariant. *)
LEMMA SortStep ==
  ASSUME BuilderInv, FreezeSort
  PROVE  BuilderInv'
<1>1. TypeOK /\ Valid(Buf.cells) /\ BuilderExact
  BY DEF BuilderInv
<1>2. Buf.cells \in Seq(IPRange) /\ Len(Buf.cells) \in Nat
  BY <1>1, BufType
<1>3. PICK f \in Shuffles(Len(Buf.cells)) :
        SortedByLo(Reorder(Buf.cells, f)) /\ SetCells(Reorder(Buf.cells, f))
  BY DEF FreezeSort
<1> DEFINE b == Buf.cells
           c == Reorder(b, f)
<1>4. /\ c \in Seq(IPRange) /\ Len(c) = Len(b)
      /\ \A i \in 1 .. Len(b) : f[i] \in 1 .. Len(b) /\ c[i] = b[f[i]]
      /\ \A v \in 1 .. Len(b) : \E i \in 1 .. Len(b) : f[i] = v
  BY <1>2, ReorderSeq
<1>5. SortedByLo(c) /\ SetCells(c)
  BY <1>3
<1> HIDE DEF c
<1>6. TypeOK' /\ (Buf.cells)' = c
  <2>1. freeze' \in [pc : {"idle", "merge"}, r : Nat, w : Nat]
    BY DEF FreezeSort
  <2>2. UNCHANGED <<sets, reader, added>>
    BY DEF FreezeSort
  <2> QED
    BY <1>1, <1>4, <1>5, <2>1, <2>2, SetCellsType
<1>7. Valid(c)
  BY <1>1, <1>4 DEF Valid
<1>8. Cover(c, Len(c)) = Cover(b, Len(b))
  <2>1. \A x \in Addr : \A i \in 1 .. Len(c) : c[i].lo <= x /\ x <= c[i].hi
          => \E j \in 1 .. Len(b) : b[j].lo <= x /\ x <= b[j].hi
    BY <1>4
  <2>2. \A x \in Addr : \A i \in 1 .. Len(b) : b[i].lo <= x /\ x <= b[i].hi
          => \E j \in 1 .. Len(c) : c[j].lo <= x /\ x <= c[j].hi
    <3> SUFFICES ASSUME NEW x \in Addr, NEW i \in 1 .. Len(b), b[i].lo <= x /\ x <= b[i].hi
                 PROVE  \E j \in 1 .. Len(c) : c[j].lo <= x /\ x <= c[j].hi
      OBVIOUS
    <3>1. PICK j \in 1 .. Len(b) : f[j] = i
      BY <1>4
    <3> QED
      BY <1>4, <3>1
  <2> QED
    BY <1>2, <1>4, <2>1, <2>2, CoverEqual, Zenon
<1>9. BuilderExact'
  BY <1>1, <1>6, <1>8 DEF BuilderExact, FreezeSort
<1>10. MergeProgress(c, 2, 1)
  <2>1. Len(b) >= 2 /\ Len(c) \in Nat
    BY <1>2, <1>4 DEF FreezeSort
  <2>2. \A i \in 1 .. Len(c) : c[i].lo \in Int /\ c[i].hi \in Int
    BY <1>4, CellTypes
  <2>3. Separated(c, 1)
    <3>1. 1 \in 1 .. Len(c)
      BY <1>4, <2>1
    <3>2. c[1].lo <= c[1].hi
      BY <1>7, <3>1 DEF Valid
    <3> QED
      BY <3>2 DEF Separated
  <2>4. \A i, j \in 2 .. Len(c) : i < j => c[i].lo <= c[j].lo
    BY <1>5, <2>1 DEF SortedByLo
  <2>5. \A j \in 2 .. Len(c) : c[1].lo <= c[j].lo
    BY <1>5, <2>1 DEF SortedByLo
  <2>6. \A i \in 1 .. 2 - 1 : \E j \in 1 .. 1 : c[j].lo <= c[i].lo /\ c[i].hi <= c[j].hi
    <3>1. 1 \in 1 .. Len(c)
      BY <1>4, <2>1
    <3>2. c[1].lo <= c[1].lo /\ c[1].hi <= c[1].hi
      BY <2>2, <3>1
    <3> QED
      BY <3>2
  <2> QED
    BY <2>1, <2>3, <2>4, <2>5, <2>6, <1>4 DEF MergeProgress
<1>11. MergeInvariant'
  BY <1>6, <1>10 DEF MergeInvariant, FreezeSort
<1> QED
  BY <1>6, <1>7, <1>9, <1>11 DEF BuilderInv

(* One iteration of the merge loop. *)
LEMMA MergeStepPreserves ==
  ASSUME BuilderInv, MergeStep
  PROVE  BuilderInv'
<1> DEFINE b == Buf.cells
           r == freeze.r
           w == freeze.w
<1>1. /\ TypeOK /\ Valid(b) /\ Cover(b, Len(b)) = added
      /\ MergeProgress(b, r, w) /\ b \in Seq(IPRange) /\ Len(b) \in Nat
      /\ freeze \in [pc : {"idle", "merge"}, r : Nat, w : Nat]
  BY BufType DEF BuilderInv, BuilderExact, MergeInvariant, MergeStep, TypeOK
<1>2. r \in 1 .. Len(b) /\ w \in Nat
  BY <1>1 DEF MergeStep, MergeProgress
<1>3. UNCHANGED <<sets, reader, added>> /\ freeze.pc = "merge"
  BY DEF MergeStep
<1>4. CASE plusOneLess(b[w].hi, b[r].lo)
  <2> DEFINE c == [b EXCEPT ![w + 1] = b[r]]
  <2>1. /\ c \in Seq(IPRange) /\ Len(c) = Len(b) /\ Valid(c)
        /\ MergeProgress(c, r + 1, w + 1) /\ Cover(c, Len(c)) = Cover(b, Len(b))
    BY <1>1, <1>2, <1>4, GapIteration
  <2>2. SetCells(c) /\ freeze' = [freeze EXCEPT !.r = @ + 1, !.w = @ + 1]
    BY <1>4 DEF MergeStep
  <2> HIDE DEF c
  <2>3. /\ freeze' \in [pc : {"idle", "merge"}, r : Nat, w : Nat]
        /\ freeze'.r = r + 1 /\ freeze'.w = w + 1
    <3>1. /\ freeze \in [pc : {"idle", "merge"}, r : Nat, w : Nat]
          /\ r + 1 \in Nat /\ w + 1 \in Nat
      BY <1>1
    <3> QED
      BY <2>2, <3>1
  <2>4. TypeOK' /\ (Buf.cells)' = c
    BY <1>1, <1>3, <2>1, <2>2, <2>3, SetCellsType
  <2> QED
    BY <1>1, <1>3, <2>1, <2>3, <2>4 DEF BuilderInv, BuilderExact, MergeInvariant
<1>5. CASE ~plusOneLess(b[w].hi, b[r].lo)
  <2> DEFINE c == [b EXCEPT ![w] = Extend(b[w], b[r])]
  <2>1. /\ c \in Seq(IPRange) /\ Len(c) = Len(b) /\ Valid(c)
        /\ MergeProgress(c, r + 1, w) /\ Cover(c, Len(c)) = Cover(b, Len(b))
    BY <1>1, <1>2, <1>5, ExtendIteration
  <2>2. SetCells(c) /\ freeze' = [freeze EXCEPT !.r = @ + 1]
    BY <1>5 DEF MergeStep
  <2> HIDE DEF c
  <2>3. /\ freeze' \in [pc : {"idle", "merge"}, r : Nat, w : Nat]
        /\ freeze'.r = r + 1 /\ freeze'.w = w
    <3>1. freeze \in [pc : {"idle", "merge"}, r : Nat, w : Nat] /\ r + 1 \in Nat
      BY <1>1
    <3> QED
      BY <2>2, <3>1
  <2>4. TypeOK' /\ (Buf.cells)' = c
    BY <1>1, <1>3, <2>1, <2>2, <2>3, SetCellsType
  <2> QED
    BY <1>1, <1>3, <2>1, <2>3, <2>4 DEF BuilderInv, BuilderExact, MergeInvariant
<1> QED
  BY <1>4, <1>5

(* Readers change nothing but their own call. *)
LEMMA ReaderStep ==
  ASSUME BuilderInv, NEW g \in Readers, Reading(g)
  PROVE  BuilderInv' /\ UNCHANGED <<heap, sets, freeze, added>>
<1> DEFINE Call == [pc : {"idle", "search", "done"}, set : Nat, a : Addr,
                    i : Nat, j : Nat, ok : BOOLEAN]
<1>1. TypeOK /\ reader \in [Readers -> Call] /\ reader[g] \in Call
  BY DEF BuilderInv, TypeOK
<1>2. \A k \in DOMAIN sets : k \in Nat /\ sets[k].len \in Nat
  BY <1>1, SetFields
<1>3. reader' \in [Readers -> Call] /\ UNCHANGED <<heap, sets, freeze, added>>
  <2>1. ASSUME NEW k \in DOMAIN sets, NEW a \in Addr, Ask(g, k, a)
        PROVE  reader' \in [Readers -> Call] /\ UNCHANGED <<heap, sets, freeze, added>>
    BY <1>1, <1>2, <2>1 DEF Ask
  <2>2. ASSUME Probe(g)
        PROVE  reader' \in [Readers -> Call] /\ UNCHANGED <<heap, sets, freeze, added>>
    BY <1>1, <2>2 DEF Probe
  <2>3. ASSUME Answer(g)
        PROVE  reader' \in [Readers -> Call] /\ UNCHANGED <<heap, sets, freeze, added>>
    BY <1>1, <2>3 DEF Answer
  <2>4. ASSUME Take(g)
        PROVE  reader' \in [Readers -> Call] /\ UNCHANGED <<heap, sets, freeze, added>>
    <3>1. Asleep \in Call
      BY AddrAssumption DEF Asleep, Addr
    <3> QED
      BY <1>1, <2>4, <3>1 DEF Take
  <2> QED
    BY <2>1, <2>2, <2>3, <2>4 DEF Reading, Query
<1>4. TypeOK'
  BY <1>1, <1>3 DEF TypeOK
<1> QED
  BY <1>3, <1>4 DEF BuilderInv, BuilderExact, MergeInvariant, Buf

(* Publishing a window changes nothing in the arrays. *)
LEMMA PublishStep ==
  ASSUME BuilderInv, NEW n \in 0 .. Len(Buf.cells), Publish(n), UNCHANGED <<heap, reader, added>>
  PROVE  BuilderInv'
<1>1. TypeOK'
  BY PublishType DEF BuilderInv
<1>2. freeze'.pc = "idle"
  BY DEF Publish, Idle
<1> QED
  BY <1>1, <1>2 DEF BuilderInv, BuilderExact, MergeInvariant, Buf

LEMMA BuilderInvStep ==
  ASSUME BuilderInv, [Next]_vars
  PROVE  BuilderInv'
<1>0. Buf.cells \in Seq(IPRange) /\ Len(Buf.cells) \in Nat
  BY BufType DEF BuilderInv
<1>1. ASSUME NEW p \in Prefixes, Add(p)
      PROVE  BuilderInv'
  BY <1>1, StoreStep, PrefixAssumption DEF Add, IPRange
<1>2. ASSUME NEW lo \in Addr, NEW hi \in Addr, AddRange(lo, hi)
      PROVE  BuilderInv'
  BY <1>2, StoreStep DEF AddRange, validRange, IPRange
<1>3. CASE FreezeSmall
  <2>1. Len(Buf.cells) \in 0 .. Len(Buf.cells)
    BY <1>0
  <2> QED
    BY <1>3, <2>1, PublishStep DEF FreezeSmall
<1>4. CASE FreezeSort
  BY <1>4, SortStep
<1>5. CASE MergeStep
  BY <1>5, MergeStepPreserves
<1>6. CASE FreezeReturn
  <2>1. freeze.w \in 0 .. Len(Buf.cells)
    BY <1>0, <1>6 DEF FreezeReturn, BuilderInv, MergeInvariant, MergeProgress
  <2> QED
    BY <1>6, <2>1, PublishStep DEF FreezeReturn
<1>7. ASSUME NEW g \in Readers, Reading(g)
      PROVE  BuilderInv'
  BY <1>7, ReaderStep
<1>8. CASE UNCHANGED vars
  BY <1>8 DEF vars, BuilderInv, TypeOK, BuilderExact, MergeInvariant, Buf
<1> QED
  BY <1>1, <1>2, <1>3, <1>4, <1>5, <1>6, <1>7, <1>8 DEF Next, Adds, Freezes, Merging

LEMMA BuilderInvInit ==
  ASSUME Init
  PROVE  BuilderInv
<1>1. TypeOK
  BY InitTypeOK
<1>2. Buf.cells = <<>> /\ Len(Buf.cells) = 0
  BY DEF Init, Buf
<1>3. Cover(Buf.cells, Len(Buf.cells)) = {}
  BY <1>2 DEF Cover
<1> QED
  BY <1>1, <1>2, <1>3 DEF Init, BuilderInv, Valid, BuilderExact, MergeInvariant, Idle

(* What a Freeze that is about to return hands out: all its intervals when
   there is at most one, else the ones merged so far. *)
LEMMA ResultExact ==
  ASSUME BuilderInv
  PROVE  /\ FreezeSmall => /\ Separated(Buf.cells, Len(Buf.cells))
                           /\ Cover(Buf.cells, Len(Buf.cells)) = added
         /\ FreezeReturn => /\ freeze.w \in 0 .. Len(Buf.cells)
                            /\ Separated(Buf.cells, freeze.w)
                            /\ Cover(Buf.cells, freeze.w) = added
<1> DEFINE b == Buf.cells
<1>1. /\ b \in Seq(IPRange) /\ Len(b) \in Nat /\ Valid(b) /\ Cover(b, Len(b)) = added
      /\ \A i \in 1 .. Len(b) : b[i].lo \in Int /\ b[i].hi \in Int
  BY BufType, CellTypes DEF BuilderInv, BuilderExact
<1>2. ASSUME FreezeSmall
      PROVE  Separated(b, Len(b))
  <2>1. \A i, j \in 1 .. Len(b) : ~(i < j)
    BY <1>1, <1>2 DEF FreezeSmall
  <2> QED
    BY <1>1, <2>1 DEF Separated, Valid
<1>3. ASSUME FreezeReturn
      PROVE  /\ freeze.w \in 0 .. Len(b) /\ Separated(b, freeze.w)
             /\ Cover(b, freeze.w) = added
  <2>1. MergeProgress(b, freeze.r, freeze.w)
    BY <1>3 DEF FreezeReturn, BuilderInv, MergeInvariant
  <2>2. freeze.w \in 1 .. Len(b) /\ freeze.r = Len(b) + 1 /\ Separated(b, freeze.w)
    BY <1>1, <1>3, <2>1 DEF FreezeReturn, MergeProgress
  <2>3. \A i \in 1 .. Len(b) : \E j \in 1 .. freeze.w :
          b[j].lo <= b[i].lo /\ b[i].hi <= b[j].hi
    BY <1>1, <2>1, <2>2 DEF MergeProgress
  <2>4. \A j \in 1 .. freeze.w : j \in 1 .. Len(b)
    BY <1>1, <2>2
  <2>5. freeze.w \in 0 .. Len(b) /\ Len(b) \in 0 .. Len(b)
    BY <1>1, <2>2
  <2>6. ASSUME NEW x \in Addr, NEW i \in 1 .. Len(b), b[i].lo <= x /\ x <= b[i].hi
        PROVE  \E j \in 1 .. freeze.w : b[j].lo <= x /\ x <= b[j].hi
    <3>1. PICK j \in 1 .. freeze.w : b[j].lo <= b[i].lo /\ b[i].hi <= b[j].hi
      BY <2>3
    <3>2. x \in Int /\ j \in 1 .. Len(b)
      BY <2>4, AddrAssumption DEF Addr
    <3>3. b[j].lo <= x /\ x <= b[j].hi
      BY <1>1, <2>6, <3>1, <3>2
    <3> QED
      BY <3>3
  <2>7. \A x : x \in Cover(b, freeze.w) <=> x \in Cover(b, Len(b))
    <3> TAKE x
    <3>1. x \in Cover(b, freeze.w) <=>
            x \in Addr /\ \E i \in 1 .. freeze.w : b[i].lo <= x /\ x <= b[i].hi
      BY <1>1, <2>5, CoverMember
    <3>2. x \in Cover(b, Len(b)) <=>
            x \in Addr /\ \E i \in 1 .. Len(b) : b[i].lo <= x /\ x <= b[i].hi
      BY <1>1, <2>5, CoverMember
    <3> QED
      BY <2>4, <2>6, <3>1, <3>2
  <2> QED
    BY <1>1, <2>2, <2>5, <2>7
<1> QED
  BY <1>1, <1>2, <1>3

(* Whatever a caller does, the set that Freeze returns is exactly the union
   of what was added so far, in disjoint separated intervals: FreezeExact. *)
LEMMA FreezeExactStep ==
  ASSUME BuilderInv, [Next]_vars, Len(sets') > Len(sets)
  PROVE  LET s == sets'[Len(sets')]
             cells == heap'[s.arr].cells
         IN Separated(cells, s.len) /\ Cover(cells, s.len) = added
<1>0. TypeOK /\ Len(sets) \in Nat /\ Buf.cells \in Seq(IPRange) /\ Len(Buf.cells) \in Nat
  BY BufType, SetFields DEF BuilderInv
<1>1. ASSUME NEW n \in 0 .. Len(Buf.cells), Publish(n), UNCHANGED <<heap, reader, added>>,
             Separated(Buf.cells, n), Cover(Buf.cells, n) = added
      PROVE  LET s == sets'[Len(sets')]
                 cells == heap'[s.arr].cells
             IN Separated(cells, s.len) /\ Cover(cells, s.len) = added
  <2>1. sets'[Len(sets')] = [arr |-> Len(heap), len |-> n, want |-> added]
    BY <1>0, <1>1, PublishType
  <2> QED
    BY <1>1, <2>1 DEF Buf
<1>2. CASE FreezeSmall
  <2>1. Len(Buf.cells) \in 0 .. Len(Buf.cells)
    BY <1>0
  <2>2. Publish(Len(Buf.cells)) /\ UNCHANGED <<heap, reader, added>>
    BY <1>2 DEF FreezeSmall
  <2> QED
    BY <1>1, <1>2, <2>1, <2>2, ResultExact
<1>3. CASE FreezeReturn
  <2>1. Publish(freeze.w) /\ UNCHANGED <<heap, reader, added>>
    BY <1>3 DEF FreezeReturn
  <2> QED
    BY <1>1, <1>3, <2>1, ResultExact
<1>4. FreezeSmall \/ FreezeReturn
  <2>1. ~(UNCHANGED sets)
    BY <1>0
  <2>2. \A g \in Readers : ~Reading(g)
    BY <2>1, ReaderStep
  <2> QED
    BY <2>1, <2>2 DEF Next, Adds, Add, AddRange, Store, Freezes, FreezeSort, Merging, MergeStep, vars
<1> QED
  BY <1>2, <1>3, <1>4
-----------------------------------------------------------------------------
(* Builder: type correctness, exactness of what it holds, the loop invariant
   of the merge, for every caller of the exported methods. *)
THEOREM BuilderCorrect == Spec => [](TypeOK /\ BuilderExact /\ MergeInvariant)
<1>1. Init => BuilderInv
  BY BuilderInvInit
<1>2. BuilderInv /\ [Next]_vars => BuilderInv'
  BY BuilderInvStep
<1>3. BuilderInv => TypeOK /\ BuilderExact /\ MergeInvariant
  BY DEF BuilderInv
<1> QED
  BY <1>1, <1>2, <1>3, PTL DEF Spec

(* Freeze: the set it returns covers exactly the addresses added before, for
   every caller, however often the builder is reused. *)
THEOREM FreezeIsExact == Spec => FreezeExact
<1>1. Init => BuilderInv
  BY BuilderInvInit
<1>2. BuilderInv /\ [Next]_vars => BuilderInv'
  BY BuilderInvStep
<1>3. BuilderInv /\ [Next]_vars =>
        [Len(sets') > Len(sets) =>
           LET s == sets'[Len(sets')]
               cells == heap'[s.arr].cells
           IN Separated(cells, s.len) /\ Cover(cells, s.len) = added]_vars
  BY FreezeExactStep
<1> QED
  BY <1>1, <1>2, <1>3, PTL DEF Spec, FreezeExact
-----------------------------------------------------------------------------
(* One goroutine's call while it runs: its interval of indexes is bracketed
   by what it has compared. *)
CallInv(c) ==
  /\ c.pc # "idle" => c.set \in 1 .. Len(sets) /\ c.a \in Addr
  /\ c.pc = "search" =>
       /\ c.i <= c.j /\ c.j <= sets[c.set].len
       /\ \A m \in 1 .. c.i : Window(sets[c.set])[m].lo <= c.a
       /\ \A m \in c.j + 1 .. sets[c.set].len : c.a < Window(sets[c.set])[m].lo
  /\ c.pc = "done" => (c.ok <=> c.a \in sets[c.set].want)

(* The invariant of the documented use: a set exists only once the builder
   rests, so that nothing writes to its array any more. *)
OnceInv ==
  /\ BuilderInv
  /\ sets # <<>> => freeze.pc = "idle"
  /\ SetsExact
  /\ \A g \in Readers : CallInv(reader[g])

LEMMA OnceInvMeaning ==
  OnceInv <=> /\ BuilderInv /\ (sets # <<>> => freeze.pc = "idle")
              /\ SetsExact /\ SearchInvariant /\ AnswersExact
BY DEF OnceInv, CallInv, SearchInvariant, AnswersExact

(* While there is no set, no call can be under way. *)
LEMMA NoCallYet ==
  ASSUME OnceInv, sets = <<>>
  PROVE  \A g \in Readers : reader[g].pc = "idle"
BY DEF OnceInv, CallInv

(* A step of the builder before its Freeze has returned. *)
LEMMA BeforeStep ==
  ASSUME OnceInv, sets = <<>>, [Next]_vars, UNCHANGED <<sets, reader>>
  PROVE  OnceInv'
<1>1. BuilderInv'
  BY BuilderInvStep DEF OnceInv
<1>2. SetsExact'
  BY DEF SetsExact
<1>3. \A g \in Readers : CallInv(reader[g])'
  BY NoCallYet DEF CallInv
<1> QED
  BY <1>1, <1>2, <1>3 DEF OnceInv

(* The return of Freeze. *)
LEMMA PublishOnce ==
  ASSUME OnceInv, sets = <<>>, FreezeSmall \/ FreezeReturn
  PROVE  OnceInv' /\ sets' = <<[arr |-> Len(heap), len |-> sets'[1].len, want |-> added]>>
<1>0. BuilderInv /\ TypeOK /\ Len(Buf.cells) \in Nat /\ UNCHANGED <<heap, reader, added>>
  BY BufType DEF OnceInv, BuilderInv, FreezeSmall, FreezeReturn
<1>1. PICK n \in 0 .. Len(Buf.cells) :
        Publish(n) /\ Separated(Buf.cells, n) /\ Cover(Buf.cells, n) = added
  <2>1. CASE FreezeSmall
    BY <1>0, <2>1, ResultExact DEF FreezeSmall
  <2>2. CASE FreezeReturn
    BY <1>0, <2>2, ResultExact DEF FreezeReturn
  <2> QED
    BY <2>1, <2>2
<1>2. BuilderInv'
  BY <1>0, <1>1, PublishStep
<1>3. sets' = <<[arr |-> Len(heap), len |-> n, want |-> added]>> /\ freeze'.pc = "idle"
  BY <1>1 DEF Publish, Idle
<1>4. Len(sets') = 1 /\ sets'[1] = [arr |-> Len(heap), len |-> n, want |-> added]
  BY <1>3
<1>5. SetsExact'
  BY <1>0, <1>1, <1>4 DEF SetsExact, Window, Buf
<1>6. \A g \in Readers : CallInv(reader[g])'
  BY <1>0, NoCallYet DEF CallInv
<1> QED
  BY <1>2, <1>3, <1>4, <1>5, <1>6 DEF OnceInv
-----------------------------------------------------------------------------
(* Separated intervals start in ascending order. *)
LEMMA SeparatedSorted ==
  ASSUME NEW cells \in Seq(IPRange), NEW n \in 0 .. Len(cells), Separated(cells, n),
         NEW i \in 1 .. n, NEW j \in 1 .. n, i <= j
  PROVE  cells[i].lo <= cells[j].lo
<1>1. /\ Len(cells) \in Nat /\ i \in 1 .. Len(cells) /\ j \in 1 .. Len(cells)
      /\ cells[i].lo \in Int /\ cells[i].hi \in Int /\ cells[j].lo \in Int
  BY CellTypes
<1>2. i < j => cells[i].hi + 1 < cells[j].lo /\ cells[i].lo <= cells[i].hi
  BY DEF Separated
<1> QED
  BY <1>1, <1>2

(* The candidate that the search ends on decides membership. *)
LEMMA CandidateDecides ==
  ASSUME NEW cells \in Seq(IPRange), NEW n \in 0 .. Len(cells), Separated(cells, n),
         NEW a \in Addr, NEW i \in 0 .. n,
         \A m \in 1 .. i : cells[m].lo <= a,
         \A m \in i + 1 .. n : a < cells[m].lo
  PROVE  (i # 0 /\ ~(cells[i].hi < a)) <=> a \in Cover(cells, n)
<1>1. /\ Len(cells) \in Nat /\ a \in Int
      /\ \A m \in 1 .. n : m \in 1 .. Len(cells) /\ cells[m].lo \in Int /\ cells[m].hi \in Int
  BY CellTypes, AddrAssumption DEF Addr
<1>2. a \in Cover(cells, n) <=> \E m \in 1 .. n : cells[m].lo <= a /\ a <= cells[m].hi
  BY CoverMember
<1>3. ASSUME NEW m \in 1 .. n, cells[m].lo <= a, a <= cells[m].hi
      PROVE  m = i
  <2>1. m <= i
    BY <1>1, <1>3
  <2>2. ~(m < i)
    <3>1. SUFFICES ASSUME m < i
                   PROVE  FALSE
      OBVIOUS
    <3>2. i \in 1 .. n /\ cells[m].hi + 1 < cells[i].lo
      BY <3>1 DEF Separated
    <3>3. cells[i].lo <= a
      BY <3>2
    <3> QED
      BY <1>1, <1>3, <3>2, <3>3
  <2> QED
    BY <2>1, <2>2
<1>4. i # 0 => i \in 1 .. n /\ cells[i].lo <= a
  OBVIOUS
<1>5. a \in Cover(cells, n) => i # 0 /\ ~(cells[i].hi < a)
  <2>1. ASSUME NEW m \in 1 .. n, cells[m].lo <= a, a <= cells[m].hi
        PROVE  i # 0 /\ ~(cells[i].hi < a)
    <3>1. m = i /\ cells[m].hi \in Int
      BY <1>1, <1>3, <2>1
    <3> QED
      BY <1>1, <2>1, <3>1
  <2> QED
    BY <1>2, <2>1
<1>6. i # 0 /\ ~(cells[i].hi < a) => a \in Cover(cells, n)
  <2>1. i # 0 => cells[i].hi \in Int
    BY <1>1, <1>4
  <2>2. i # 0 /\ ~(cells[i].hi < a) => i \in 1 .. n /\ cells[i].lo <= a /\ a <= cells[i].hi
    BY <1>1, <1>4, <2>1
  <2> QED
    BY <1>2, <2>2
<1> QED
  BY <1>5, <1>6
-----------------------------------------------------------------------------
(* What a call reads: the separated cells of its set. *)
LEMMA CallReads ==
  ASSUME OnceInv, NEW k \in 1 .. Len(sets)
  PROVE  /\ Window(sets[k]) \in Seq(IPRange)
         /\ sets[k].len \in 0 .. Len(Window(sets[k]))
         /\ Separated(Window(sets[k]), sets[k].len)
         /\ Cover(Window(sets[k]), sets[k].len) = sets[k].want
<1>1. /\ Window(sets[k]) \in Seq(IPRange) /\ Len(Window(sets[k])) \in Nat
      /\ sets[k].len \in Nat /\ sets[k].len <= Len(Window(sets[k]))
  BY SetFields DEF OnceInv, BuilderInv
<1> QED
  BY <1>1 DEF OnceInv, SetsExact

Call == [pc : {"idle", "search", "done"}, set : Nat, a : Addr, i : Nat, j : Nat, ok : BOOLEAN]

LEMMA CallTyped ==
  ASSUME OnceInv, NEW g \in Readers
  PROVE  reader \in [Readers -> Call] /\ reader[g] \in Call
BY DEF OnceInv, BuilderInv, TypeOK, Call

LEMMA ProbeCall ==
  ASSUME OnceInv, NEW g \in Readers, Probe(g)
  PROVE  /\ CallInv(reader'[g])
         /\ reader'[g].pc = "search" /\ reader'[g].set = reader[g].set
         /\ reader'[g].a = reader[g].a /\ reader'[g].ok = reader[g].ok
<1> DEFINE c == reader[g]
           d == reader'[g]
           h == (c.i + c.j) \div 2
           s == sets[c.set]
           cells == Window(s)
<1>1. reader \in [Readers -> Call] /\ c \in Call /\ CallInv(c) /\ c.pc = "search" /\ c.i < c.j
  BY CallTyped DEF OnceInv, Probe
<1>2. /\ c.set \in 1 .. Len(sets) /\ c.i \in Nat /\ c.j \in Nat /\ c.a \in Int
      /\ c.j <= s.len
      /\ \A m \in 1 .. c.i : cells[m].lo <= c.a
      /\ \A m \in c.j + 1 .. s.len : c.a < cells[m].lo
  BY <1>1, AddrAssumption DEF CallInv, Call, Addr
<1>2a. c.a \in Addr
  BY <1>1 DEF CallInv
<1>3. cells \in Seq(IPRange) /\ s.len \in 0 .. Len(cells) /\ Separated(cells, s.len)
  BY <1>2, CallReads
<1>4. /\ Len(cells) \in Nat /\ s.len \in Nat
      /\ \A m \in 1 .. s.len : m \in 1 .. Len(cells) /\ cells[m].lo \in Int
  BY <1>3, CellTypes
<1>5. h \in Nat /\ c.i <= h /\ h < c.j /\ h + 1 \in 1 .. s.len
  <2>1. \A x, y \in Nat : x < y =>
          (x + y) \div 2 \in Nat /\ x <= (x + y) \div 2 /\ (x + y) \div 2 < y
    OBVIOUS
  <2>2. h \in Nat /\ c.i <= h /\ h < c.j
    BY <1>1, <1>2, <2>1
  <2> HIDE DEF h
  <2> QED
    BY <1>2, <1>4, <2>2, SMTT(30)
<1>6. CASE c.a < cells[h + 1].lo
  <2>1. d = [c EXCEPT !.j = h]
    BY <1>1, <1>6 DEF Probe
  <2>2. /\ d.pc = c.pc /\ d.set = c.set /\ d.a = c.a /\ d.i = c.i /\ d.j = h /\ d.ok = c.ok
    BY <1>1, <2>1 DEF Call
  <2> HIDE DEF h
  <2>3. ASSUME NEW m \in h + 1 .. s.len
        PROVE  c.a < cells[m].lo
    <3>1. m \in 1 .. s.len /\ h + 1 <= m
      BY <1>4, <1>5
    <3>2. cells[h + 1].lo <= cells[m].lo
      BY <1>3, <1>5, <3>1, SeparatedSorted
    <3>3. c.a \in Int /\ cells[m].lo \in Int /\ cells[h + 1].lo \in Int
      BY <1>2, <1>4, <1>5, <3>1
    <3> QED
      BY <1>6, <3>2, <3>3
  <2>4. /\ d.set \in 1 .. Len(sets) /\ d.a \in Addr /\ d.pc = "search"
        /\ d.i <= d.j /\ d.j <= sets[d.set].len
        /\ \A m \in 1 .. d.i : Window(sets[d.set])[m].lo <= d.a
        /\ \A m \in d.j + 1 .. sets[d.set].len : d.a < Window(sets[d.set])[m].lo
    BY <1>1, <1>2, <1>2a, <1>4, <1>5, <2>2, <2>3
  <2> QED
    BY <2>2, <2>4 DEF CallInv
<1>7. CASE ~(c.a < cells[h + 1].lo)
  <2>1. d = [c EXCEPT !.i = h + 1]
    BY <1>1, <1>7 DEF Probe
  <2>2. /\ d.pc = c.pc /\ d.set = c.set /\ d.a = c.a /\ d.i = h + 1 /\ d.j = c.j /\ d.ok = c.ok
    BY <1>1, <2>1 DEF Call
  <2> HIDE DEF h
  <2>3. ASSUME NEW m \in 1 .. h + 1
        PROVE  cells[m].lo <= c.a
    <3>1. m \in 1 .. s.len /\ m <= h + 1
      BY <1>4, <1>5
    <3>2. cells[m].lo <= cells[h + 1].lo
      BY <1>3, <1>5, <3>1, SeparatedSorted
    <3>3. c.a \in Int /\ cells[m].lo \in Int /\ cells[h + 1].lo \in Int
      BY <1>2, <1>4, <1>5, <3>1
    <3> QED
      BY <1>7, <3>2, <3>3
  <2>4. /\ d.set \in 1 .. Len(sets) /\ d.a \in Addr /\ d.pc = "search"
        /\ d.i <= d.j /\ d.j <= sets[d.set].len
        /\ \A m \in 1 .. d.i : Window(sets[d.set])[m].lo <= d.a
        /\ \A m \in d.j + 1 .. sets[d.set].len : d.a < Window(sets[d.set])[m].lo
    <3>1. d.set \in 1 .. Len(sets) /\ d.a \in Addr /\ d.pc = "search"
      BY <1>1, <1>2, <1>2a, <2>2
    <3>2. d.i <= d.j /\ d.j <= sets[d.set].len
      BY <1>2, <1>4, <1>5, <2>2
    <3>3. /\ \A m \in 1 .. d.i : Window(sets[d.set])[m].lo <= d.a
          /\ \A m \in d.j + 1 .. sets[d.set].len : d.a < Window(sets[d.set])[m].lo
      BY <1>2, <2>2, <2>3
    <3> QED
      BY <3>1, <3>2, <3>3
  <2> QED
    BY <2>2, <2>4 DEF CallInv
<1> QED
  BY <1>6, <1>7

LEMMA AnswerCall ==
  ASSUME OnceInv, NEW g \in Readers, Answer(g)
  PROVE  /\ CallInv(reader'[g])
         /\ reader[g].set \in 1 .. Len(sets)
         /\ reader' = [reader EXCEPT ![g] =
              [reader[g] EXCEPT !.pc = "done",
                                !.ok = reader[g].a \in Cover(Window(sets[reader[g].set]),
                                                             sets[reader[g].set].len)]]
<1> DEFINE c == reader[g]
           d == reader'[g]
           s == sets[c.set]
           cells == Window(s)
           yes == c.i # 0 /\ ~(cells[c.i].hi < c.a)
<1>1. reader \in [Readers -> Call] /\ c \in Call /\ CallInv(c) /\ c.pc = "search" /\ c.i >= c.j
  BY CallTyped DEF OnceInv, Answer
<1>2. /\ c.set \in 1 .. Len(sets) /\ c.i \in Nat /\ c.j \in Nat /\ c.a \in Addr
      /\ c.i <= c.j /\ c.j <= s.len
      /\ \A m \in 1 .. c.i : cells[m].lo <= c.a
      /\ \A m \in c.j + 1 .. s.len : c.a < cells[m].lo
  BY <1>1 DEF CallInv, Call
<1>3. /\ cells \in Seq(IPRange) /\ s.len \in 0 .. Len(cells) /\ Separated(cells, s.len)
      /\ Cover(cells, s.len) = s.want
  BY <1>2, CallReads
<1>4. Len(cells) \in Nat /\ c.i = c.j /\ c.i \in 0 .. s.len
  BY <1>1, <1>2, <1>3, LenProperties
<1>5. yes <=> c.a \in Cover(cells, s.len)
  BY <1>2, <1>3, <1>4, CandidateDecides
<1>6. yes = (c.a \in Cover(cells, s.len))
  BY <1>5
<1>7. reader' = [reader EXCEPT ![g] = [c EXCEPT !.pc = "done", !.ok = yes]]
  BY DEF Answer
<1>8. reader' = [reader EXCEPT ![g] = [c EXCEPT !.pc = "done", !.ok = (c.a \in Cover(cells, s.len))]]
  BY <1>6, <1>7
<1>9. d.pc = "done" /\ d.set = c.set /\ d.a = c.a /\ (d.ok <=> c.a \in Cover(cells, s.len))
  BY <1>1, <1>8 DEF Call
<1>10. CallInv(d)
  BY <1>2, <1>3, <1>9 DEF CallInv
<1> QED
  BY <1>2, <1>8, <1>10

(* A step of one goroutine's query: no other call is touched. *)
LEMMA ReadingOnce ==
  ASSUME OnceInv, NEW g \in Readers, Reading(g)
  PROVE  OnceInv'
<1>1. BuilderInv' /\ UNCHANGED <<heap, sets, freeze, added>>
  BY ReaderStep DEF OnceInv
<1>2. reader \in [Readers -> Call] /\ reader[g] \in Call /\ TypeOK
  BY CallTyped DEF OnceInv, BuilderInv
<1>3. CallInv(reader'[g])
  <2>1. ASSUME NEW k \in DOMAIN sets, NEW a \in Addr, Ask(g, k, a)
        PROVE  CallInv(reader'[g])
    <3>1. /\ k \in 1 .. Len(sets) /\ Len(Window(sets[k])) \in Nat
          /\ sets[k].len \in Nat
      BY <1>2, SetFields
    <3>2. reader'[g] = [pc |-> "search", set |-> k, a |-> a, i |-> 0, j |-> sets[k].len, ok |-> FALSE]
      BY <1>2, <2>1 DEF Ask
    <3> QED
      BY <3>1, <3>2 DEF CallInv
  <2>2. CASE Probe(g)
    BY <2>2, ProbeCall
  <2>3. CASE Answer(g)
    BY <2>3, AnswerCall
  <2>4. CASE Take(g)
    BY <1>2, <2>4 DEF Take, Asleep, CallInv
  <2> QED
    BY <2>1, <2>2, <2>3, <2>4 DEF Reading, Query
<1>4. \A q \in Readers : q # g => reader'[q] = reader[q]
  BY <1>2 DEF Reading, Query, Ask, Probe, Answer, Take
<1>5. \A q \in Readers : CallInv(reader'[q])
  BY <1>3, <1>4, SMTT(30) DEF OnceInv
<1>6. \A q \in Readers : CallInv(reader[q])'
  BY <1>1, <1>5 DEF CallInv, Window
<1>7. SetsExact'
  BY <1>1 DEF OnceInv, SetsExact, Window
<1> QED
  BY <1>1, <1>6, <1>7 DEF OnceInv
-----------------------------------------------------------------------------
(* The kinds of steps the documented use allows. *)
LEMMA OnceSteps ==
  ASSUME OnceInv, [OnceNext]_vars
  PROVE  \/ sets = <<>> /\ Adds
         \/ sets = <<>> /\ (FreezeSort \/ MergeStep)
         \/ sets = <<>> /\ (FreezeSmall \/ FreezeReturn)
         \/ \E g \in Readers : Reading(g)
         \/ UNCHANGED vars
BY DEF OnceInv, OnceNext, BuildOnce, Freezes, Merging, MergeStep, FreezeReturn

LEMMA OnceInvStep ==
  ASSUME OnceInv, [OnceNext]_vars
  PROVE  OnceInv'
<1>1. CASE sets = <<>> /\ Adds
  <2>1. [Next]_vars /\ UNCHANGED <<sets, reader>>
    BY <1>1 DEF Next, Adds, Add, AddRange, Store
  <2> QED
    BY <1>1, <2>1, BeforeStep
<1>2. CASE sets = <<>> /\ (FreezeSort \/ MergeStep)
  <2>1. [Next]_vars /\ UNCHANGED <<sets, reader>>
    BY <1>2 DEF Next, Freezes, Merging, FreezeSort, MergeStep
  <2> QED
    BY <1>2, <2>1, BeforeStep
<1>3. CASE sets = <<>> /\ (FreezeSmall \/ FreezeReturn)
  BY <1>3, PublishOnce
<1>4. CASE \E g \in Readers : Reading(g)
  BY <1>4, ReadingOnce, SMTT(30)
<1>5. CASE UNCHANGED vars
  <2>1. BuilderInv'
    BY <1>5, BuilderInvStep DEF OnceInv
  <2> QED
    BY <1>5, <2>1 DEF vars, OnceInv, SetsExact, CallInv, Window
<1> QED
  BY <1>1, <1>2, <1>3, <1>4, <1>5, OnceSteps

LEMMA OnceInvInit ==
  ASSUME Init
  PROVE  OnceInv
<1>1. BuilderInv /\ sets = <<>> /\ Len(sets) = 0
  BY BuilderInvInit DEF Init
<1> QED
  BY <1>1 DEF Init, OnceInv, SetsExact, CallInv, Asleep

LEMMA OnceInvariant == OnceSpec => []OnceInv
<1>1. Init => OnceInv
  BY OnceInvInit
<1>2. OnceInv /\ [OnceNext]_vars => OnceInv'
  BY OnceInvStep
<1> QED
  BY <1>1, <1>2, PTL DEF OnceSpec

(* In the documented use a frozen set covers what was added before its Freeze,
   for as long as it lives. *)
THEOREM SetsStayExact == OnceSpec => []SetsExact
<1>1. OnceInv => SetsExact
  BY DEF OnceInv
<1> QED
  BY <1>1, OnceInvariant, PTL

(* Then every query of it is answered correctly, and its binary search keeps
   the interval of indexes that brackets the address. *)
THEOREM SetCorrect == OnceSpec => [](AnswersExact /\ SearchInvariant)
<1>1. OnceInv => AnswersExact /\ SearchInvariant
  BY OnceInvMeaning
<1> QED
  BY <1>1, OnceInvariant, PTL
-----------------------------------------------------------------------------
(* The abstract state, by name. *)
Building == Cover(Buf.cells, Len(Buf.cells))
Frozen == [k \in 1 .. Len(sets) |-> Cover(Window(sets[k]), sets[k].len)]
Calls == [g \in Readers |-> CallOf(reader[g])]

LEMMA AbstractStutter ==
  ASSUME Building' = Building, Frozen' = Frozen, Calls' = Calls
  PROVE  [Abstract!Next]_(Abstract!vars)
BY DEF Abstract!vars, Building, Frozen, Calls

LEMMA ImplementsInit ==
  ASSUME Init
  PROVE  Abstract!Init
<1>1. Buf.cells = <<>> /\ Len(Buf.cells) = 0 /\ sets = <<>> /\ Len(sets) = 0
  BY DEF Init, Buf
<1>2. Cover(Buf.cells, Len(Buf.cells)) = {}
  BY <1>1 DEF Cover
<1>3. Frozen = <<>>
  BY <1>1 DEF Frozen
<1>4. \A g \in Readers : CallOf(reader[g]) = Abstract!NoCall
  BY DEF Init, Asleep, CallOf, Abstract!NoCall
<1> QED
  BY <1>2, <1>3, <1>4 DEF Abstract!Init, Frozen

(* Every step of the documented use is a step of Membership or invisible. *)
LEMMA ImplementsStep ==
  ASSUME OnceInv, [OnceNext]_vars
  PROVE  [Abstract!Next]_(Abstract!vars)
<1>0. /\ TypeOK /\ OnceInv' /\ BuilderInv'
      /\ Building = added /\ Building' = added'
  BY OnceInvStep DEF OnceInv, BuilderInv, BuilderExact, Building
<1>1. CASE sets = <<>> /\ Adds
  <2>1. PICK r \in IPRange : Store(r)
    BY <1>1, PrefixAssumption DEF Adds, Add, AddRange, IPRange
  <2>2. Interval(r) \in SUBSET Addr
    BY AddrAssumption DEF Interval, IPRange, Addr
  <2>3. Building' = Building \cup Interval(r) /\ UNCHANGED <<sets, reader>>
    BY <1>0, <2>1 DEF Store
  <2>4. Frozen' = Frozen /\ Calls' = Calls
    BY <1>1, <2>3 DEF Frozen, Calls
  <2>5. Abstract!Insert
    BY <2>2, <2>3, <2>4 DEF Abstract!Insert, Building, Frozen, Calls
  <2> QED
    BY <2>5 DEF Abstract!Next
<1>2. CASE sets = <<>> /\ (FreezeSort \/ MergeStep)
  <2>1. UNCHANGED <<sets, reader, added>>
    BY <1>2 DEF FreezeSort, MergeStep
  <2>2. Frozen' = Frozen /\ Calls' = Calls
    BY <1>2, <2>1 DEF Frozen, Calls
  <2> QED
    BY <1>0, <2>1, <2>2, AbstractStutter
<1>3. CASE sets = <<>> /\ (FreezeSmall \/ FreezeReturn)
  <2>1. UNCHANGED <<heap, reader, added>> /\ Len(sets') = 1 /\ sets'[1].want = added
    BY <1>3, PublishOnce DEF FreezeSmall, FreezeReturn
  <2>2. 1 \in 1 .. Len(sets') /\ SetsExact'
    BY <1>0, <2>1 DEF OnceInv
  <2>3. Cover(Window(sets[1])', sets'[1].len) = added
    BY <2>1, <2>2 DEF SetsExact
  <2>4. Frozen' = [k \in 1 .. 1 |-> added]
    BY <2>1, <2>3 DEF Frozen
  <2>5. Frozen = <<>>
    BY <1>3 DEF Frozen
  <2>6. Frozen' = Append(Frozen, Building)
    BY <1>0, <2>4, <2>5
  <2>7. Building' = Building /\ Calls' = Calls
    BY <1>0, <2>1 DEF Calls
  <2>8. Abstract!Compile
    BY <2>6, <2>7 DEF Abstract!Compile, Building, Frozen, Calls
  <2> QED
    BY <2>8 DEF Abstract!Next
<1>4. ASSUME NEW g \in Readers, Reading(g)
      PROVE  [Abstract!Next]_(Abstract!vars)
  <2>1. UNCHANGED <<heap, sets, freeze, added>>
    BY <1>4, ReaderStep DEF OnceInv
  <2>2. Building' = Building /\ Frozen' = Frozen
    BY <1>0, <2>1 DEF Frozen, Window
  <2>3. reader \in [Readers -> Call] /\ reader[g] \in Call
    BY CallTyped
  <2>4. Calls[g] = CallOf(reader[g])
    BY DEF Calls
  <2>5. ASSUME NEW k \in DOMAIN sets, NEW a \in Addr, Ask(g, k, a)
        PROVE  [Abstract!Next]_(Abstract!vars)
    <3>1. k \in DOMAIN Frozen
      BY <1>0, SetFields DEF Frozen
    <3>2. Calls[g].pc = "none"
      BY <2>4, <2>5 DEF Ask, CallOf
    <3>3. Calls' = [Calls EXCEPT ![g] = [pc |-> "asked", set |-> k, a |-> a, ok |-> FALSE]]
      BY <2>3, <2>5 DEF Ask, Calls, CallOf
    <3>4. Abstract!Ask(g, k, a)
      BY <2>2, <3>2, <3>3 DEF Abstract!Ask, Building, Frozen, Calls
    <3> QED
      BY <3>1, <3>4 DEF Abstract!Next, Frozen
  <2>6. CASE Probe(g)
    <3>1. CallOf(reader'[g]) = CallOf(reader[g])
      BY <2>6, ProbeCall DEF CallOf, Probe
    <3>2. \A q \in Readers : q # g => reader'[q] = reader[q]
      BY <2>3, <2>6 DEF Probe
    <3>3. Calls' = Calls
      BY <3>1, <3>2 DEF Calls
    <3> QED
      BY <2>2, <3>3, AbstractStutter
  <2>7. CASE Answer(g)
    <3> DEFINE c == reader[g]
               yes == c.a \in Cover(Window(sets[c.set]), sets[c.set].len)
    <3>1. c.set \in 1 .. Len(sets) /\ c.pc = "search"
          /\ reader' = [reader EXCEPT ![g] = [c EXCEPT !.pc = "done", !.ok = yes]]
      BY <2>7, AnswerCall DEF Answer
    <3>2. yes = (Calls[g].a \in Frozen[Calls[g].set])
      BY <2>4, <3>1 DEF CallOf, Frozen
    <3>3. Calls[g].pc = "asked"
      BY <2>4, <3>1 DEF CallOf
    <3>4. CallOf(reader'[g]) = [pc |-> "answered", set |-> c.set, a |-> c.a, ok |-> yes]
      <4>1. reader'[g] = [c EXCEPT !.pc = "done", !.ok = yes]
        BY <2>3, <3>1
      <4>2. /\ reader'[g].pc = "done" /\ reader'[g].ok = yes
            /\ reader'[g].set = c.set /\ reader'[g].a = c.a
        BY <2>3, <4>1 DEF Call
      <4> QED
        BY <4>2 DEF CallOf
    <3>5. \A q \in Readers : q # g => reader'[q] = reader[q]
      BY <2>3, <3>1
    <3>6. Calls' = [Calls EXCEPT ![g] = [pc |-> "answered", set |-> Calls[g].set,
                                        a |-> Calls[g].a, ok |-> yes]]
      <4>1. Calls[g].set = c.set /\ Calls[g].a = c.a
        BY <2>4 DEF CallOf
      <4> QED
        BY <3>4, <3>5, <4>1 DEF Calls
    <3>7. Abstract!Answer(g)
      BY <2>2, <3>2, <3>3, <3>6 DEF Abstract!Answer, Building, Frozen, Calls
    <3> QED
      BY <3>7, SMTT(30) DEF Abstract!Next
  <2>8. CASE Take(g)
    <3>1. Calls[g].pc = "answered"
      BY <2>4, <2>8 DEF Take, CallOf
    <3>2. CallOf(Asleep) = Abstract!NoCall
      BY DEF CallOf, Asleep, Abstract!NoCall
    <3>3. Calls' = [Calls EXCEPT ![g] = Abstract!NoCall]
      BY <2>3, <2>8, <3>2 DEF Take, Calls
    <3>4. Abstract!Take(g)
      BY <2>2, <3>1, <3>3 DEF Abstract!Take, Building, Frozen, Calls
    <3> QED
      BY <3>4 DEF Abstract!Next
  <2> QED
    BY <1>4, <2>5, <2>6, <2>7, <2>8 DEF Reading, Query
<1>5. CASE UNCHANGED vars
  <2>1. Building' = Building /\ Frozen' = Frozen /\ Calls' = Calls
    BY <1>0, <1>5 DEF vars, Frozen, Window, Calls
  <2> QED
    BY <2>1, AbstractStutter
<1> QED
  BY <1>1, <1>2, <1>3, <1>4, <1>5, OnceSteps

(* In the documented use, the sorting, merging and searching of cidr.go
   implement growing sets of addresses, immutable copies and exact answers. *)
THEOREM SetImplementsMembership == OnceSpec => ImplementsMembership
<1>1. Init => OnceInv /\ Abstract!Init
  BY OnceInvInit, ImplementsInit
<1>2. OnceInv /\ [OnceNext]_vars => OnceInv'
  BY OnceInvStep
<1>3. OnceInv /\ [OnceNext]_vars => [Abstract!Next]_(Abstract!vars)
  BY ImplementsStep
<1> QED
  BY <1>1, <1>2, <1>3, PTL DEF OnceSpec, ImplementsMembership, Abstract!Spec
=============================================================================
