-------------------------- MODULE RirCountry_proofs --------------------------
(***************************************************************************)
(* Proofs about rir-country, for any width of the families and of a count, *)
(* and any lines.                                                          *)
(***************************************************************************)
EXTENDS RirCountry, DataLemmas

LEMMA MinOfNaturals ==
  ASSUME NEW S \in SUBSET Nat, S # {}
  PROVE  Min(S) \in S
<1>1. \E x \in S : \A y \in S : x <= y
  BY LeastExists
<1> QED
  BY <1>1 DEF Min

(* What the rules compare are integers. *)
IsRecord(r) == r.cc \in Int /\ r.date \in Int /\ r.srcBits \in Int

LEMMA AcceptedRecord ==
  ASSUME NEW l \in Lines, NEW reg, parseLine(l, reg).verdict = "accepted"
  PROVE  IsRecord(parseLine(l, reg).rec)
<1>1. l.cc \in Int /\ l.date \in Int /\ l.value \in Int /\ W \in Int
  BY LineAssumption, WidthAssumption
<1>2. ceilLog2(l.value) \in Int
  <2>1. {k \in 0 .. U : l.value <= 2^k} \in SUBSET Nat
    BY WidthAssumption
  <2>2. U \in {k \in 0 .. U : l.value <= 2^k}
    BY WidthAssumption, LineAssumption
  <2> QED
    BY <2>1, <2>2, MinOfNaturals DEF ceilLog2
<1>3. \A last, bits : IsRecord(Accepted(l, reg, last, bits).rec) <=> bits \in Int
  BY <1>1 DEF Accepted, IsRecord
<1>4. Skipped.verdict # "accepted" /\ Malformed.verdict # "accepted"
  BY DEF Skipped, Malformed
<1>5. W - ceilLog2(l.value) \in Int
  BY <1>1, <1>2
<1>6. \/ parseLine(l, reg) \in {Skipped, Malformed}
      \/ \E last : \/ parseLine(l, reg) = Accepted(l, reg, last, W - ceilLog2(l.value))
                   \/ parseLine(l, reg) = Accepted(l, reg, last, l.value)
  <2>1. l.kind \in {"other", "garbled", "block"} /\ l.family \in {"ipv4", "ipv6"}
    BY LineAssumption
  <2>2. CASE l.kind # "block" \/ l.value = 0
    BY <2>1, <2>2 DEF parseLine
  <2>3. CASE l.kind = "block" /\ l.value # 0 /\ l.family = "ipv4"
    BY <2>3, Zenon DEF parseLine
  <2>4. CASE l.kind = "block" /\ l.value # 0 /\ l.family = "ipv6"
    BY <2>4 DEF parseLine
  <2> QED
    BY <2>1, <2>2, <2>3, <2>4
<1> QED
  BY <1>1, <1>3, <1>4, <1>5, <1>6
-----------------------------------------------------------------------------
(* The records that claim prefix k, and the best of any set of records. *)
Recs(k) == {c.rec : c \in Claimants(k)}

BestOf(D) == {e \in D : \A d \in D : Beats(e, d)}

(* The prefixes of the table are those some record claims, and each has one of
   the records that claim it. *)
RirInv ==
  /\ \A s \in seen : s[1] \in Lines
  /\ \A k : k \in DOMAIN table <=> Recs(k) # {}
  /\ \A k \in DOMAIN table : table[k] \in Recs(k)
  /\ OrderFreeOncePerCountry

LEMMA RecsAre ==
  /\ \A k : Best(k) = BestOf(Recs(k))
  /\ \A k : OncePerCountry(k) <=> \A d, e \in Recs(k) : d.cc = e.cc => d = e
BY DEF Best, BestOf, OncePerCountry, Recs

LEMMA RecsAreRecords ==
  ASSUME \A s \in seen : s[1] \in Lines
  PROVE  \A k : \A r \in Recs(k) : IsRecord(r)
BY AcceptedRecord DEF Recs, Claimants, Claims

LEMMA InvInit == Init => RirInv
<1> SUFFICES ASSUME Init PROVE RirInv
  OBVIOUS
<1>1. seen = {} /\ DOMAIN table = {}
  BY DEF Init
<1>2. \A k : Recs(k) = {}
  BY <1>1 DEF Recs, Claimants, Claims
<1> QED
  BY <1>1, <1>2 DEF RirInv, OrderFreeOncePerCountry

(* The rule orders the records of different countries, and the winner of two
   of them beats both. *)
LEMMA BeatsOrders ==
  ASSUME NEW a, NEW b, NEW d, IsRecord(a), IsRecord(b), IsRecord(d)
  PROVE  /\ Beats(a, a)
         /\ Beats(a, b) /\ Beats(b, d) => Beats(a, d)
         /\ Winner(a, b) \in {a, b} /\ Beats(Winner(a, b), a) /\ Beats(Winner(a, b), b)
<1>1. Rule(a) \in Int /\ Rule(b) \in Int /\ Rule(d) \in Int
  BY DEF IsRecord, Rule
<1> QED
  BY <1>1 DEF IsRecord, Beats, Winner, Separates

(* One more claim: the record that settles is the best of all, if the one
   before was the best of the rest. *)
LEMMA SettledBest ==
  ASSUME NEW D, \A r \in D : IsRecord(r), NEW prev \in BestOf(D), NEW e, IsRecord(e),
         \A x, y \in D \cup {e} : x.cc = y.cc => x = y
  PROVE  (IF prev.cc = e.cc THEN prev ELSE Winner(prev, e)) \in BestOf(D \cup {e})
<1>1. prev \in D /\ \A d \in D : Beats(prev, d)
  BY DEF BestOf
<1>2. CASE prev.cc = e.cc
  <2>1. prev = e
    BY <1>1, <1>2
  <2>2. D \cup {e} = D
    BY <1>1, <2>1
  <2> QED
    BY <1>2, <2>2
<1>3. CASE prev.cc # e.cc
  <2> DEFINE w == Winner(prev, e)
  <2>1. w \in {prev, e} /\ Beats(w, prev) /\ Beats(w, e) /\ IsRecord(w)
    BY <1>1, BeatsOrders
  <2>2. \A d \in D : Beats(w, d)
    <3> HIDE DEF w
    <3> QED
      BY <1>1, <2>1, BeatsOrders
  <2>3. w \in BestOf(D \cup {e})
    BY <1>1, <2>1, <2>2 DEF BestOf
  <2> QED
    BY <1>3, <2>3
<1> QED
  BY <1>2, <1>3

(* The order of the records is that of the rule given. *)
LEMMA BestLater ==
  ASSUME mode' = mode
  PROVE  /\ \A k : Best(k)' = BestOf(Recs(k)')
         /\ \A k : OncePerCountry(k)' <=> \A d, e \in Recs(k)' : d.cc = e.cc => d = e
<1>1. \A a, b : Beats(a, b)' <=> Beats(a, b)
  BY DEF Beats, Rule
<1>2. \A k : Best(k)' = {e \in Recs(k)' : \A d \in Recs(k)' : Beats(e, d)'}
  BY DEF Best, Recs
<1> QED
  BY <1>1, <1>2 DEF BestOf, OncePerCountry, Recs

Adds(c) == c.verdict = "accepted" /\ RangePrefixes(c.family, c.lo, c.hi) # {}

(* A line adds its record to the prefixes of its range, or to none. *)
LEMMA LineAdds ==
  ASSUME NEW l, seen' = seen \cup {<<l, file>>}
  PROVE  LET c == parseLine(l, file)
         IN \A k : Recs(k)' = IF Adds(c) /\ k \in RangePrefixes(c.family, c.lo, c.hi)
                              THEN Recs(k) \cup {c.rec} ELSE Recs(k)
<1> DEFINE c == parseLine(l, file)
<1> DEFINE All == {parseLine(s[1], s[2]) : s \in seen}
<1>1. {parseLine(s[1], s[2]) : s \in seen'} = All \cup {c}
  <2>1. <<l, file>>[1] = l /\ <<l, file>>[2] = file
    OBVIOUS
  <2> HIDE DEF c
  <2>2. parseLine(<<l, file>>[1], <<l, file>>[2]) = c
    BY <2>1 DEF c
  <2>3. \A x : x \in {parseLine(s[1], s[2]) : s \in seen'} <=> x \in All \/ x = c
    BY <2>2
  <2> QED
    BY <2>3
<1>2. Claims = {x \in All : Adds(x)} /\ Claims' = {x \in All \cup {c} : Adds(x)}
  BY <1>1 DEF Claims, Adds
<1> HIDE DEF c, All
<1>3. Claims' = IF Adds(c) THEN Claims \cup {c} ELSE Claims
  BY <1>2
<1>4. \A k : /\ Recs(k) = {x.rec : x \in {y \in Claims : k \in RangePrefixes(y.family, y.lo, y.hi)}}
             /\ Recs(k)' = {x.rec : x \in {y \in Claims' : k \in RangePrefixes(y.family, y.lo, y.hi)}}
  BY DEF Recs, Claimants
<1>5. \A k : Recs(k)' = IF Adds(c) /\ k \in RangePrefixes(c.family, c.lo, c.hi)
                        THEN Recs(k) \cup {c.rec} ELSE Recs(k)
  BY <1>3, <1>4
<1> QED
  BY <1>5 DEF c

LEMMA CollectStep ==
  ASSUME RirInv, NEW l \in Lines, Collect(l)
  PROVE  RirInv'
<1> DEFINE c == parseLine(l, file)
<1> DEFINE ks == RangePrefixes(c.family, c.lo, c.hi)
<1>1. seen' = seen \cup {<<l, file>>} /\ mode' = mode
  BY DEF Collect
<1>2. \A k : Recs(k)' = IF Adds(c) /\ k \in ks THEN Recs(k) \cup {c.rec} ELSE Recs(k)
  BY <1>1, LineAdds
<1>3. \A s \in seen' : s[1] \in Lines
  BY <1>1 DEF RirInv
<1>4. \/ ~Adds(c) /\ table' = table
      \/ Adds(c) /\ table' = [k \in DOMAIN table \cup ks |-> IF k \in ks THEN Settle(k, c.rec) ELSE table[k]]
  BY DEF Collect, Count, Claim, Adds
<1>5. c.verdict = "accepted" => IsRecord(c.rec)
  BY AcceptedRecord
<1>6. \A k : \A r \in Recs(k) : IsRecord(r)
  BY RecsAreRecords DEF RirInv
<1>7. \A k \in DOMAIN table : OncePerCountry(k) => table[k] \in BestOf(Recs(k))
  BY RecsAre DEF RirInv, OrderFreeOncePerCountry
<1>8. \A k : k \in DOMAIN table <=> Recs(k) # {}
  BY DEF RirInv
<1> HIDE DEF c, ks
<1>9. \A k : k \in DOMAIN table' <=> Recs(k)' # {}
  BY <1>2, <1>4, <1>8
<1>10. OrderFreeOncePerCountry'
  <2> SUFFICES ASSUME NEW k \in DOMAIN table', \A x, y \in Recs(k)' : x.cc = y.cc => x = y
               PROVE  table'[k] \in BestOf(Recs(k)')
    BY <1>1, BestLater DEF OrderFreeOncePerCountry
  <2>1. CASE ~(Adds(c) /\ k \in ks)
    <3>1. Recs(k)' = Recs(k) /\ k \in DOMAIN table /\ table'[k] = table[k]
      BY <1>2, <1>4, <2>1
    <3> QED
      BY <1>7, <3>1, RecsAre
  <2>2. CASE Adds(c) /\ k \in ks
    <3>1. Recs(k)' = Recs(k) \cup {c.rec} /\ table'[k] = Settle(k, c.rec) /\ IsRecord(c.rec)
      BY <1>2, <1>4, <1>5, <2>2 DEF Adds
    <3>2. CASE k \notin DOMAIN table
      <4>1. Recs(k)' = {c.rec} /\ table'[k] = c.rec
        BY <1>8, <3>1, <3>2 DEF Settle
      <4> QED
        BY <3>1, <4>1, BeatsOrders DEF BestOf
    <3>3. CASE k \in DOMAIN table
      <4>1. table[k] \in BestOf(Recs(k))
        BY <1>7, <3>1, <3>3, RecsAre
      <4>2. table'[k] = IF table[k].cc = c.rec.cc THEN table[k] ELSE Winner(table[k], c.rec)
        BY <3>1, <3>3 DEF Settle
      <4> DEFINE D == Recs(k)
      <4> DEFINE prev == table[k]
      <4> DEFINE e == c.rec
      <4>3. /\ \A r \in D : IsRecord(r)
            /\ prev \in BestOf(D) /\ IsRecord(e)
            /\ \A x, y \in D \cup {e} : x.cc = y.cc => x = y
        BY <1>6, <3>1, <4>1
      <4>4. (IF prev.cc = e.cc THEN prev ELSE Winner(prev, e)) \in BestOf(D \cup {e})
        <5> HIDE DEF D, prev, e
        <5> QED
          BY <4>3, SettledBest
      <4> QED
        BY <3>1, <4>2, <4>4
    <3> QED
      BY <3>2, <3>3
  <2> QED
    BY <2>1, <2>2
<1>11. \A k \in DOMAIN table' : table'[k] \in Recs(k)'
  <2> SUFFICES ASSUME NEW k \in DOMAIN table' PROVE table'[k] \in Recs(k)'
    OBVIOUS
  <2>1. CASE ~(Adds(c) /\ k \in ks)
    <3>1. Recs(k)' = Recs(k) /\ k \in DOMAIN table /\ table'[k] = table[k]
      BY <1>2, <1>4, <2>1
    <3> QED
      BY <3>1 DEF RirInv
  <2>2. CASE Adds(c) /\ k \in ks
    <3>1. Recs(k)' = Recs(k) \cup {c.rec} /\ table'[k] = Settle(k, c.rec)
      BY <1>2, <1>4, <2>2
    <3>2. Settle(k, c.rec) = c.rec \/ (k \in DOMAIN table /\ Settle(k, c.rec) = table[k])
      BY DEF Settle, Winner
    <3>3. k \in DOMAIN table => table[k] \in Recs(k)
      BY DEF RirInv
    <3> QED
      BY <3>1, <3>2, <3>3
  <2> QED
    BY <2>1, <2>2
<1> QED
  BY <1>3, <1>9, <1>10, <1>11 DEF RirInv

LEMMA InvStep == RirInv /\ [Next]_vars => RirInv'
<1> SUFFICES ASSUME RirInv, [Next]_vars PROVE RirInv'
  OBVIOUS
<1>1. CASE \E l \in Lines : Collect(l)
  BY <1>1, CollectStep
<1>2. CASE UNCHANGED <<mode, table, seen>>
  <2>1. \A k : Recs(k)' = Recs(k)
    BY <1>2 DEF Recs, Claimants, Claims
  <2>2. OrderFreeOncePerCountry'
    BY <1>2, <2>1, BestLater, RecsAre DEF RirInv, OrderFreeOncePerCountry
  <2> QED
    BY <1>2, <2>1, <2>2 DEF RirInv
<1>3. (\E l \in Lines : Collect(l)) \/ UNCHANGED <<mode, table, seen>>
  BY DEF Next, vars, Open, EndOfFile, ReadFails, Create, Emit, Log
<1> QED
  BY <1>1, <1>2, <1>3
-----------------------------------------------------------------------------
(* The arithmetic of a family. *)
LEMMA Widths ==
  /\ W \in Nat /\ U \in Nat /\ 2^W \in Nat \ {0} /\ 2^U \in Nat \ {0} /\ 2 * 2^W <= 2^U
  /\ TopAddr \in Nat /\ Addr = 0 .. TopAddr /\ TopAddr + 1 = 2^W
<1>1. W \in Nat /\ U \in Nat /\ W \in 0 .. U /\ U \in 0 .. U
  BY WidthAssumption
<1>2. 2^W \in Nat \ {0} /\ 2^U \in Nat \ {0} /\ 2 * 2^W <= 2^U
  BY <1>1, PowerAssumption
<1> QED
  BY <1>1, <1>2 DEF TopAddr, Addr

(* The prefixes are the blocks of the family. *)
LEMMA PrefixesAre ==
  /\ Powers(W) /\ Addr = 0 .. 2^W - 1
  /\ \A a, b : Prefix(a, b) = Block(a, b, W)
  /\ AllPrefixes = Blocks(W)
<1>1. Powers(W)
  <2>1. \A j \in 0 .. W : j \in 0 .. U
    BY WidthAssumption
  <2> QED
    BY <2>1, WidthAssumption, PowerAssumption DEF Powers
<1>2. Addr = 0 .. 2^W - 1
  BY DEF Addr, TopAddr
<1>3. \A a, b : Prefix(a, b) = Block(a, b, W)
  BY DEF Prefix, Masked, lastAddr, lowMask, Block
<1> QED
  BY <1>1, <1>2, <1>3 DEF AllPrefixes, Blocks

(* A sum that passes the modulus at most once. *)
LEMMA ModOnce ==
  ASSUME NEW x \in Nat, NEW m \in Nat \ {0}, x < 2 * m
  PROVE  x % m = IF x < m THEN x ELSE x - m
<1>1. PICK q \in Nat : q = x \div m
  BY Division
<1>2. PICK y : y = q * m
  OBVIOUS
<1>3. y \in Nat /\ x = y + (x % m) /\ x % m \in 0 .. m - 1
  BY <1>1, <1>2, Division
<1>4. q \in {0, 1}
  <2> SUFFICES ASSUME 1 < q PROVE FALSE
    BY <1>1
  <2>1. 1 * m + m <= q * m
    BY NextMultiple
  <2> QED
    BY <1>2, <1>3, <2>1
<1>5. y = 0 \/ y = m
  BY <1>2, <1>4
<1> QED
  BY <1>3, <1>5

(* What a line publishes is what the parser takes from it: the sum that wraps
   gives a range with its ends exchanged, which has no address. *)
LEMMA ParsedIs ==
  ASSUME NEW l \in Lines, NEW reg, NEW c, c = parseLine(l, reg)
  PROVE  /\ c.verdict = "accepted" =>
              /\ c.family = l.family /\ c.lo \in Addr /\ c.hi \in Addr /\ c.rec.cc = l.cc
              /\ Published(l) = c.lo .. c.hi
         /\ c.verdict # "accepted" => Published(l) = {}
<1>1. /\ l.kind \in {"other", "garbled", "block"} /\ l.family \in {"ipv4", "ipv6"}
      /\ l.value \in Nat /\ l.value < 2^U /\ l.start \in Addr
  BY LineAssumption
<1>2. Skipped.verdict # "accepted" /\ Malformed.verdict # "accepted"
  BY DEF Skipped, Malformed
<1>3. ASSUME NEW last, NEW bits
      PROVE  /\ Accepted(l, reg, last, bits).verdict = "accepted"
             /\ Accepted(l, reg, last, bits).family = l.family
             /\ Accepted(l, reg, last, bits).lo = l.start /\ Accepted(l, reg, last, bits).hi = last
             /\ Accepted(l, reg, last, bits).rec.cc = l.cc
  BY DEF Accepted
<1>4. CASE l.kind # "block" \/ l.value = 0
  <2>1. c \in {Skipped, Malformed}
    BY <1>1, <1>4 DEF parseLine
  <2>2. Published(l) = {}
    BY <1>1, <1>4 DEF Published
  <2> QED
    BY <1>2, <2>1, <2>2
<1>5. CASE l.kind = "block" /\ l.value # 0 /\ l.family = "ipv4"
  <2>1. PICK x : x = l.start + (l.value - 1)
    OBVIOUS
  <2>2. x \in Nat /\ l.start \in Nat /\ l.start <= x /\ x < 2 * 2^U /\ x - 2^U < l.start
    BY <1>1, <1>5, <2>1, Widths
  <2>3. PICK sum : sum = x % 2^U
    OBVIOUS
  <2>4. sum = IF x < 2^U THEN x ELSE x - 2^U
    BY <2>2, <2>3, Widths, ModOnce
  <2>5. Published(l) = IF x > TopAddr THEN {} ELSE l.start .. x
    <3>1. l.start + l.value - 1 = x
      BY <1>1, <2>1, <2>2
    <3> QED
      BY <1>5, <3>1 DEF Published
  <2>6. c = IF sum <= TopAddr THEN Accepted(l, reg, sum, W - ceilLog2(l.value)) ELSE Malformed
    BY <1>5, <2>1, <2>3 DEF parseLine, addV4
  <2>7. CASE x < 2^U
    <3>1. sum = x
      BY <2>4, <2>7
    <3>2. CASE x <= TopAddr
      <4>1. x \in Addr /\ ~(x > TopAddr)
        BY <2>2, <3>2, Widths
      <4> QED
        BY <1>1, <1>3, <2>5, <2>6, <3>1, <3>2, <4>1
    <3>3. CASE ~(x <= TopAddr)
      <4>1. x > TopAddr
        BY <2>2, <3>3, Widths
      <4> QED
        BY <1>2, <2>5, <2>6, <3>1, <3>3, <4>1
    <3> QED
      BY <3>2, <3>3
  <2>8. CASE ~(x < 2^U)
    <3>1. sum = x - 2^U
      BY <2>4, <2>8
    <3>2. x > TopAddr /\ sum \in Nat /\ sum < l.start /\ l.start <= TopAddr
      BY <1>1, <2>2, <2>8, <3>1, Widths
    <3>3. sum \in Addr /\ sum <= TopAddr /\ l.start .. sum = {}
      BY <2>2, <3>2, Widths
    <3> QED
      BY <1>1, <1>3, <2>5, <2>6, <3>2, <3>3
  <2> QED
    BY <2>7, <2>8
<1>6. CASE l.kind = "block" /\ l.value # 0 /\ l.family = "ipv6"
  <2>1. CASE l.value > W
    <3>1. l.value \notin 1 .. W
      BY <1>1, <2>1, Widths
    <3>2. Published(l) = {}
      BY <1>6, <3>1 DEF Published
    <3>3. c = Malformed
      BY <1>6, <2>1 DEF parseLine
    <3> QED
      BY <1>2, <3>2, <3>3
  <2>2. CASE ~(l.value > W)
    <3>1. l.value \in 1 .. W /\ W - l.value \in 0 .. W
      BY <1>1, <1>6, <2>2, Widths
    <3>2. PICK u : u = 2^(W - l.value)
      OBVIOUS
    <3>3. PICK r : r = l.start % u
      OBVIOUS
    <3>4. /\ u \in Nat \ {0} /\ r \in 0 .. u - 1
          /\ l.start - r \in Addr /\ l.start - r + (u - 1) \in Addr
      <4>1. /\ u \in Nat \ {0} /\ l.start - (l.start % u) \in Addr
            /\ l.start - (l.start % u) + (u - 1) \in Addr
        <5>1. PICK k \in 0 .. W : u = 2^k
          BY <3>1, <3>2
        <5>2. l.start \in 0 .. 2^W - 1
          BY <1>1, PrefixesAre
        <5>3. /\ u \in Nat \ {0} /\ l.start - (l.start % u) \in 0 .. 2^W - 1
              /\ l.start - (l.start % u) + (u - 1) \in 0 .. 2^W - 1
          BY <5>1, <5>2, PrefixesAre, BlockWithin
        <5> QED
          BY <5>3, PrefixesAre
      <4>2. l.start \in Nat
        BY <1>1, Widths
      <4>3. l.start % u \in 0 .. u - 1
        BY <4>1, <4>2, Division
      <4> QED
        BY <3>3, <4>1, <4>3
    <3>5. Published(l) = IF l.start + u - 1 > TopAddr \/ r # 0 THEN {} ELSE l.start .. l.start + u - 1
      BY <1>6, <3>1, <3>2, <3>3, <3>4 DEF Published
    <3>6. c = IF l.start - r # l.start THEN Malformed ELSE Accepted(l, reg, l.start - r + (u - 1), l.value)
      BY <1>6, <2>2, <3>2, <3>3 DEF parseLine, Masked, lastAddr, lowMask
    <3>7. l.start \in Nat /\ (l.start - r = l.start <=> r = 0)
      BY <1>1, <3>4, Widths
    <3>8. CASE r = 0
      <4>1. l.start - r + (u - 1) = l.start + u - 1 /\ ~(l.start + u - 1 > TopAddr)
        BY <3>4, <3>7, <3>8, Widths
      <4> QED
        BY <1>1, <1>3, <3>4, <3>5, <3>6, <3>7, <3>8, <4>1
    <3>9. CASE r # 0
      BY <1>2, <3>5, <3>6, <3>7, <3>9
    <3> QED
      BY <3>8, <3>9
  <2> QED
    BY <2>1, <2>2
<1> QED
  BY <1>1, <1>4, <1>5, <1>6
-----------------------------------------------------------------------------
(* The largest prefixes of a range hold its addresses and no others. *)
LEMMA CoversRange ==
  ASSUME NEW lo \in Addr, NEW hi \in Addr
  PROVE  /\ IsFiniteSet(Covers[<<lo, hi>>])
         /\ \A p \in Covers[<<lo, hi>>] : /\ p.lo \in Addr /\ p.hi \in Addr /\ p.lo <= p.hi
                                         /\ lo <= p.lo /\ p.hi <= hi
         /\ \A x \in lo .. hi : \E p \in Covers[<<lo, hi>>] : p.lo <= x /\ x <= p.hi
<1>1. \A p \in AllPrefixes : /\ p.lo \in Addr /\ p.hi \in Addr /\ p.lo <= p.hi
                             /\ p.lo \in Nat /\ p.hi \in Nat
  BY PrefixesAre, BlockOf
<1>2. \A p \in AllPrefixes : (lo <= p.lo /\ p.hi <= hi) <=> p.lo .. p.hi \subseteq lo .. hi
  BY <1>1, Widths
<1>3. Covers[<<lo, hi>>] = {p \in AllPrefixes :
         /\ lo <= p.lo /\ p.hi <= hi
         /\ \A q \in AllPrefixes : lo <= q.lo /\ q.hi <= hi /\ q.lo <= p.lo /\ p.hi <= q.hi => q = p}
  BY DEF Covers
<1>4. Covers[<<lo, hi>>] = LargestIn(lo .. hi, W)
  BY <1>2, <1>3, PrefixesAre DEF LargestIn
<1>5. lo .. hi \in SUBSET (0 .. 2^W - 1)
  BY PrefixesAre, Widths
<1>6. \A x \in lo .. hi : \E p \in Covers[<<lo, hi>>] : p.lo <= x /\ x <= p.hi
  BY <1>4, <1>5, PrefixesAre, LargestFill
<1>7. IsFiniteSet(Covers[<<lo, hi>>])
  <2>1. Covers[<<lo, hi>>] \subseteq Blocks(W)
    BY <1>4 DEF LargestIn
  <2> QED
    BY <2>1, PrefixesAre, BlocksFinite, FS_Subset
<1> QED
  BY <1>1, <1>3, <1>6, <1>7

(* A range of the table has its family, lies within its record's and is
   finite. *)
LEMMA RangePrefixesAre ==
  ASSUME NEW family, NEW lo \in Addr, NEW hi \in Addr
  PROVE  /\ \A k \in RangePrefixes(family, lo, hi) :
              /\ k.family = family /\ k.lo \in Addr /\ k.hi \in Addr
              /\ k.lo <= k.hi /\ lo <= k.lo /\ k.hi <= hi
         /\ \A x \in lo .. hi : \E k \in RangePrefixes(family, lo, hi) : k.lo <= x /\ x <= k.hi
         /\ IsFiniteSet(RangePrefixes(family, lo, hi))
<1> DEFINE key == [p \in Covers[<<lo, hi>>] |-> [family |-> family, lo |-> p.lo, hi |-> p.hi]]
<1>1. RangePrefixes(family, lo, hi) = {key[p] : p \in Covers[<<lo, hi>>]}
  BY DEF RangePrefixes
<1>2. \A p \in Covers[<<lo, hi>>] : key[p] = [family |-> family, lo |-> p.lo, hi |-> p.hi]
  OBVIOUS
<1>3. IsFiniteSet(Covers[<<lo, hi>>])
  BY CoversRange
<1>4. IsFiniteSet({key[p] : p \in Covers[<<lo, hi>>]})
  <2> HIDE DEF key
  <2> QED
    BY <1>3, ImageFinite
<1>5. \A p \in Covers[<<lo, hi>>] : /\ p.lo \in Addr /\ p.hi \in Addr /\ p.lo <= p.hi
                                /\ lo <= p.lo /\ p.hi <= hi
  BY CoversRange
<1> HIDE DEF key
<1>6. ASSUME NEW x \in lo .. hi
      PROVE  \E k \in RangePrefixes(family, lo, hi) : k.lo <= x /\ x <= k.hi
  <2>1. PICK p \in Covers[<<lo, hi>>] : p.lo <= x /\ x <= p.hi
    BY CoversRange
  <2>2. key[p] \in RangePrefixes(family, lo, hi)
    BY <1>1, Zenon
  <2>3. key[p].lo = p.lo /\ key[p].hi = p.hi
    <3>1. key[p] = [family |-> family, lo |-> p.lo, hi |-> p.hi]
      BY <1>2, Zenon
    <3> QED
      BY <3>1
  <2> QED
    BY <2>1, <2>2, <2>3
<1>7. ASSUME NEW k \in RangePrefixes(family, lo, hi)
      PROVE  /\ k.family = family /\ k.lo \in Addr /\ k.hi \in Addr
             /\ k.lo <= k.hi /\ lo <= k.lo /\ k.hi <= hi
  <2>1. PICK p \in Covers[<<lo, hi>>] : k = key[p]
    BY <1>1, Zenon
  <2>2. k.family = family /\ k.lo = p.lo /\ k.hi = p.hi
    <3>1. k = [family |-> family, lo |-> p.lo, hi |-> p.hi]
      BY <1>2, <2>1, Zenon
    <3> QED
      BY <3>1
  <2> QED
    BY <1>5, <2>2
<1>8. IsFiniteSet(RangePrefixes(family, lo, hi))
  BY <1>1, <1>4, Zenon
<1> QED
  BY <1>6, <1>7, <1>8
-----------------------------------------------------------------------------
(* The claims of a prefix, by the lines that make them. *)
LEMMA ClaimedBy ==
  ASSUME RirInv
  PROVE  /\ \A k, r : r \in Recs(k) <=>
              \E s \in seen : /\ parseLine(s[1], s[2]).verdict = "accepted"
                            /\ r = parseLine(s[1], s[2]).rec
                            /\ k \in RangePrefixes(parseLine(s[1], s[2]).family, parseLine(s[1], s[2]).lo, parseLine(s[1], s[2]).hi)
BY DEF Recs, Claimants, Claims

(* The answer for an address comes from a line that published it, and there is
   one whenever a line published it. *)
LEMMA AnswersFromLines ==
  ASSUME RirInv
  PROVE  AnswersPublished
<1> SUFFICES ASSUME NEW family \in {"ipv4", "ipv6"}, NEW x \in Addr
             PROVE  LET publishers == {l \in seen : l[1].family = family /\ x \in Published(l[1])}
                    IN /\ Answer(family, x) = {} <=> publishers = {}
                       /\ Answer(family, x) \subseteq {l[1].cc : l \in publishers}
  BY DEF AnswersPublished
<1> DEFINE publishers == {l \in seen : l[1].family = family /\ x \in Published(l[1])}
           holds == {k \in DOMAIN table : k.family = family /\ k.lo <= x /\ x <= k.hi}
           least == {k \in holds : \A j \in holds : k.hi - k.lo <= j.hi - j.lo}
<1>1. Answer(family, x) = {table[k].cc : k \in least}
  BY DEF Answer
<1>2. \A s \in seen : s[1] \in Lines
  BY DEF RirInv
<1>3. ASSUME NEW k \in DOMAIN table
      PROVE  \E s \in seen : /\ parseLine(s[1], s[2]).verdict = "accepted"
                            /\ table[k] = parseLine(s[1], s[2]).rec
                            /\ k \in RangePrefixes(parseLine(s[1], s[2]).family, parseLine(s[1], s[2]).lo, parseLine(s[1], s[2]).hi)
  <2>1. table[k] \in Recs(k)
    BY DEF RirInv
  <2> QED
    BY <2>1, ClaimedBy
<1>4. ASSUME NEW k \in DOMAIN table
      PROVE  /\ k.lo \in Addr /\ k.hi \in Addr /\ k.lo <= k.hi
             /\ k \in holds => \E s \in publishers : table[k].cc = s[1].cc
  <2>1. PICK s \in seen : /\ parseLine(s[1], s[2]).verdict = "accepted"
                          /\ table[k] = parseLine(s[1], s[2]).rec
                          /\ k \in RangePrefixes(parseLine(s[1], s[2]).family, parseLine(s[1], s[2]).lo, parseLine(s[1], s[2]).hi)
    BY <1>3
  <2>2. PICK c : c = parseLine(s[1], s[2])
    OBVIOUS
  <2>3. /\ c.family = s[1].family /\ c.lo \in Addr /\ c.hi \in Addr /\ c.rec.cc = s[1].cc
        /\ Published(s[1]) = c.lo .. c.hi
    BY <1>2, <2>1, <2>2, ParsedIs
  <2>4. /\ k.family = c.family /\ k.lo \in Addr /\ k.hi \in Addr
        /\ k.lo <= k.hi /\ c.lo <= k.lo /\ k.hi <= c.hi
    <3>0. PICK f : f = c.family
      OBVIOUS
    <3>1. PICK lo \in Addr, hi \in Addr : lo = c.lo /\ hi = c.hi
      BY <2>3
    <3>2. k \in RangePrefixes(f, lo, hi)
      BY <2>1, <2>2, <3>0, <3>1
    <3>3. /\ k.family = f /\ k.lo \in Addr /\ k.hi \in Addr
          /\ k.lo <= k.hi /\ lo <= k.lo /\ k.hi <= hi
      BY <3>2, RangePrefixesAre
    <3> QED
      BY <3>0, <3>1, <3>3
  <2>5. ASSUME k \in holds
        PROVE  s \in publishers
    <3>1. x \in c.lo .. c.hi
      BY <2>3, <2>4, <2>5, Widths
    <3> QED
      BY <2>3, <2>4, <2>5, <3>1
  <2>6. table[k].cc = s[1].cc
    BY <2>1, <2>2, <2>3
  <2> QED
    BY <2>4, <2>5, <2>6
<1>5. Answer(family, x) \subseteq {l[1].cc : l \in publishers}
  BY <1>1, <1>4
<1>6. ASSUME NEW s \in publishers
      PROVE  holds # {}
  <2>1. PICK c : c = parseLine(s[1], s[2])
    OBVIOUS
  <2>2. /\ c.verdict = "accepted" /\ c.family = family /\ c.lo \in Addr /\ c.hi \in Addr
        /\ x \in c.lo .. c.hi
    <3>1. s[1] \in Lines /\ x \in Published(s[1]) /\ s[1].family = family
      BY <1>2
    <3>2. /\ c.verdict = "accepted" =>
              /\ c.family = s[1].family /\ c.lo \in Addr /\ c.hi \in Addr
              /\ Published(s[1]) = c.lo .. c.hi
          /\ c.verdict # "accepted" => Published(s[1]) = {}
      BY <2>1, <3>1, ParsedIs
    <3> QED
      BY <3>1, <3>2
  <2>3. PICK k \in RangePrefixes(family, c.lo, c.hi) : k.lo <= x /\ x <= k.hi /\ k.family = family
    <3>1. PICK lo \in Addr, hi \in Addr : lo = c.lo /\ hi = c.hi
      BY <2>2
    <3>2. PICK k \in RangePrefixes(family, lo, hi) : k.lo <= x /\ x <= k.hi
      BY <2>2, <3>1, RangePrefixesAre
    <3>3. k.family = family
      BY RangePrefixesAre
    <3> QED
      BY <3>1, <3>2, <3>3
  <2>4. c.rec \in Recs(k)
    <3>1. s \in seen /\ k \in RangePrefixes(c.family, c.lo, c.hi)
      BY <2>2, <2>3
    <3> QED
      BY <2>1, <2>2, <3>1, ClaimedBy
  <2>5. k \in DOMAIN table
    BY <2>4 DEF RirInv
  <2> QED
    BY <2>3, <2>5
<1>7. holds # {} => least # {}
  <2> SUFFICES ASSUME holds # {} PROVE least # {}
    OBVIOUS
  <2> DEFINE sizes == {k.hi - k.lo : k \in holds}
  <2>1. \A k \in holds : k.hi - k.lo \in Nat
    BY <1>4, Widths
  <2>2. sizes \in SUBSET Nat /\ sizes # {}
    BY <2>1
  <2>3. PICK m \in sizes : \A n \in sizes : m <= n
    <3> HIDE DEF sizes
    <3> QED
      BY <2>2, LeastExists
  <2>4. PICK k \in holds : m = k.hi - k.lo
    OBVIOUS
  <2>5. k \in least
    BY <2>3, <2>4
  <2> QED
    BY <2>5
<1>8. least \subseteq holds /\ (holds # {} => publishers # {})
  BY <1>4
<1>9. Answer(family, x) = {} <=> publishers = {}
  <2> HIDE DEF holds, publishers, least
  <2> QED
    BY <1>1, <1>6, <1>7, <1>8
<1> QED
  BY <1>5, <1>9
-----------------------------------------------------------------------------
(* What one line adds to the log: every contested prefix once. *)
LEMMA MetIs ==
  ASSUME NEW ks, IsFiniteSet(ks), \A k \in ks : k.lo \in Addr, NEW e, NEW met \in Met(ks, e)
  PROVE  /\ IsSeq(met) /\ Len(met) = Cardinality(Contested(ks, e))
         /\ \A i \in 1 .. Len(met) : met[i].prefix \in Contested(ks, e) /\ met[i] = Conflict(met[i].prefix, e)
         /\ \A k \in Contested(ks, e) : \E i \in 1 .. Len(met) : met[i].prefix = k
         /\ \A i, j \in 1 .. Len(met) : met[i].prefix = met[j].prefix => i = j
         /\ Cardinality({i \in 1 .. Len(met) : ~met[i].resolved})
              = Cardinality({k \in Contested(ks, e) : ~Separates(table[k], e)})
<1> DEFINE C == Contested(ks, e)
           n == Cardinality(C)
<1>1. C \in SUBSET ks
  BY DEF Contested
<1>2. IsFiniteSet(C) /\ n \in Nat
  <2> HIDE DEF C
  <2> QED
    BY <1>1, FS_Subset, FS_CardinalityType
<1>3. PICK s \in Ascending(C) : met = [i \in DOMAIN s |-> Conflict(s[i], e)]
  BY DEF Met
<1>4. /\ s \in [1 .. n -> C] /\ DOMAIN s = 1 .. n
      /\ \A k \in C : \E i \in 1 .. n : s[i] = k
      /\ \A i, j \in 1 .. n : i < j => s[i].lo < s[j].lo
  BY DEF Ascending
<1> HIDE DEF n
<1>5. \A k \in C : k.lo \in Int
  BY <1>1, Widths
<1> HIDE DEF C
<1>6. \A i, j \in 1 .. n : s[i] = s[j] => i = j
  <2> SUFFICES ASSUME NEW i \in 1 .. n, NEW j \in 1 .. n, s[i] = s[j], i < j PROVE FALSE
    BY <1>2
  <2>1. s[i].lo < s[j].lo /\ s[i].lo = s[j].lo /\ s[i].lo \in Int
    BY <1>4, <1>5
  <2> QED
    BY <2>1
<1>7. met = [i \in 1 .. n |-> Conflict(s[i], e)]
  BY <1>3, <1>4
<1>8. PICK T : T = {Conflict(s[i], e) : i \in 1 .. n}
  OBVIOUS
<1>9. met \in Seq(T) /\ Len(met) = n
  <2>1. met \in [1 .. n -> T]
    BY <1>7, <1>8
  <2> QED
    BY <1>2, <2>1, MakeSeq
<1>10. \A i \in 1 .. n : met[i] = Conflict(s[i], e) /\ met[i].prefix = s[i] /\ s[i] \in C
  BY <1>4, <1>7 DEF Conflict
<1>11. \A i \in 1 .. n : met[i].resolved <=> Separates(table[s[i]], e)
  <2> SUFFICES ASSUME NEW i \in 1 .. n PROVE met[i].resolved <=> Separates(table[s[i]], e)
    OBVIOUS
  <2>1. met[i] = Conflict(s[i], e)
    BY <1>10
  <2>2. Conflict(s[i], e).resolved = Separates(table[s[i]], e)
    BY DEF Conflict, Separates
  <2> QED
    BY <2>1, <2>2, Zenon
<1>12. Cardinality({k \in C : ~Separates(table[k], e)}) = Cardinality({i \in 1 .. n : ~met[i].resolved})
  <2> DEFINE A == {i \in 1 .. n : ~met[i].resolved}
             B == {k \in C : ~Separates(table[k], e)}
             f == [i \in A |-> s[i]]
  <2>1. IsFiniteSet(A)
    <3>1. IsFiniteSet(1 .. n)
      BY <1>2, FS_Interval
    <3>2. A \in SUBSET (1 .. n)
      OBVIOUS
    <3> HIDE DEF A
    <3> QED
      BY <3>1, <3>2, FS_Subset
  <2>2. \A i \in 1 .. n : i \in A <=> s[i] \in B
    BY <1>10, <1>11
  <2>3. A \subseteq 1 .. n /\ B \subseteq C
    OBVIOUS
  <2> HIDE DEF A, B
  <2>4. f \in [A -> B]
    BY <2>2, <2>3
  <2>5. \A i, j \in A : f[i] = f[j] => i = j
    BY <1>6, <2>3
  <2>6. \A k \in B : \E i \in A : f[i] = k
    BY <1>4, <2>2, <2>3
  <2>7. Cardinality(B) = Cardinality(A)
    <3> HIDE DEF f
    <3> QED
      BY <2>1, <2>4, <2>5, <2>6, SameCount
  <2> QED
    BY <2>7 DEF A, B
<1>13. IsSeq(met)
  BY <1>9 DEF IsSeq
<1>14. \A i \in 1 .. n : met[i].prefix \in C /\ met[i] = Conflict(met[i].prefix, e)
  BY <1>10
<1>15. \A k \in C : \E i \in 1 .. n : met[i].prefix = k
  BY <1>4, <1>10
<1>16. \A i, j \in 1 .. n : met[i].prefix = met[j].prefix => i = j
  BY <1>6, <1>10
<1> QED
  BY <1>9, <1>12, <1>13, <1>14, <1>15, <1>16 DEF C, n

-----------------------------------------------------------------------------
(* A record that lost its prefix is in the log. *)
Explained(k, r) ==
  table[k].cc # r.cc =>
    \E i \in 1 .. Len(conflicts) :
      /\ conflicts[i].prefix = k /\ r.cc \in {conflicts[i].a.cc, conflicts[i].b.cc}
      /\ conflicts[i].winner # r.cc

Counted ==
  /\ {"conflicts", "unresolved"} \subseteq DOMAIN st
  /\ st.conflicts = Len(conflicts)
  /\ st.unresolved = Cardinality({i \in 1 .. Len(conflicts) : ~conflicts[i].resolved})

(* The log has a conflict only for prefixes of the table, explains every
   record that lost and the answer, and is counted. *)
LogInv ==
  /\ IsSeq(conflicts)
  /\ \A i \in 1 .. Len(conflicts) : conflicts[i].prefix \in DOMAIN table
  /\ \A k : \A r \in Recs(k) : Explained(k, r)
  /\ LogExplainsTable
  /\ Counted

LEMMA LogMeaning == LogInv => NothingSilent /\ LogExplainsTable
<1> SUFFICES ASSUME LogInv PROVE NothingSilent /\ LogExplainsTable
  OBVIOUS
<1>1. ASSUME NEW c \in Claims, NEW k \in RangePrefixes(c.family, c.lo, c.hi)
      PROVE  Explained(k, c.rec)
  <2>1. c.rec \in Recs(k)
    BY <1>1 DEF Recs, Claimants
  <2> QED
    BY <2>1 DEF LogInv
<1>2. Counted /\ LogExplainsTable
  BY DEF LogInv
<1> QED
  BY <1>1, <1>2 DEF NothingSilent, Counted, Explained

LEMMA LogInit == Init => LogInv
<1> SUFFICES ASSUME Init PROVE LogInv
  OBVIOUS
<1>1. seen = {} /\ DOMAIN table = {} /\ conflicts = <<>> /\ 1 .. Len(conflicts) = {} /\ Len(conflicts) = 0
  BY DEF Init
<1>2. \A k : Recs(k) = {}
  BY <1>1 DEF Recs, Claimants, Claims
<1>3. IsSeq(conflicts)
  BY <1>1, ShortSeqs
<1>4. Counted
  <2>1. {i \in 1 .. Len(conflicts) : ~conflicts[i].resolved} = {}
    BY <1>1
  <2>2. Cardinality({}) = 0
    BY FS_EmptySet
  <2> QED
    BY <1>1, <2>1, <2>2 DEF Init, Counted
<1> QED
  BY <1>1, <1>2, <1>3, <1>4 DEF LogInv, LogExplainsTable

(* A record claims the prefixes of its range. *)
LEMMA ClaimStep ==
  ASSUME LogInv, NEW ks, IsFiniteSet(ks), \A k \in ks : k.lo \in Addr, NEW c, Claim(c, ks), mode' = mode,
         \A k : k \in DOMAIN table <=> Recs(k) # {},
         \A k : Recs(k)' = IF k \in ks THEN Recs(k) \cup {c.rec} ELSE Recs(k)
  PROVE  LogInv'
<1> DEFINE e == c.rec
           C == Contested(ks, e)
           n == Len(conflicts)
<1>1. PICK met \in Met(ks, e) : conflicts' = conflicts \o met
  BY DEF Claim
<1>2. /\ IsSeq(met) /\ Len(met) = Cardinality(C)
      /\ \A i \in 1 .. Len(met) : met[i].prefix \in C /\ met[i] = Conflict(met[i].prefix, e)
      /\ \A k \in C : \E i \in 1 .. Len(met) : met[i].prefix = k
      /\ \A i, j \in 1 .. Len(met) : met[i].prefix = met[j].prefix => i = j
      /\ Cardinality({i \in 1 .. Len(met) : ~met[i].resolved}) = Cardinality({k \in C : ~Separates(table[k], e)})
  BY MetIs
<1> DEFINE m == Len(met)
<1>3. PICK T : conflicts \in Seq(T) /\ met \in Seq(T)
  <2>1. PICK A, B : conflicts \in Seq(A) /\ met \in Seq(B)
    BY <1>2 DEF LogInv, IsSeq
  <2>2. A \subseteq A \cup B /\ B \subseteq A \cup B
    OBVIOUS
  <2>3. conflicts \in Seq(A \cup B) /\ met \in Seq(A \cup B)
    BY <2>1, <2>2, SeqWider
  <2> QED
    BY <2>3
<1>4. /\ n \in Nat /\ m \in Nat
      /\ conflicts' \in Seq(T) /\ Len(conflicts') = n + m
      /\ \A i \in 1 .. n : conflicts'[i] = conflicts[i]
      /\ \A i \in 1 .. m : conflicts'[n + i] = met[i]
  <2>1. /\ conflicts \o met \in Seq(T) /\ Len(conflicts \o met) = n + m
        /\ \A i \in 1 .. n : (conflicts \o met)[i] = conflicts[i]
        /\ \A i \in 1 .. m : (conflicts \o met)[n + i] = met[i]
    BY <1>3, Concat
  <2>2. n \in Nat /\ m \in Nat
    BY <1>3
  <2> QED
    BY <1>1, <2>1, <2>2
<1>5. /\ table' = [k \in DOMAIN table \cup ks |-> IF k \in ks THEN Settle(k, e) ELSE table[k]]
      /\ st' = [st EXCEPT
           !.rows = @ + 1,
           !.conflicts = @ + Cardinality(C),
           !.unresolved = @ + Cardinality({k \in C : ~Separates(table[k], e)})]
  BY DEF Claim
<1>6. \A k : k \in C <=> k \in ks /\ k \in DOMAIN table /\ table[k].cc # e.cc
  BY DEF Contested
<1>7. \A k \in ks : /\ k \notin DOMAIN table => table'[k] = e
                    /\ k \in DOMAIN table /\ k \notin C => table'[k] = table[k] /\ table[k].cc = e.cc
                    /\ k \in C => table'[k] = Winner(table[k], e)
  BY <1>5, <1>6 DEF Settle
<1>8. \A k \in DOMAIN table : k \notin C => table'[k] = table[k]
  BY <1>5, <1>7
<1>9. \A i \in 1 .. m : /\ met[i].prefix \in C /\ met[i].a = table[met[i].prefix] /\ met[i].b = e
                        /\ met[i].winner = Winner(table[met[i].prefix], e).cc
  BY <1>2 DEF Conflict
<1>10. DOMAIN table' = DOMAIN table \cup ks
  BY <1>5
<1>11. \A k : Recs(k)' = IF k \in ks THEN Recs(k) \cup {e} ELSE Recs(k)
  OBVIOUS
<1>12. \A i \in 1 .. n + m : i \in 1 .. n \/ \E j \in 1 .. m : i = n + j
  <2>1. \A i \in 1 .. n + m : i \notin 1 .. n => i - n \in 1 .. m /\ i = n + (i - n)
    BY <1>4
  <2> QED
    BY <2>1
<1> HIDE DEF n, m, C, e
<1>13. \A i \in 1 .. n : i \in 1 .. n + m
  BY <1>4
<1>14. \A i \in 1 .. m : n + i \in 1 .. n + m /\ n + i \notin 1 .. n /\ \A j \in 1 .. n : j < n + i
  BY <1>4
<1>15. ASSUME NEW i \in 1 .. Len(conflicts')
       PROVE  conflicts'[i].prefix \in DOMAIN table'
  <2>1. CASE i \in 1 .. n
    <3>1. conflicts[i].prefix \in DOMAIN table
      BY <2>1 DEF LogInv, n
    <3> QED
      BY <1>4, <1>10, <2>1, <3>1
  <2>2. CASE i \notin 1 .. n
    <3>1. PICK j \in 1 .. m : i = n + j
      BY <1>4, <1>12, <2>2
    <3> QED
      BY <1>4, <1>6, <1>9, <1>10, <3>1
  <2> QED
    BY <2>1, <2>2
<1>16. ASSUME NEW k, NEW r \in Recs(k)'
       PROVE  Explained(k, r)'
  <2> DEFINE Lost == \E i \in 1 .. n :
               /\ conflicts[i].prefix = k /\ r.cc \in {conflicts[i].a.cc, conflicts[i].b.cc}
               /\ conflicts[i].winner # r.cc
             LostLater == \E i \in 1 .. n + m :
               /\ conflicts'[i].prefix = k /\ r.cc \in {conflicts'[i].a.cc, conflicts'[i].b.cc}
               /\ conflicts'[i].winner # r.cc
  <2>1. Lost => LostLater
    BY <1>4, <1>13
  <2>2. r \in Recs(k) => (table[k].cc # r.cc => Lost)
    BY DEF LogInv, Explained, n
  <2>3. ASSUME k \in C, table'[k].cc # r.cc, r \in {e, table[k]} \/ table[k].cc = r.cc
        PROVE  LostLater
    <3>1. PICK j \in 1 .. m : met[j].prefix = k
      BY <1>2, <2>3 DEF m
    <3>2. /\ conflicts'[n + j].prefix = k /\ conflicts'[n + j].a = table[k]
          /\ conflicts'[n + j].b = e /\ conflicts'[n + j].winner = Winner(table[k], e).cc
      BY <1>4, <1>9, <3>1
    <3>3. table'[k] = Winner(table[k], e)
      BY <1>6, <1>7, <2>3
    <3>4. r.cc \in {conflicts'[n + j].a.cc, conflicts'[n + j].b.cc}
      BY <2>3, <3>2
    <3> QED
      BY <1>14, <2>3, <3>2, <3>3, <3>4
  <2>4. ASSUME table'[k].cc # r.cc
        PROVE  LostLater
    <3> HIDE DEF Lost, LostLater
    <3>1. CASE k \notin ks
      <4>1. r \in Recs(k) /\ k \in DOMAIN table
        BY <1>11, <3>1
      <4>2. table'[k] = table[k]
        BY <1>6, <1>8, <3>1, <4>1
      <4> QED
        BY <2>1, <2>2, <2>4, <4>1, <4>2
    <3>2. CASE k \in ks /\ k \notin DOMAIN table
      <4>1. r = e
        BY <1>11, <3>2
      <4> QED
        BY <1>7, <2>4, <3>2, <4>1
    <3>3. CASE k \in ks /\ k \in DOMAIN table /\ k \notin C
      <4>1. table'[k] = table[k] /\ table[k].cc = e.cc
        BY <1>7, <3>3
      <4>2. r \in Recs(k) \/ r = e
        BY <1>11, <3>3
      <4> QED
        BY <2>1, <2>2, <2>4, <4>1, <4>2
    <3>4. CASE k \in C
      <4>1. r \in Recs(k) \/ r = e
        BY <1>6, <1>11, <3>4
      <4> QED
        BY <2>1, <2>2, <2>3, <2>4, <3>4, <4>1
    <3> QED
      BY <1>6, <3>1, <3>2, <3>3, <3>4
  <2> QED
    BY <1>4, <2>4 DEF Explained
<1>17. LogExplainsTable'
  <2> SUFFICES ASSUME NEW k \in DOMAIN table'
               PROVE  LET over == {i \in 1 .. Len(conflicts') : conflicts'[i].prefix = k}
                      IN \A i \in over :
                           /\ (\A j \in over : j <= i) => table'[k].cc = conflicts'[i].winner
                           /\ \A j \in over :
                                i < j /\ (\A p \in over : p <= i \/ j <= p) => conflicts'[j].a.cc = conflicts'[i].winner
    BY DEF LogExplainsTable
  <2> DEFINE old == {i \in 1 .. n : conflicts[i].prefix = k}
             over == {i \in 1 .. n + m : conflicts'[i].prefix = k}
  <2>1. \A i \in 1 .. n : i \in over <=> i \in old
    BY <1>4, <1>13
  <2>2. old \subseteq 1 .. n /\ over \subseteq 1 .. n + m
    OBVIOUS
  <2>3. \A j \in 1 .. m : n + j \in over => met[j].prefix = k /\ k \in C
    BY <1>4, <1>9, ZenonT(30)
  <2>4. k \in DOMAIN table => \A i \in old :
          /\ (\A j \in old : j <= i) => table[k].cc = conflicts[i].winner
          /\ \A j \in old : i < j /\ (\A p \in old : p <= i \/ j <= p) => conflicts[j].a.cc = conflicts[i].winner
    BY DEF LogInv, LogExplainsTable, n
  <2>5. k \notin DOMAIN table => old = {}
    BY DEF LogInv, n
  <2> HIDE DEF old, over
  <2>6. CASE k \notin C
    <3>1. over = old
      <4>1. \A i \in over : i \in 1 .. n
        BY <1>12, <2>2, <2>3, <2>6
      <4> QED
        BY <1>13, <2>1, <2>2, <4>1
    <3>2. k \in DOMAIN table => table'[k] = table[k]
      BY <1>8, <2>6
    <3>3. \A i \in old : conflicts'[i] = conflicts[i]
      BY <1>4, <2>2
    <3>4. \A i \in over :
            /\ (\A j \in over : j <= i) => table'[k].cc = conflicts'[i].winner
            /\ \A j \in over :
                 i < j /\ (\A p \in over : p <= i \/ j <= p) => conflicts'[j].a.cc = conflicts'[i].winner
      BY <2>4, <2>5, <3>1, <3>2, <3>3
    <3> QED
      BY <1>4, <3>4 DEF over
  <2>7. CASE k \in C
    <3>1. PICK t \in 1 .. m : met[t].prefix = k
      BY <1>2, <2>7 DEF m
    <3>2. k \in DOMAIN table /\ table'[k] = Winner(table[k], e)
      BY <1>6, <1>7, <2>7
    <3>3. conflicts'[n + t].a = table[k] /\ conflicts'[n + t].winner = table'[k].cc /\ conflicts'[n + t].prefix = k
      BY <1>4, <1>9, <3>1, <3>2
    <3>4. n + t \in over
      BY <1>14, <3>3 DEF over
    <3>5. \A i \in over : i \in old \/ i = n + t
      <4> SUFFICES ASSUME NEW i \in over, i \notin old PROVE i = n + t
        OBVIOUS
      <4>1. PICK j \in 1 .. m : i = n + j
        BY <1>12, <2>1, <2>2
      <4>2. met[j].prefix = k
        BY <2>3, <4>1
      <4>3. j = t
        BY <1>2, <3>1, <4>2 DEF m
      <4> QED
        BY <4>1, <4>3
    <3>6. \A i \in old : i < n + t /\ i \in over /\ i \in Nat /\ conflicts'[i] = conflicts[i]
      BY <1>4, <1>13, <1>14, <2>1, <2>2
    <3>7. n + t \in Nat
      BY <1>4
    <3>8. ASSUME NEW i \in over, \A j \in over : j <= i
          PROVE  table'[k].cc = conflicts'[i].winner
      <4>1. n + t <= i
        BY <3>4, <3>8
      <4>2. i \notin old
        BY <3>6, <3>7, <4>1
      <4>3. i = n + t
        BY <3>5, <4>2
      <4> QED
        BY <3>3, <4>3
    <3>9. ASSUME NEW i \in over, NEW j \in over, i < j, \A p \in over : p <= i \/ j <= p
          PROVE  conflicts'[j].a.cc = conflicts'[i].winner
      <4>1. i \in old
        <5> SUFFICES ASSUME i = n + t PROVE FALSE
          BY <3>5
        <5>1. CASE j = n + t
          BY <3>7, <3>9, <5>1
        <5>2. CASE j \in old
          BY <3>6, <3>7, <3>9, <5>2
        <5> QED
          BY <3>5, <5>1, <5>2
      <4>2. CASE j \in old
        <5>1. \A p \in old : p <= i \/ j <= p
          BY <3>6, <3>9
        <5> QED
          BY <2>4, <3>2, <3>6, <3>9, <4>1, <4>2, <5>1
      <4>3. CASE j = n + t
        <5>1. \A p \in old : p <= i
          BY <3>6, <3>7, <3>9, <4>3
        <5>2. table[k].cc = conflicts[i].winner
          BY <2>4, <3>2, <4>1, <5>1
        <5> QED
          BY <3>3, <3>6, <4>1, <4>3, <5>2
      <4> QED
        BY <3>5, <4>2, <4>3
    <3> QED
      BY <1>4, <3>8, <3>9 DEF over
  <2> QED
    BY <2>6, <2>7
<1>18. Counted'
  <2> DEFINE B == {f \in T : ~f.resolved}
  <2>1. \A s \in Seq(T) : HowMany(s, B) = Cardinality({i \in 1 .. Len(s) : ~s[i].resolved})
    <3> SUFFICES ASSUME NEW s \in Seq(T)
                 PROVE  {i \in 1 .. Len(s) : s[i] \in B} = {i \in 1 .. Len(s) : ~s[i].resolved}
      BY DEF HowMany
    <3>1. \A i \in 1 .. Len(s) : s[i] \in T
      BY ElementOfSeq
    <3> QED
      BY <3>1
  <2> HIDE DEF B
  <2>2. /\ HowMany(conflicts \o met, B) = HowMany(conflicts, B) + HowMany(met, B)
        /\ HowMany(conflicts, B) \in Nat
    BY <1>3, CountConcat
  <2>3. HowMany(conflicts', B) = HowMany(conflicts, B) + HowMany(met, B)
    BY <1>1, <2>2
  <2>4. /\ HowMany(conflicts', B) = Cardinality({i \in 1 .. Len(conflicts') : ~conflicts'[i].resolved})
        /\ HowMany(conflicts, B) = st.unresolved
        /\ HowMany(met, B) = Cardinality({k \in C : ~Separates(table[k], e)})
    <3>1. HowMany(conflicts', B) = Cardinality({i \in 1 .. Len(conflicts') : ~conflicts'[i].resolved})
      BY <1>4, <2>1
    <3>2. HowMany(conflicts, B) = st.unresolved
      BY <1>3, <2>1 DEF LogInv, Counted
    <3>3. HowMany(met, B) = Cardinality({i \in 1 .. Len(met) : ~met[i].resolved})
      BY <1>3, <2>1
    <3> QED
      BY <1>2, <3>1, <3>2, <3>3
  <2>5. {"conflicts", "unresolved"} \subseteq DOMAIN st /\ st.conflicts = n
    BY DEF LogInv, Counted, n
  <2>6. PICK x : x = Cardinality({k \in C : ~Separates(table[k], e)})
    OBVIOUS
  <2>7. PICK y : y = Cardinality(C)
    OBVIOUS
  <2>8. st' = [st EXCEPT !.rows = @ + 1, !.conflicts = @ + y, !.unresolved = @ + x]
    BY <1>5, <2>6, <2>7
  <2>9. /\ {"conflicts", "unresolved"} \subseteq DOMAIN st'
        /\ st'.conflicts = st.conflicts + y /\ st'.unresolved = st.unresolved + x
    BY <2>5, <2>8
  <2>10. st'.conflicts = Len(conflicts')
    BY <1>2, <1>4, <2>5, <2>7, <2>9 DEF m
  <2>11. st'.unresolved = Cardinality({i \in 1 .. Len(conflicts') : ~conflicts'[i].resolved})
    BY <2>3, <2>4, <2>6, <2>9
  <2> QED
    BY <2>9, <2>10, <2>11 DEF Counted
<1>19. IsSeq(conflicts)'
  BY <1>4 DEF IsSeq
<1> QED
  BY <1>15, <1>16, <1>17, <1>18, <1>19 DEF LogInv
-----------------------------------------------------------------------------
LEMMA LogStep ==
  ASSUME RirInv, LogInv, [Next]_vars
  PROVE  LogInv'
<1>1. ASSUME NEW l \in Lines, Collect(l)
      PROVE  LogInv'
  <2> DEFINE c == parseLine(l, file)
             ks == RangePrefixes(c.family, c.lo, c.hi)
  <2>1. seen' = seen \cup {<<l, file>>} /\ mode' = mode
    BY <1>1 DEF Collect
  <2>2. \A k : Recs(k)' = IF Adds(c) /\ k \in ks THEN Recs(k) \cup {c.rec} ELSE Recs(k)
    BY <2>1, LineAdds
  <2>3. \/ ~Adds(c) /\ Count("skipped")
        \/ ~Adds(c) /\ Count("malformed")
        \/ Adds(c) /\ Claim(c, ks)
    BY <1>1 DEF Collect, Adds
  <2> HIDE DEF c, ks
  <2>4. CASE Adds(c) /\ Claim(c, ks)
    <3>1. c.lo \in Addr /\ c.hi \in Addr
      BY <2>4, ParsedIs DEF Adds, c
    <3>2. IsFiniteSet(ks) /\ \A k \in ks : k.lo \in Addr
      <4>1. PICK lo \in Addr, hi \in Addr : lo = c.lo /\ hi = c.hi
        BY <3>1
      <4>2. ks = RangePrefixes(c.family, lo, hi)
        BY <4>1 DEF ks
      <4> QED
        BY <4>2, RangePrefixesAre
    <3>3. \A k : Recs(k)' = IF k \in ks THEN Recs(k) \cup {c.rec} ELSE Recs(k)
      BY <2>2, <2>4
    <3>4. \A k : k \in DOMAIN table <=> Recs(k) # {}
      BY DEF RirInv
    <3> QED
      BY <2>1, <2>4, <3>2, <3>3, <3>4, ClaimStep
  <2>5. CASE ~Adds(c) /\ (Count("skipped") \/ Count("malformed"))
    <3>1. \A k : Recs(k)' = Recs(k)
      BY <2>2, <2>5
    <3>2. /\ table' = table /\ conflicts' = conflicts
          /\ st' = [st EXCEPT !["skipped"] = @ + 1] \/ st' = [st EXCEPT !["malformed"] = @ + 1]
      BY <2>5 DEF Count
    <3>3. \A k, r : Explained(k, r)' <=> Explained(k, r)
      BY <3>2 DEF Explained
    <3>4. Counted'
      <4>1. DOMAIN st' = DOMAIN st /\ (Counted => st'.conflicts = st.conflicts /\ st'.unresolved = st.unresolved)
        BY <3>2 DEF Counted
      <4> QED
        BY <3>2, <4>1 DEF LogInv, Counted
    <3>5. LogExplainsTable'
      BY <3>2 DEF LogInv, LogExplainsTable
    <3> QED
      BY <3>1, <3>2, <3>3, <3>4, <3>5 DEF LogInv
  <2> QED
    BY <2>3, <2>4, <2>5
<1>2. CASE UNCHANGED <<table, seen, conflicts>> /\ (st' = st \/ st' = [st EXCEPT !.prefixes = Cardinality(DOMAIN table)])
  <2>1. \A k : Recs(k)' = Recs(k)
    BY <1>2 DEF Recs, Claimants, Claims
  <2>2. \A k, r : Explained(k, r)' <=> Explained(k, r)
    BY <1>2 DEF Explained
  <2>3. Counted'
    <3>1. DOMAIN st' = DOMAIN st /\ (Counted => st'.conflicts = st.conflicts /\ st'.unresolved = st.unresolved)
      BY <1>2 DEF Counted
    <3> QED
      BY <1>2, <3>1 DEF LogInv, Counted
  <2>4. LogExplainsTable'
    BY <1>2 DEF LogInv, LogExplainsTable
  <2> QED
    BY <1>2, <2>1, <2>2, <2>3, <2>4 DEF LogInv
<1>3. \/ \E l \in Lines : Collect(l)
      \/ UNCHANGED <<table, seen, conflicts>> /\ (st' = st \/ st' = [st EXCEPT !.prefixes = Cardinality(DOMAIN table)])
  BY DEF Next, vars, Open, EndOfFile, ReadFails, Create, Emit, Log
<1> QED
  BY <1>1, <1>2, <1>3
-----------------------------------------------------------------------------
(* Where the output stands, phase by phase. *)
OutInv ==
  /\ pc \in {"open", "collect", "emit", "log", "done", "failed"}
  /\ file \in 1 .. Files + 1 /\ read \in 0 .. MaxLines
  /\ out.old \in BOOLEAN /\ log.old \in BOOLEAN
  /\ pc \in {"open", "collect"} => out = Old
  /\ pc \in {"emit", "log", "done"} => file > Files
  /\ out # Old => file > Files
  /\ pc \in {"log", "done"} => out = Holding(Rows)
  /\ pc = "done" => log \in {Old, Holding(Logged)}

LEMMA OutInit == Init => OutInv
<1> SUFFICES ASSUME Init PROVE OutInv
  OBVIOUS
<1>1. pc = "open" /\ file = 1 /\ read = 0 /\ out = Old /\ log = Old /\ Old.old = TRUE
  BY DEF Init, Old
<1>2. 1 \in 1 .. Files + 1 /\ 0 \in 0 .. MaxLines
  BY BoundAssumption
<1> QED
  BY <1>1, <1>2 DEF OutInv

LEMMA OutStep ==
  ASSUME OutInv, [Next]_vars
  PROVE  OutInv'
<1>0. Old.old = TRUE /\ \A rows : Holding(rows).old = FALSE
  BY DEF Old, Holding
<1>1. Files \in Nat /\ MaxLines \in Nat
  BY BoundAssumption
<1>2. ASSUME NEW l \in Lines, Collect(l)
      PROVE  OutInv'
  <2>1. /\ pc = "collect" /\ pc' = pc /\ file' = file /\ out' = out /\ log' = log
        /\ read < MaxLines /\ read' = read + 1
    BY <1>2 DEF Collect, Reading
  <2>2. read' \in 0 .. MaxLines
    BY <1>1, <2>1 DEF OutInv
  <2> QED
    BY <2>1, <2>2 DEF OutInv
<1>3. CASE Open \/ EndOfFile \/ ReadFails
  <2>1. /\ pc \in {"open", "collect"} /\ pc' \in {"collect", "failed"}
        /\ read' = read /\ out' = out /\ log' = log
        /\ file' = file \/ (file <= Files /\ file' = file + 1)
    BY <1>3 DEF Open, EndOfFile, ReadFails, Reading, Fail
  <2>2. file' \in 1 .. Files + 1
    BY <1>1, <2>1 DEF OutInv
  <2> QED
    BY <2>1, <2>2 DEF OutInv
<1>4. CASE Create
  <2>1. /\ pc = "collect" /\ file > Files /\ file' = file /\ read' = read /\ log' = log
        /\ \/ pc' = "failed" /\ out' = out
           \/ pc' = "emit" /\ out' = Holding({})
    BY <1>4 DEF Create, Fail
  <2> QED
    BY <1>0, <2>1 DEF OutInv
<1>5. CASE Emit
  <2>1. /\ pc = "emit" /\ file' = file /\ read' = read /\ log' = log /\ table' = table
        /\ \/ pc' = "log" /\ out' = Holding(Rows)
           \/ pc' = "failed" /\ \E rows : out' = Holding(rows)
    <3>1. \/ pc' = "log" /\ out' = Holding(Rows)
          \/ pc' = "failed" /\ \E rows : out' = Holding(rows)
      <4>1. CASE pc' = "log" /\ out' = Holding(Rows)
        BY <4>1
      <4>2. CASE Fail /\ out' \in {Holding({j \in Rows : Before(j, k)}) : k \in Rows}
        BY <4>2 DEF Fail
      <4> QED
        BY <1>5, <4>1, <4>2 DEF Emit
    <3> QED
      BY <1>5, <3>1 DEF Emit
  <2>2. Rows' = Rows /\ file > Files
    BY <2>1 DEF Rows, OutInv
  <2>3. out'.old \in BOOLEAN
    BY <1>0, <2>1
  <2> QED
    BY <1>0, <2>1, <2>2, <2>3 DEF OutInv
<1>6. CASE Log
  <2>1. /\ pc = "log" /\ file' = file /\ read' = read /\ out' = out /\ table' = table /\ conflicts' = conflicts
        /\ \/ pc' = "done" /\ log' \in {Old, Holding(Logged)}
           \/ pc' = "failed" /\ log' \in {Old, Holding({})}
    BY <1>6 DEF Log, Fail
  <2>2. Rows' = Rows /\ Logged' = Logged
    BY <2>1 DEF Rows, Logged
  <2>3. log'.old \in BOOLEAN
    BY <1>0, <2>1
  <2> QED
    BY <2>1, <2>2, <2>3 DEF OutInv
<1>7. CASE UNCHANGED vars
  <2>1. Rows' = Rows /\ Logged' = Logged
    BY <1>7 DEF vars, Rows, Logged
  <2> QED
    BY <1>7, <2>1 DEF vars, OutInv
<1> QED
  BY <1>2, <1>3, <1>4, <1>5, <1>6, <1>7 DEF Next

LEMMA OutMeaning ==
  ASSUME RirInv, OutInv
  PROVE  OutputWhole
<1>1. \A k \in DOMAIN table : table[k] \in {c.rec : c \in Claimants(k)}
  BY DEF RirInv, Recs
<1> QED
  BY <1>1 DEF OutInv, OutputWhole, TypeOK
-----------------------------------------------------------------------------
LEMMA RirInvariant == Spec => [](RirInv /\ LogInv /\ OutInv)
<1>1. Init => RirInv /\ LogInv /\ OutInv
  BY InvInit, LogInit, OutInit
<1>2. (RirInv /\ LogInv /\ OutInv) /\ [Next]_vars => (RirInv /\ LogInv /\ OutInv)'
  BY InvStep, LogStep, OutStep
<1> QED
  BY <1>1, <1>2, PTL DEF Spec

(* For every width and any lines in any order: where no country claims a prefix
   twice, the table holds the claim that the rule and then the smaller code
   prefer ("reproducible regardless of input order", main.go:33-35). *)
THEOREM TableReproducible == Spec => []OrderFreeOncePerCountry
<1>1. RirInv => OrderFreeOncePerCountry
  BY DEF RirInv
<1> QED
  BY <1>1, RirInvariant, PTL

(* An address has an answer exactly when a line published it, and the answer is
   the country of such a line: neither the wrapping sum of addV4, the mask of an
   IPv6 line nor the split into prefixes adds or loses an address. *)
THEOREM AnswersCorrect == Spec => []AnswersPublished
<1>1. RirInv => AnswersPublished
  BY AnswersFromLines
<1> QED
  BY <1>1, RirInvariant, PTL

(* Every record that lost a prefix lost a conflict that the log has, and the
   counters of the summary are those of the log (main.go:35). *)
THEOREM NoSilentLoss == Spec => []NothingSilent
<1>1. LogInv => NothingSilent
  BY LogMeaning
<1> QED
  BY <1>1, RirInvariant, PTL

(* The conflicts over each prefix, read in their order, lead to its answer. *)
THEOREM LogTraces == Spec => []LogExplainsTable
<1>1. LogInv => LogExplainsTable
  BY LogMeaning
<1> QED
  BY <1>1, RirInvariant, PTL

(* The spec file is truncated only once every source has been read to its end,
   and a run that finishes wrote the whole table. *)
THEOREM OutputCorrect == Spec => []OutputWhole
<1>1. RirInv /\ OutInv => OutputWhole
  BY OutMeaning
<1> QED
  BY <1>1, RirInvariant, PTL
=============================================================================
