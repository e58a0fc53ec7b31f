--------------------------- MODULE LineTools_proofs ---------------------------
(***************************************************************************)
(* Proofs about the tools that read lines and write lines. ipunfold,       *)
(* ipfold and the pipeline of the two, for addresses of any width, any     *)
(* prefixes and any input: what ipunfold has written is the expansion of   *)
(* the prefixes let through, but for the rest of the one it is at; what    *)
(* ipfold has written is the least cover of the addresses below the run it *)
(* is growing, and the run begins after a gap. And the converters of range *)
(* feeds, for any feeds, any rows and whatever the buffer passes on when:  *)
(* what is in the file and in the buffer together is what the rows read so *)
(* far are worth, and that is a beginning of what the feeds are worth.     *)
(***************************************************************************)
EXTENDS IpPipe, RangeFeeds, DataLemmas

Numbers == 0 .. 2^W - 1
Values(s) == SeqExt!ToSet(s)

(* The addresses of the prefixes of a sequence. *)
Asked(ps) == UNION {ps[i].lo .. ps[i].hi : i \in 1 .. Len(ps)}

(* The first n addresses of a prefix, as ipunfold writes them. *)
Addresses(p, n) == [j \in 1 .. n |-> p.lo + j - 1]

UnfoldTypes ==
  /\ upc \in {"read", "expand", "done", "max", "failed"}
  /\ count \in BOOLEAN /\ max \in Limits /\ total \in Nat
  /\ x \in Numbers /\ hi \in Numbers
  /\ written \in Seq(Numbers) /\ taken \in Seq(Blocks(W))

(* The limit is kept by the sum of the sizes, which counts what is written and
   what is still to be written of the last prefix. *)
SumKept ==
  ~count => /\ total = Len(Unfold!Expansion(taken))
            /\ Len(written) <= total
            /\ max > 0 => total <= max

(* In the middle of the last prefix, x is the next address of it. *)
Expanding ==
  \E front \in Seq(Blocks(W)), p \in Blocks(W) :
    /\ taken = Append(front, p) /\ hi = p.hi /\ p.lo <= x /\ x <= hi
    /\ written = Unfold!Expansion(front) \o Addresses(p, x - p.lo)
    /\ Values(written) = Asked(front) \cup (p.lo .. x - 1)

UnfoldStage ==
  /\ count => written = <<>> /\ upc \notin {"expand", "max"}
  /\ Values(written) \subseteq Asked(taken)
  /\ ~count /\ upc \in {"read", "max", "done"} =>
       written = Unfold!Expansion(taken) /\ Values(written) = Asked(taken)
  /\ ~count /\ upc = "expand" => Expanding

UnfoldInv == UnfoldTypes /\ SumKept /\ UnfoldStage
-----------------------------------------------------------------------------
Item == [ip : Numbers, zone : Zones]

FoldTypes ==
  /\ v4 \in BOOLEAN /\ fpc \in {"read", "slice", "bitmap", "done", "failed"}
  /\ given \in Seq(Item) /\ slice \in Seq(Item)
  /\ bitmap \in [made : BOOLEAN, bits : SUBSET Numbers]
  /\ at \in Nat
  /\ run \in [on : BOOLEAN, lo : Numbers, hi : Numbers, zone : Zones]
  /\ emitted \in Seq(Blocks(W))

Ascending(s) == \A i, j \in 1 .. Len(s) : i < j => s[i].hi < s[j].lo

(* The prefixes of s are the least cover of S, in order, and S ends with a gap
   before e: nothing that follows from e on changes its cover. *)
Folded(s, S, e) ==
  Values(s) = LargestIn(S, W) /\ Ascending(s) /\ \A a \in S : a + 1 < e

(* The addresses of the prefixes written. *)
Covered(s) == UNION {p.lo .. p.hi : p \in Values(s)}

Collecting ==
  /\ at = 0 /\ run = Fold!NoRun /\ emitted = <<>>
  /\ ~bitmap.made => slice = given
  /\ bitmap.made => v4 /\ bitmap.bits = Fold!Given
  /\ v4 => Fold!ZoneFree

(* The addresses of the slice that the fold has passed. *)
Passed == {slice[k].ip : k \in 1 .. at}

InSlice ==
  /\ Values(slice) = Values(given)
  /\ \A i, j \in 1 .. Len(slice) : i < j => slice[i].ip <= slice[j].ip
  /\ at <= Len(slice)
  /\ run.on <=> at # 0
  /\ ~run.on => emitted = <<>>
  /\ run.on => /\ run.lo <= run.hi /\ run.hi = slice[at].ip /\ run.zone = slice[at].zone
               /\ Covered(emitted) \cup (run.lo .. run.hi) = Passed
               /\ Fold!ZoneFree => Folded(emitted, {a \in Passed : a < run.lo}, run.lo)

InBitmap ==
  /\ Fold!ZoneFree /\ bitmap.bits = Fold!Given
  /\ at <= 2^W
  /\ run.on => /\ run.lo < at /\ run.lo .. at - 1 \subseteq bitmap.bits
               /\ Folded(emitted, {a \in bitmap.bits : a < run.lo}, run.lo)
  /\ ~run.on => /\ Folded(emitted, {a \in bitmap.bits : a < at}, at)

FoldInv ==
  /\ FoldTypes
  /\ fpc = "read" => Collecting
  /\ fpc = "slice" => InSlice
  /\ fpc = "bitmap" => InBitmap
  /\ Fold!FoldsMinimal
-----------------------------------------------------------------------------
(* ipfold has read a beginning of what ipunfold wrote, once that has ended, and
   all of it before it folds, unless a write of ipunfold failed. *)
PipeInv ==
  piped => /\ Len(given) <= Len(written)
           /\ \A k \in 1 .. Len(given) : given[k] = [ip |-> written[k], zone |-> 0]
           /\ upc \in {"read", "expand"} => fpc = "read" /\ given = <<>>
           /\ fpc \notin {"read", "failed"} /\ upc # "failed" => Len(given) = Len(written)

IpInv == UnfoldInv /\ FoldInv /\ PipeInv
-----------------------------------------------------------------------------
(* The width as the lemmas on blocks want it. *)
LEMMA WidthIs == Powers(W) /\ W \in Nat /\ 2^W \in Nat \ {0} /\ Numbers \subseteq Nat
<1>1. Powers(W)
  BY WordAssumption, PowerAssumption DEF Powers
<1>2. W \in 0 .. W
  BY WordAssumption
<1> QED
  BY <1>1, <1>2, WordAssumption, PowerAssumption DEF Numbers

(* The prefixes of both tools are the blocks of the family, their minimal
   covers the largest blocks, and the sets of a sequence the same. *)
LEMMA SameNames ==
  /\ Unfold!AllPrefixes = Blocks(W) /\ Fold!AllPrefixes = Blocks(W)
  /\ \A s : Fold!MinimalCover(s) = LargestIn(s, W)
  /\ Fold!Addr = Numbers /\ Fold!TopAddr = 2^W - 1
  /\ \A s : Fold!SeqExt!ToSet(s) = Values(s)
<1>1. Unfold!AllPrefixes = Blocks(W)
  BY DEF Unfold!AllPrefixes, Unfold!Addr, Unfold!TopAddr, Unfold!Prefix, Unfold!Masked, Unfold!lastAddr,
         Unfold!lowMask, Blocks, Block
<1>2. Fold!AllPrefixes = Blocks(W)
  BY DEF Fold!AllPrefixes, Fold!Addr, Fold!TopAddr, Fold!Prefix, Fold!Masked, Fold!lastAddr,
         Fold!lowMask, Blocks, Block
<1>3. ASSUME NEW s
      PROVE  Fold!MinimalCover(s) = LargestIn(s, W)
  BY <1>2 DEF Fold!MinimalCover, LargestIn
<1>4. Fold!Addr = Numbers /\ Fold!TopAddr = 2^W - 1
  BY DEF Fold!Addr, Fold!TopAddr, Numbers
<1>5. ASSUME NEW s
      PROVE  Fold!SeqExt!ToSet(s) = Values(s)
  BY DEF Fold!SeqExt!ToSet, Values, SeqExt!ToSet
<1> QED
  BY <1>1, <1>2, <1>3, <1>4, <1>5

(* The set of a sequence grows with it. *)
LEMMA ValuesGrow ==
  ASSUME NEW T, NEW s \in Seq(T)
  PROVE  /\ Values(s) \in SUBSET T /\ (s = <<>> => Values(s) = {})
         /\ \A k \in 1 .. Len(s) : s[k] \in Values(s)
         /\ \A a \in Values(s) : \E k \in 1 .. Len(s) : s[k] = a
         /\ \A a \in T : Values(Append(s, a)) = Values(s) \cup {a}
         /\ \A t \in Seq(T) : Values(s \o t) = Values(s) \cup Values(t)
<1>1. /\ Values(s) = {s[k] : k \in 1 .. Len(s)} /\ Len(s) \in Nat
      /\ \A k \in 1 .. Len(s) : s[k] \in T
  BY DEF Values, SeqExt!ToSet
<1>2. ASSUME NEW a \in T
      PROVE  Values(Append(s, a)) = Values(s) \cup {a}
  <2>1. Values(Append(s, a)) = {Append(s, a)[k] : k \in 1 .. Len(s) + 1}
    BY DEF Values, SeqExt!ToSet
  <2>2. /\ \A k \in 1 .. Len(s) : Append(s, a)[k] = s[k] /\ k \in 1 .. Len(s) + 1
        /\ Append(s, a)[Len(s) + 1] = a /\ Len(s) + 1 \in 1 .. Len(s) + 1
        /\ \A k \in 1 .. Len(s) + 1 : k \in 1 .. Len(s) \/ k = Len(s) + 1
    BY <1>1
  <2>3. Values(Append(s, a)) \subseteq Values(s) \cup {a}
    BY <1>1, <2>1, <2>2
  <2>4. Values(s) \cup {a} \subseteq Values(Append(s, a))
    BY <1>1, <2>1, <2>2
  <2> QED
    BY <2>3, <2>4
<1>3. ASSUME NEW t \in Seq(T)
      PROVE  Values(s \o t) = Values(s) \cup Values(t)
  <2>1. /\ Values(s \o t) = {(s \o t)[k] : k \in 1 .. Len(s) + Len(t)}
        /\ Values(t) = {t[k] : k \in 1 .. Len(t)} /\ Len(t) \in Nat
    <3>1. s \o t \in Seq(T) /\ Len(s \o t) = Len(s) + Len(t)
      BY Concat
    <3>2. DOMAIN (s \o t) = 1 .. Len(s) + Len(t)
      BY <3>1
    <3>3. DOMAIN t = 1 .. Len(t) /\ Len(t) \in Nat
      OBVIOUS
    <3> QED
      BY <3>2, <3>3, Zenon DEF Values, SeqExt!ToSet
  <2>2. /\ \A k \in 1 .. Len(s) : (s \o t)[k] = s[k]
        /\ \A k \in 1 .. Len(t) : (s \o t)[Len(s) + k] = t[k]
    BY Concat
  <2>3. /\ \A k \in 1 .. Len(s) : k \in 1 .. Len(s) + Len(t)
        /\ \A k \in 1 .. Len(t) : Len(s) + k \in 1 .. Len(s) + Len(t)
        /\ \A k \in 1 .. Len(s) + Len(t) : k \in 1 .. Len(s) \/ (k - Len(s) \in 1 .. Len(t) /\ k = Len(s) + (k - Len(s)))
    BY <1>1, <2>1
  <2>4. Values(s \o t) \subseteq Values(s) \cup Values(t)
    BY <1>1, <2>1, <2>2, <2>3
  <2>5. Values(s) \cup Values(t) \subseteq Values(s \o t)
    BY <1>1, <2>1, <2>2, <2>3
  <2> QED
    BY <2>4, <2>5
<1>4. s = <<>> => Values(s) = {}
  BY <1>1
<1> QED
  BY <1>1, <1>2, <1>3, <1>4
-----------------------------------------------------------------------------
(* The addresses of a prefix, one after the other. *)
LEMMA AddressesGrow ==
  ASSUME NEW p \in Blocks(W), NEW n \in Nat, p.lo + n <= p.hi + 1
  PROVE  /\ Addresses(p, n) \in Seq(Numbers) /\ Len(Addresses(p, n)) = n
         /\ n = 0 => Addresses(p, n) = <<>>
         /\ p.lo + n <= p.hi => Addresses(p, n + 1) = Append(Addresses(p, n), p.lo + n)
<1>1. p.lo \in Nat /\ p.hi \in Nat /\ p.hi \in Numbers /\ 2^W \in Nat
  BY WidthIs, BlockOf DEF Numbers
<1>2. \A j \in 1 .. n : p.lo + j - 1 \in Numbers
  BY <1>1 DEF Numbers
<1>3. Addresses(p, n) \in [1 .. n -> Numbers]
  BY <1>2 DEF Addresses
<1>4. Addresses(p, n) \in Seq(Numbers) /\ Len(Addresses(p, n)) = n
  BY <1>3, MakeSeq
<1>5. n = 0 => Addresses(p, n) = <<>>
  BY <1>4
<1>6. ASSUME p.lo + n <= p.hi
      PROVE  Addresses(p, n + 1) = Append(Addresses(p, n), p.lo + n)
  <2>1. p.lo + n \in Numbers /\ n + 1 \in Nat
    BY <1>1, <1>6 DEF Numbers
  <2>2. \A j \in 1 .. n + 1 : p.lo + j - 1 \in Numbers
    BY <1>1, <1>6 DEF Numbers
  <2>3. Addresses(p, n + 1) \in [1 .. n + 1 -> Numbers]
    BY <2>2 DEF Addresses
  <2>4. Addresses(p, n + 1) \in Seq(Numbers) /\ Len(Addresses(p, n + 1)) = n + 1
    BY <2>1, <2>3, MakeSeq
  <2>5. /\ Append(Addresses(p, n), p.lo + n) \in Seq(Numbers)
        /\ Len(Append(Addresses(p, n), p.lo + n)) = n + 1
        /\ \A j \in 1 .. n : Append(Addresses(p, n), p.lo + n)[j] = Addresses(p, n)[j]
        /\ Append(Addresses(p, n), p.lo + n)[n + 1] = p.lo + n
    BY <1>4, <2>1
  <2>6. ASSUME NEW j \in 1 .. n + 1
        PROVE  Addresses(p, n + 1)[j] = Append(Addresses(p, n), p.lo + n)[j]
    <3>1. Addresses(p, n + 1)[j] = p.lo + j - 1 /\ (j \in 1 .. n => Addresses(p, n)[j] = p.lo + j - 1)
      BY DEF Addresses
    <3>2. j \in 1 .. n \/ (j = n + 1 /\ p.lo + j - 1 = p.lo + n)
      BY <1>1
    <3> QED
      BY <2>5, <3>1, <3>2
  <2> QED
    BY <2>4, <2>5, <2>6, SeqEqual
<1> QED
  BY <1>4, <1>5, <1>6

(* The expansion goes prefix by prefix. *)
LEMMA ExpansionGrows ==
  ASSUME NEW ps \in Seq(Blocks(W))
  PROVE  /\ Unfold!Expansion(ps) \in Seq(Numbers)
         /\ ps = <<>> => Unfold!Expansion(ps) = <<>>
         /\ \A p \in Blocks(W) :
              /\ Append(ps, p) \in Seq(Blocks(W))
              /\ Unfold!Expansion(Append(ps, p)) = Unfold!Expansion(ps) \o Addresses(p, Unfold!prefixSize(p))
<1> DEFINE Pieces(qs) == [i \in 1 .. Len(qs) |-> Addresses(qs[i], Unfold!prefixSize(qs[i]))]
<1>1. ASSUME NEW qs
      PROVE  Unfold!Expansion(qs) = SeqExt!FlattenSeq(Pieces(qs))
  BY DEF Unfold!Expansion, Addresses, Unfold!SeqExt!FlattenSeq, SeqExt!FlattenSeq
<1>2. ASSUME NEW p \in Blocks(W)
      PROVE  Addresses(p, Unfold!prefixSize(p)) \in Seq(Numbers)
  <2>1. p.hi - p.lo + 1 = 2^(W - p.length) /\ p.lo \in Nat /\ p.hi \in Nat /\ p.lo <= p.hi
    BY WidthIs, BlockOf
  <2>2. PICK n \in Nat : n = 2^(W - p.length) /\ p.lo + n <= p.hi + 1
    BY <2>1
  <2> QED
    BY <2>2, AddressesGrow DEF Unfold!prefixSize
<1>3. Len(ps) \in Nat /\ \A i \in 1 .. Len(ps) : ps[i] \in Blocks(W)
  OBVIOUS
<1>4. Pieces(ps) \in Seq(Seq(Numbers)) /\ Len(Pieces(ps)) = Len(ps)
  <2>1. Pieces(ps) \in [1 .. Len(ps) -> Seq(Numbers)]
    BY <1>2, <1>3
  <2> HIDE DEF Pieces
  <2> QED
    BY <1>3, <2>1, MakeSeq
<1>5. ASSUME NEW p \in Blocks(W)
      PROVE  /\ Append(ps, p) \in Seq(Blocks(W))
             /\ Pieces(Append(ps, p)) = Append(Pieces(ps), Addresses(p, Unfold!prefixSize(p)))
  <2> DEFINE qs == Append(ps, p)
             a == Addresses(p, Unfold!prefixSize(p))
  <2>1. /\ qs \in Seq(Blocks(W)) /\ Len(qs) = Len(ps) + 1 /\ Len(qs) \in Nat
        /\ \A i \in 1 .. Len(ps) : qs[i] = ps[i]
        /\ qs[Len(ps) + 1] = p
    OBVIOUS
  <2> HIDE DEF qs
  <2>2. Pieces(qs) \in Seq(Seq(Numbers)) /\ Len(Pieces(qs)) = Len(ps) + 1
    <3>1. \A i \in 1 .. Len(qs) : qs[i] \in Blocks(W)
      BY <2>1
    <3>2. Pieces(qs) \in [1 .. Len(qs) -> Seq(Numbers)]
      BY <1>2, <3>1
    <3> HIDE DEF Pieces
    <3> QED
      BY <2>1, <3>2, MakeSeq
  <2>3. a \in Seq(Numbers)
    BY <1>2
  <2>4. ASSUME NEW i \in 1 .. Len(ps) + 1
        PROVE  Pieces(qs)[i] = IF i = Len(ps) + 1 THEN a ELSE Pieces(ps)[i]
    <3>1. i \in 1 .. Len(qs) /\ (i # Len(ps) + 1 => i \in 1 .. Len(ps))
      BY <1>3, <2>1
    <3> QED
      BY <2>1, <3>1
  <2> HIDE DEF Pieces, a
  <2>5. /\ Append(Pieces(ps), a) \in Seq(Seq(Numbers)) /\ Len(Append(Pieces(ps), a)) = Len(ps) + 1
        /\ \A i \in 1 .. Len(ps) : Append(Pieces(ps), a)[i] = Pieces(ps)[i]
        /\ Append(Pieces(ps), a)[Len(ps) + 1] = a
    BY <1>4, <2>3
  <2>6. \A i \in 1 .. Len(ps) + 1 : Pieces(qs)[i] = Append(Pieces(ps), a)[i]
    BY <1>3, <2>4, <2>5
  <2>7. Pieces(qs) = Append(Pieces(ps), a)
    BY <2>2, <2>5, <2>6, SeqEqual
  <2> QED
    BY <2>1, <2>7 DEF qs, a
<1> HIDE DEF Pieces
<1>6. SeqExt!FlattenSeq(Pieces(ps)) \in Seq(Numbers)
  BY <1>4, FlattenType
<1>7. \A p \in Blocks(W) : SeqExt!FlattenSeq(Append(Pieces(ps), Addresses(p, Unfold!prefixSize(p))))
                           = SeqExt!FlattenSeq(Pieces(ps)) \o Addresses(p, Unfold!prefixSize(p))
  BY <1>2, <1>4, FlattenAppend
<1>8. ps = <<>> => SeqExt!FlattenSeq(Pieces(ps)) = <<>>
  <2>1. ps = <<>> => Len(Pieces(ps)) = 0 /\ Pieces(ps) = <<>>
    BY <1>4
  <2> QED
    BY <2>1 DEF SeqExt!FlattenSeq
<1> QED
  BY <1>1, <1>5, <1>6, <1>7, <1>8

(* So do the addresses asked for. *)
LEMMA AskedGrows ==
  ASSUME NEW ps \in Seq(Blocks(W)), NEW p \in Blocks(W)
  PROVE  Asked(Append(ps, p)) = Asked(ps) \cup (p.lo .. p.hi) /\ (ps = <<>> => Asked(ps) = {})
<1>1. /\ Len(ps) \in Nat /\ Len(Append(ps, p)) = Len(ps) + 1 /\ Append(ps, p)[Len(ps) + 1] = p
      /\ \A i \in 1 .. Len(ps) : Append(ps, p)[i] = ps[i] /\ i \in 1 .. Len(ps) + 1
      /\ Len(ps) + 1 \in 1 .. Len(ps) + 1
      /\ \A i \in 1 .. Len(ps) + 1 : i \in 1 .. Len(ps) \/ i = Len(ps) + 1
  OBVIOUS
<1> DEFINE q == Append(ps, p)
<1> HIDE DEF q
<1>2. \A a : a \in Asked(q) <=> a \in Asked(ps) \/ a \in p.lo .. p.hi
  BY <1>1 DEF Asked, q
<1> QED
  BY <1>2 DEF q, Asked
-----------------------------------------------------------------------------
LEMMA UnfoldInit ==
  ASSUME Unfold!Init
  PROVE  UnfoldInv
<1>1. <<>> \in Seq(Blocks(W)) /\ <<>> \in Seq(Numbers) /\ 0 \in Numbers
  BY WidthIs DEF Numbers
<1>2. /\ upc = "read" /\ count \in BOOLEAN /\ max \in Limits /\ total = 0 /\ x = 0 /\ hi = 0
      /\ written = <<>> /\ taken = <<>>
  BY DEF Unfold!Init
<1>3. Unfold!Expansion(taken) = <<>> /\ Len(written) = 0 /\ max \in Nat
  BY <1>1, <1>2, ExpansionGrows, InputAssumption
<1>4. Values(written) = {} /\ Asked(taken) = {}
  <2>1. Asked(<<>>) = {}
    BY DEF Asked
  <2>2. Values(<<>>) = {}
    BY <1>1, ValuesGrow
  <2> QED
    BY <1>2, <2>1, <2>2
<1>5. UnfoldTypes
  BY <1>1, <1>2 DEF UnfoldTypes
<1>6. SumKept
  BY <1>2, <1>3 DEF SumKept
<1>7. UnfoldStage
  BY <1>2, <1>3, <1>4 DEF UnfoldStage
<1> QED
  BY <1>5, <1>6, <1>7 DEF UnfoldInv

(* What a size is. *)
LEMMA SizeIs ==
  ASSUME NEW p \in Blocks(W)
  PROVE  /\ Unfold!prefixSize(p) \in Nat /\ Unfold!prefixSize(p) = p.hi - p.lo + 1
         /\ Unfold!last(p) = p.hi /\ p.lo \in Numbers /\ p.hi \in Numbers /\ p.lo <= p.hi
         /\ p.lo \in Nat /\ p.hi \in Nat
         /\ Addresses(p, Unfold!prefixSize(p)) \in Seq(Numbers)
         /\ Len(Addresses(p, Unfold!prefixSize(p))) = Unfold!prefixSize(p)
<1>1. /\ p.hi - p.lo + 1 = 2^(W - p.length) /\ p.lo \in Nat /\ p.hi \in Nat /\ p.lo <= p.hi
      /\ p.lo \in Numbers /\ p.hi \in Numbers
  BY WidthIs, BlockOf DEF Numbers
<1>2. PICK n \in Nat : n = 2^(W - p.length) /\ p.lo + n = p.hi + 1
  BY <1>1
<1>3. Addresses(p, n) \in Seq(Numbers) /\ Len(Addresses(p, n)) = n
  BY <1>1, <1>2, AddressesGrow
<1>4. Unfold!prefixSize(p) = n /\ Unfold!last(p) = p.lo + (n - 1)
  BY <1>2 DEF Unfold!prefixSize, Unfold!last, Unfold!lowMask
<1> QED
  BY <1>1, <1>2, <1>3, <1>4, SMTT(30)

LEMMA LineStep ==
  ASSUME UnfoldInv, NEW p \in Blocks(W), Unfold!Line(p)
  PROVE  UnfoldInv'
<1>0. /\ UnfoldTypes /\ SumKept /\ UnfoldStage /\ max \in Nat /\ count \in BOOLEAN
      /\ total \in Nat /\ taken \in Seq(Blocks(W)) /\ written \in Seq(Numbers)
  BY InputAssumption DEF UnfoldInv, UnfoldTypes
<1>1. /\ upc = "read" /\ count' = count /\ max' = max /\ written' = written
      /\ \/ Unfold!Exceeds(p) /\ upc' = "max" /\ UNCHANGED <<total, x, hi, taken>>
         \/ /\ ~Unfold!Exceeds(p) /\ total' = total + Unfold!prefixSize(p) /\ taken' = Append(taken, p)
            /\ \/ count /\ UNCHANGED <<upc, x, hi>>
               \/ ~count /\ upc' = "expand" /\ x' = p.lo /\ hi' = Unfold!last(p)
  BY DEF Unfold!Line
<1>2. CASE Unfold!Exceeds(p) /\ upc' = "max" /\ UNCHANGED <<total, x, hi, taken>>
  <2>1. ~count
    BY <1>2 DEF Unfold!Exceeds
  <2>2. UnfoldTypes' /\ SumKept'
    BY <1>0, <1>1, <1>2 DEF UnfoldTypes, SumKept
  <2>3. UnfoldStage'
    BY <1>0, <1>1, <1>2, <2>1 DEF UnfoldStage
  <2> QED
    BY <2>2, <2>3 DEF UnfoldInv
<1>3. CASE ~Unfold!Exceeds(p) /\ total' = total + Unfold!prefixSize(p) /\ taken' = Append(taken, p)
  <2>1. /\ taken' \in Seq(Blocks(W)) /\ total' \in Nat
        /\ Unfold!Expansion(taken') = Unfold!Expansion(taken) \o Addresses(p, Unfold!prefixSize(p))
        /\ Unfold!Expansion(taken) \in Seq(Numbers)
        /\ Asked(taken') = Asked(taken) \cup (p.lo .. p.hi)
    <3>1. /\ Append(taken, p) \in Seq(Blocks(W)) /\ Unfold!Expansion(taken) \in Seq(Numbers)
          /\ Unfold!Expansion(Append(taken, p))
             = Unfold!Expansion(taken) \o Addresses(p, Unfold!prefixSize(p))
      BY <1>0, ExpansionGrows
    <3>2. Asked(Append(taken, p)) = Asked(taken) \cup (p.lo .. p.hi)
      BY <1>0, AskedGrows
    <3>3. total + Unfold!prefixSize(p) \in Nat
      BY <1>0, SizeIs
    <3> QED
      BY <1>3, <3>1, <3>2, <3>3
  <2>2. CASE count /\ UNCHANGED <<upc, x, hi>>
    <3>1. UnfoldTypes'
      BY <1>0, <1>1, <2>1, <2>2 DEF UnfoldTypes
    <3>2. SumKept'
      BY <1>1, <2>2 DEF SumKept
    <3>3. UnfoldStage'
      <4>1. Values(written) \subseteq Asked(taken')
        BY <1>0, <2>1 DEF UnfoldStage
      <4> QED
        BY <1>0, <1>1, <2>2, <4>1 DEF UnfoldStage
    <3> QED
      BY <3>1, <3>2, <3>3 DEF UnfoldInv
  <2>3. CASE ~count /\ upc' = "expand" /\ x' = p.lo /\ hi' = Unfold!last(p)
    <3>1. UnfoldTypes'
      BY <1>0, <1>1, <2>1, <2>3, SizeIs DEF UnfoldTypes
    <3>2. SumKept'
      <4>1. Len(Unfold!Expansion(taken')) = Len(Unfold!Expansion(taken)) + Unfold!prefixSize(p)
        <5>1. PICK e \in Seq(Numbers) : e = Unfold!Expansion(taken)
          BY <2>1
        <5>2. PICK a \in Seq(Numbers) : a = Addresses(p, Unfold!prefixSize(p)) /\ Len(a) = Unfold!prefixSize(p)
          BY SizeIs
        <5> QED
          BY <2>1, <5>1, <5>2, Concat
      <4>2. total = Len(Unfold!Expansion(taken)) /\ Len(written) <= total
        BY <1>0, <2>3 DEF SumKept
      <4>3. max > 0 => total + Unfold!prefixSize(p) <= max
        BY <1>0, <1>3, <2>3, SizeIs DEF Unfold!Exceeds
      <4>4. Len(written) \in Nat
        BY <1>0
      <4> QED
        BY <1>0, <1>1, <1>3, <4>1, <4>2, <4>3, <4>4, SizeIs DEF SumKept
    <3>3. written = Unfold!Expansion(taken) /\ Values(written) = Asked(taken)
      BY <1>0, <1>1, <2>3 DEF UnfoldStage
    <3>4. Expanding'
      <4>1. Addresses(p, 0) = <<>> /\ p.lo - p.lo = 0 /\ p.lo .. p.lo - 1 = {}
        BY SizeIs, AddressesGrow
      <4>2. written = Unfold!Expansion(taken) \o Addresses(p, p.lo - p.lo)
        BY <1>0, <3>3, <4>1
      <4>3. Values(written) = Asked(taken) \cup (p.lo .. p.lo - 1)
        BY <3>3, <4>1
      <4>4. /\ taken' = Append(taken, p) /\ hi' = p.hi /\ p.lo <= x' /\ x' <= hi'
            /\ written' = Unfold!Expansion(taken) \o Addresses(p, x' - p.lo)
            /\ Values(written') = Asked(taken) \cup (p.lo .. x' - 1)
        BY <1>1, <1>3, <2>3, <4>2, <4>3, SizeIs
      <4>5. \E front \in Seq(Blocks(W)), q \in Blocks(W) :
              /\ taken' = Append(front, q) /\ hi' = q.hi /\ q.lo <= x' /\ x' <= hi'
              /\ written' = Unfold!Expansion(front) \o Addresses(q, x' - q.lo)
              /\ Values(written') = Asked(front) \cup (q.lo .. x' - 1)
        BY <1>0, <4>4, Zenon
      <4> QED
        BY <4>5, Zenon DEF Expanding
    <3>5. Values(written) \subseteq Asked(taken')
      BY <2>1, <3>3
    <3>6. UnfoldStage'
      BY <1>1, <2>3, <3>4, <3>5 DEF UnfoldStage
    <3> QED
      BY <3>1, <3>2, <3>6 DEF UnfoldInv
  <2> QED
    BY <1>1, <1>3, <2>2, <2>3
<1> QED
  BY <1>1, <1>2, <1>3

LEMMA WriteStep ==
  ASSUME UnfoldInv, Unfold!Write
  PROVE  UnfoldInv'
<1>0. /\ UnfoldTypes /\ SumKept /\ UnfoldStage /\ max \in Nat /\ count \in BOOLEAN
      /\ total \in Nat /\ taken \in Seq(Blocks(W)) /\ written \in Seq(Numbers)
      /\ x \in Numbers /\ hi \in Numbers /\ x \in Nat /\ hi \in Nat
  BY InputAssumption, WidthIs DEF UnfoldInv, UnfoldTypes
<1>1. /\ upc = "expand" /\ written' = Append(written, x)
      /\ \/ x = hi /\ upc' = "read" /\ x' = x
         \/ x # hi /\ upc' = "expand" /\ x' = (x + 1) % 2^W
      /\ UNCHANGED <<count, max, total, hi, taken>>
  BY DEF Unfold!Write
<1>2. ~count /\ Expanding
  BY <1>0, <1>1 DEF UnfoldStage
<1>3. PICK front \in Seq(Blocks(W)), p \in Blocks(W) :
        /\ taken = Append(front, p) /\ hi = p.hi /\ p.lo <= x /\ x <= hi
        /\ written = Unfold!Expansion(front) \o Addresses(p, x - p.lo)
        /\ Values(written) = Asked(front) \cup (p.lo .. x - 1)
  BY <1>2, Zenon DEF Expanding
<1>4. /\ Unfold!prefixSize(p) \in Nat /\ Unfold!prefixSize(p) = p.hi - p.lo + 1
      /\ p.lo \in Nat /\ p.hi \in Nat
      /\ Len(Addresses(p, Unfold!prefixSize(p))) = Unfold!prefixSize(p)
      /\ Addresses(p, Unfold!prefixSize(p)) \in Seq(Numbers)
  BY SizeIs
<1>5. PICK n \in Nat : n = x - p.lo /\ p.lo + n = x /\ p.lo + n <= p.hi
  <2>1. x \in Nat /\ p.lo \in Nat /\ p.lo <= x /\ x <= p.hi
    BY <1>0, <1>3, <1>4, Zenon
  <2>2. x - p.lo \in Nat /\ p.lo + (x - p.lo) = x
    BY <2>1
  <2> QED
    BY <2>1, <2>2
<1>6. /\ Addresses(p, n) \in Seq(Numbers) /\ Len(Addresses(p, n)) = n
      /\ Addresses(p, n + 1) = Append(Addresses(p, n), x)
  <2>1. p.lo + n <= p.hi + 1
    BY <1>4, <1>5
  <2>2. /\ Addresses(p, n) \in Seq(Numbers) /\ Len(Addresses(p, n)) = n
        /\ Addresses(p, n + 1) = Append(Addresses(p, n), p.lo + n)
    BY <1>5, <2>1, AddressesGrow
  <2> QED
    BY <1>5, <2>2
<1>7. /\ Unfold!Expansion(front) \in Seq(Numbers)
      /\ Unfold!Expansion(taken) = Unfold!Expansion(front) \o Addresses(p, Unfold!prefixSize(p))
  BY <1>3, ExpansionGrows
<1>8. written' = Unfold!Expansion(front) \o Addresses(p, n + 1)
  <2>1. Append(Unfold!Expansion(front) \o Addresses(p, n), x)
        = Unfold!Expansion(front) \o Append(Addresses(p, n), x)
    <3>1. PICK e \in Seq(Numbers) : e = Unfold!Expansion(front)
      BY <1>7
    <3>2. PICK a \in Seq(Numbers) : a = Addresses(p, n)
      BY <1>6
    <3>3. Append(e \o a, x) = e \o Append(a, x)
      <4>1. \A s \in Seq(Numbers) : s \o <<x>> = Append(s, x)
        BY <1>0
      <4>2. <<x>> \in Seq(Numbers) /\ e \o a \in Seq(Numbers)
        BY <1>0
      <4>3. (e \o a) \o <<x>> = e \o (a \o <<x>>)
        BY <4>2, ConcatAssoc
      <4> QED
        BY <4>1, <4>2, <4>3
    <3> QED
      BY <3>1, <3>2, <3>3
  <2> QED
    BY <1>1, <1>3, <1>5, <1>6, <2>1
<1>9. Values(written') = Asked(front) \cup (p.lo .. x)
  <2>1. Values(written') = Values(written) \cup {x}
    BY <1>0, <1>1, ValuesGrow
  <2>2. (p.lo .. x - 1) \cup {x} = p.lo .. x
    BY <1>0, <1>3, <1>4, SMTT(30)
  <2> QED
    BY <1>3, <2>1, <2>2
<1>10. Asked(taken) = Asked(front) \cup (p.lo .. p.hi)
  BY <1>3, AskedGrows
<1>11. SumKept'
  <2>1. Len(written) = Len(Unfold!Expansion(front)) + n /\ Len(written') = Len(written) + 1
    <3>1. PICK e \in Seq(Numbers) : e = Unfold!Expansion(front)
      BY <1>7
    <3>2. PICK a \in Seq(Numbers) : a = Addresses(p, n) /\ Len(a) = n
      BY <1>6
    <3>3. written = e \o a
      BY <1>3, <1>5, <3>1, <3>2
    <3>4. Len(Append(written, x)) = Len(written) + 1
      BY <1>0
    <3> QED
      <4>1. Len(e \o a) = Len(e) + Len(a)
        BY Concat
      <4>2. Len(written) = Len(Unfold!Expansion(front)) + n
        BY <3>1, <3>2, <3>3, <4>1
      <4> QED
        BY <1>1, <3>4, <4>2
  <2>2. Len(Unfold!Expansion(taken)) = Len(Unfold!Expansion(front)) + Unfold!prefixSize(p)
    BY <1>4, <1>7
  <2>3. n + 1 <= Unfold!prefixSize(p)
    BY <1>4, <1>5
  <2>4. total = Len(Unfold!Expansion(taken)) /\ Len(Unfold!Expansion(front)) \in Nat
    BY <1>0, <1>2, <1>7 DEF SumKept
  <2>5. Len(written') <= total
    BY <1>4, <2>1, <2>2, <2>3, <2>4
  <2> QED
    BY <1>0, <1>1, <2>5 DEF SumKept
<1>12. /\ written' \in Seq(Numbers) /\ Values(written') \subseteq Asked(taken)
  <2>1. p.lo .. x \subseteq p.lo .. p.hi
    BY <1>0, <1>3, <1>4
  <2> QED
    BY <1>0, <1>1, <1>9, <1>10, <2>1
<1>13. CASE x = hi /\ upc' = "read" /\ x' = x
  <2>1. n + 1 = Unfold!prefixSize(p)
    BY <1>3, <1>4, <1>5, <1>13
  <2>2. written' = Unfold!Expansion(taken) /\ Values(written') = Asked(taken)
    BY <1>3, <1>7, <1>8, <1>9, <1>10, <1>13, <2>1
  <2>3. UnfoldTypes'
    BY <1>0, <1>1, <1>12, <1>13 DEF UnfoldTypes
  <2>4. UnfoldStage'
    BY <1>1, <1>2, <1>12, <1>13, <2>2 DEF UnfoldStage
  <2> QED
    BY <1>11, <2>3, <2>4 DEF UnfoldInv
<1>14. CASE x # hi /\ upc' = "expand" /\ x' = (x + 1) % 2^W
  <2>1. x + 1 <= hi /\ x + 1 \in Numbers /\ (x + 1) % 2^W = x + 1
    <3>1. PICK m \in Nat \ {0} : m = 2^W
      BY WidthIs
    <3>2. hi \in 0 .. m - 1 /\ x \in Nat /\ x <= hi /\ x # hi
      BY <1>0, <1>3, <1>14, <3>1 DEF Numbers
    <3>4. x + 1 <= hi /\ x + 1 \in 0 .. m - 1
      BY <3>2
    <3>3. (x + 1) % m = x + 1
      BY <3>1, <3>4
    <3> QED
      BY <3>1, <3>3, <3>4 DEF Numbers
  <2>2. x' = x + 1
    BY <1>14, <2>1
  <2>3. Expanding'
    <3>1. x' - p.lo = n + 1 /\ x' - 1 = x /\ p.lo <= x' /\ x' <= hi
      <4>1. PICK y \in Nat : y = x' /\ y = x + 1 /\ y <= hi
        BY <1>0, <2>1, <2>2
      <4>2. y - p.lo = n + 1 /\ y - 1 = x /\ p.lo <= y
        BY <1>0, <1>4, <1>5, <4>1
      <4> QED
        BY <4>1, <4>2
    <3>2. /\ taken' = Append(front, p) /\ hi' = p.hi /\ p.lo <= x' /\ x' <= hi'
          /\ written' = Unfold!Expansion(front) \o Addresses(p, x' - p.lo)
          /\ Values(written') = Asked(front) \cup (p.lo .. x' - 1)
      BY <1>1, <1>3, <1>8, <1>9, <3>1
    <3>3. \E f \in Seq(Blocks(W)), q \in Blocks(W) :
            /\ taken' = Append(f, q) /\ hi' = q.hi /\ q.lo <= x' /\ x' <= hi'
            /\ written' = Unfold!Expansion(f) \o Addresses(q, x' - q.lo)
            /\ Values(written') = Asked(f) \cup (q.lo .. x' - 1)
      BY <3>2, Zenon
    <3> QED
      BY <3>3, Zenon DEF Expanding
  <2>4. UnfoldTypes'
    BY <1>0, <1>1, <1>12, <1>14, <2>1, <2>2 DEF UnfoldTypes
  <2>5. UnfoldStage'
    BY <1>1, <1>2, <1>12, <1>14, <2>3 DEF UnfoldStage
  <2> QED
    BY <1>11, <2>4, <2>5 DEF UnfoldInv
<1> QED
  BY <1>1, <1>13, <1>14

LEMMA UnfoldStep ==
  ASSUME UnfoldInv, Unfold!Next
  PROVE  UnfoldInv'
<1>1. ASSUME NEW p \in Unfold!AllPrefixes, Unfold!Line(p)
      PROVE  UnfoldInv'
  <2>1. p \in Blocks(W)
    BY SameNames
  <2> QED
    BY <1>1, <2>1, LineStep
<1>2. CASE Unfold!Write
  BY <1>2, WriteStep
<1>3. CASE Unfold!WriteFails
  <2>1. upc' = "failed" /\ UNCHANGED <<count, max, total, x, hi, written, taken>> /\ upc = "expand"
    BY <1>3 DEF Unfold!WriteFails
  <2> QED
    BY <2>1 DEF UnfoldInv, UnfoldTypes, SumKept, UnfoldStage
<1>4. CASE Unfold!EndOfInput
  <2>1. upc' \in {"done", "failed"} /\ UNCHANGED <<count, max, total, x, hi, written, taken>> /\ upc = "read"
    BY <1>4 DEF Unfold!EndOfInput
  <2> QED
    BY <2>1 DEF UnfoldInv, UnfoldTypes, SumKept, UnfoldStage
<1> QED
  BY <1>1, <1>2, <1>3, <1>4 DEF Unfold!Next

LEMMA UnfoldKept ==
  ASSUME UnfoldInv, UNCHANGED unfoldVars
  PROVE  UnfoldInv'
<1>1. UNCHANGED <<upc, count, max, total, x, hi, written, taken>>
  BY DEF unfoldVars
<1>2. UnfoldTypes' /\ SumKept'
  BY <1>1 DEF UnfoldInv, UnfoldTypes, SumKept
<1>3. Expanding => Expanding'
  BY <1>1, Zenon DEF Expanding
<1>4. UnfoldStage'
  BY <1>1, <1>3 DEF UnfoldInv, UnfoldStage
<1> QED
  BY <1>2, <1>4 DEF UnfoldInv
-----------------------------------------------------------------------------
(* The order of the tools is the one the lemmas are about. *)
LEMMA SameOrdered ==
  ASSUME NEW T, NEW Q
  PROVE  Fold!Ordered(T, Q) = Ordered(T, Q)
<1>1. \A S : Fold!Cardinality(S) = Cardinality(S)
  BY Zenon DEF Fold!Cardinality, Cardinality
<1>2. ASSUME NEW k
      PROVE  Fold!AtPlace(T, Q, k) = AtPlace(T, Q, k)
  BY <1>1, Zenon DEF Fold!AtPlace, AtPlace
<1>3. \A k : Fold!AtPlace(T, Q, k) = AtPlace(T, Q, k)
  BY <1>2
<1> QED
  BY <1>1, <1>3 DEF Fold!Ordered, Ordered

(* What is emitted for a run: its largest prefixes in ascending order. *)
LEMMA CoverIs ==
  ASSUME NEW l \in Numbers, NEW h \in Numbers, l <= h
  PROVE  /\ Fold!Cover(l, h) \in Seq(Blocks(W)) /\ Values(Fold!Cover(l, h)) = LargestIn(l .. h, W)
         /\ Ascending(Fold!Cover(l, h)) /\ Covered(Fold!Cover(l, h)) = l .. h
<1> DEFINE S == LargestIn(l .. h, W)
           R == {d \in S \X S : d[1].lo <= d[2].lo}
<1>0. Powers(W) /\ l .. h \in SUBSET Numbers /\ l \in Nat /\ h \in Nat /\ Numbers = 0 .. 2^W - 1
  BY WidthIs DEF Numbers
<1>1. Fold!Cover(l, h) = Ordered(S, R)
  <2> DEFINE inside == {p \in Blocks(W) : l <= p.lo /\ p.hi <= h}
             maximal == {p \in inside : \A q \in inside : q.lo <= p.lo /\ p.hi <= q.hi => q = p}
  <2>1. ASSUME NEW p \in Blocks(W)
        PROVE  p \in inside <=> p.lo .. p.hi \subseteq l .. h
    <3>1. p.lo \in Nat /\ p.hi \in Nat /\ p.lo <= p.hi
      BY <1>0, BlockOf
    <3>2. p.lo \in p.lo .. p.hi /\ p.hi \in p.lo .. p.hi
      BY <3>1
    <3> QED
      BY <1>0, <3>1, <3>2
  <2>2. maximal = S
    BY <2>1 DEF LargestIn
  <2>3. Fold!Cover(l, h) = Fold!Ordered(maximal, {d \in maximal \X maximal : d[1].lo <= d[2].lo})
    BY SameNames DEF Fold!Cover
  <2> HIDE DEF maximal
  <2> QED
    BY <2>2, <2>3, SameOrdered
<1>2. IsFiniteSet(S) /\ S \subseteq Blocks(W)
  <2>1. S \subseteq Blocks(W)
    BY DEF LargestIn
  <2> QED
    BY <1>0, <2>1, BlocksFinite, FS_Subset
<1>3. \A p \in S : p.lo \in Nat /\ p.hi \in Nat /\ p.lo <= p.hi
  BY <1>0, <1>2, BlockOf
<1>4. \A p, q \in S : p.lo <= q.lo /\ p # q => p.hi < q.lo
  BY <1>0, LargestApart
<1> HIDE DEF S
<1>5. \A p, q \in S : <<p, q>> \in R <=> p.lo <= q.lo
  OBVIOUS
<1>6. /\ \A p, q \in S : <<p, q>> \in R \/ <<q, p>> \in R
      /\ \A p, q \in S : <<p, q>> \in R /\ <<q, p>> \in R => p = q
      /\ \A p, q, r \in S : <<p, q>> \in R /\ <<q, r>> \in R => <<p, r>> \in R
  <2>1. \A p, q \in S : p.lo <= q.lo \/ q.lo <= p.lo
    BY <1>3
  <2>2. \A p, q \in S : p.lo <= q.lo /\ q.lo <= p.lo => p = q
    BY <1>3, <1>4
  <2>3. \A p, q, r \in S : p.lo <= q.lo /\ q.lo <= r.lo => p.lo <= r.lo
    BY <1>3
  <2> HIDE DEF R
  <2> QED
    BY <1>5, <2>1, <2>2, <2>3
<1> HIDE DEF R
<1>7. /\ Ordered(S, R) \in Seq(S) /\ Len(Ordered(S, R)) = Cardinality(S) /\ Cardinality(S) \in Nat
      /\ \A p \in S : \E k \in 1 .. Cardinality(S) : Ordered(S, R)[k] = p
      /\ \A i, j \in 1 .. Cardinality(S) :
           i < j => <<Ordered(S, R)[i], Ordered(S, R)[j]>> \in R /\ Ordered(S, R)[i] # Ordered(S, R)[j]
  BY <1>2, <1>6, OrderedIs
<1>8. PICK c \in Seq(S) : c = Fold!Cover(l, h) /\ c = Ordered(S, R)
  BY <1>1, <1>7
<1>9. c \in Seq(Blocks(W))
  BY <1>2, SeqWider
<1>10. Len(c) = Cardinality(S) /\ \A k \in 1 .. Len(c) : c[k] \in S
  BY <1>7, <1>8
<1>11. Values(c) = S
  <2>1. Values(c) \subseteq S
    BY ValuesGrow
  <2>2. S \subseteq Values(c)
    <3> SUFFICES ASSUME NEW p \in S PROVE p \in Values(c)
      OBVIOUS
    <3>1. PICK k \in 1 .. Len(c) : c[k] = p
      BY <1>7, <1>8, <1>10
    <3>2. c[k] \in Values(c)
      BY ValuesGrow
    <3> QED
      BY <3>1, <3>2
  <2> QED
    BY <2>1, <2>2
<1>12. Ascending(c)
  <2> SUFFICES ASSUME NEW i \in 1 .. Len(c), NEW j \in 1 .. Len(c), i < j
               PROVE  c[i].hi < c[j].lo
    BY DEF Ascending
  <2>1. c[i] \in S /\ c[j] \in S /\ <<c[i], c[j]>> \in R /\ c[i] # c[j]
    BY <1>7, <1>8, <1>10
  <2> QED
    BY <1>4, <1>5, <2>1
<1>13. Covered(c) = l .. h
  <2>1. \A p \in S : p.lo .. p.hi \subseteq l .. h
    BY <1>0, LargestFill DEF S
  <2>2. \A a \in l .. h : \E p \in S : p.lo <= a /\ a <= p.hi
    BY <1>0, LargestFill DEF S
  <2>3. \A a \in l .. h : \E p \in S : a \in p.lo .. p.hi
    BY <1>0, <1>3, <2>2
  <2> QED
    BY <1>11, <2>1, <2>3 DEF Covered
<1> QED
  BY <1>8, <1>9, <1>11, <1>12, <1>13 DEF S

(* To emit a run leaves a fold of what was folded and the run, if a gap is
   before the run and one after it. *)
LEMMA Emission ==
  ASSUME NEW s \in Seq(Blocks(W)), NEW S \in SUBSET Numbers, NEW l \in Numbers, NEW h \in Numbers, l <= h,
         NEW e \in Int, h + 1 < e, Folded(s, S, l)
  PROVE  Folded(s \o Fold!Cover(l, h), S \cup (l .. h), e)
<1>0. Powers(W) /\ l .. h \in SUBSET Numbers /\ l \in Nat /\ h \in Nat /\ Numbers = 0 .. 2^W - 1
  BY WidthIs DEF Numbers
<1>1. PICK c \in Seq(Blocks(W)) : /\ c = Fold!Cover(l, h) /\ Values(c) = LargestIn(l .. h, W)
                                  /\ Ascending(c)
  BY CoverIs
<1>2. /\ Values(s) = LargestIn(S, W) /\ Ascending(s) /\ \A a \in S : a + 1 < l
      /\ \A a \in S : a \in Int
  BY <1>0 DEF Folded
<1>3. Values(s \o c) = LargestIn(S \cup (l .. h), W)
  <2>1. Values(s \o c) = Values(s) \cup Values(c)
    BY ValuesGrow
  <2>2. PICK f \in Int : f = l - 1
    BY <1>0
  <2>3. (\A a \in S : a < f) /\ (\A a \in l .. h : f < a)
    BY <1>0, <1>2, <2>2
  <2>4. LargestIn(S \cup (l .. h), W) = LargestIn(S, W) \cup LargestIn(l .. h, W)
    BY <1>0, <2>3, LargestOfBoth
  <2> QED
    BY <1>1, <1>2, <2>1, <2>4
<1>4. ASSUME NEW p \in LargestIn(S, W), NEW q \in LargestIn(l .. h, W)
      PROVE  p.hi < q.lo
  <2>1. /\ p \in Blocks(W) /\ p.lo .. p.hi \subseteq S
        /\ q \in Blocks(W) /\ q.lo .. q.hi \subseteq l .. h
    BY DEF LargestIn
  <2>2. p.lo \in Nat /\ p.hi \in Nat /\ p.lo <= p.hi /\ q.lo \in Nat /\ q.hi \in Nat /\ q.lo <= q.hi
    BY <1>0, <2>1, BlockOf
  <2>3. p.hi \in S /\ q.lo \in l .. h
    BY <2>1, <2>2
  <2>4. p.hi + 1 < l /\ l <= q.lo
    <3>1. p.hi + 1 < l
      BY <1>2, <2>3
    <3>2. l <= q.lo
      BY <1>0, <2>2, <2>3
    <3> QED
      BY <3>1, <3>2
  <2> QED
    BY <1>0, <2>2, <2>4
<1>5. Ascending(s \o c)
  <2> SUFFICES ASSUME NEW i \in 1 .. Len(s \o c), NEW j \in 1 .. Len(s \o c), i < j
               PROVE  (s \o c)[i].hi < (s \o c)[j].lo
    BY DEF Ascending
  <2>1. Len(s \o c) = Len(s) + Len(c) /\ Len(s) \in Nat /\ Len(c) \in Nat
    BY Concat
  <2>2. /\ \A k \in 1 .. Len(s) : (s \o c)[k] = s[k]
        /\ \A k \in 1 .. Len(c) : (s \o c)[Len(s) + k] = c[k]
    BY Concat
  <2>3. CASE j \in 1 .. Len(s)
    <3>1. i \in 1 .. Len(s) /\ s[i].hi < s[j].lo
      BY <1>2, <2>1, <2>3 DEF Ascending
    <3> QED
      BY <2>2, <2>3, <3>1
  <2>4. CASE j \notin 1 .. Len(s)
    <3>1. PICK k \in 1 .. Len(c) : j = Len(s) + k
      <4>1. j - Len(s) \in 1 .. Len(c) /\ j = Len(s) + (j - Len(s))
        BY <2>1, <2>4
      <4> QED
        BY <4>1
    <3>2. (s \o c)[j] = c[k] /\ c[k] \in Values(c)
      BY <2>2, <3>1, ValuesGrow
    <3>3. CASE i \in 1 .. Len(s)
      <4>1. (s \o c)[i] = s[i] /\ s[i] \in Values(s)
        BY <2>2, <3>3, ValuesGrow
      <4> QED
        BY <1>1, <1>2, <1>4, <3>2, <4>1
    <3>4. CASE i \notin 1 .. Len(s)
      <4>1. PICK m \in 1 .. Len(c) : i = Len(s) + m
        <5>1. i - Len(s) \in 1 .. Len(c) /\ i = Len(s) + (i - Len(s))
          BY <2>1, <3>4
        <5> QED
          BY <5>1
      <4>2. (s \o c)[i] = c[m] /\ m < k
        BY <2>1, <2>2, <3>1, <4>1
      <4> QED
        BY <1>1, <3>2, <4>2 DEF Ascending
    <3> QED
      BY <3>3, <3>4
  <2> QED
    BY <2>3, <2>4
<1>6. \A a \in S \cup (l .. h) : a + 1 < e
  BY <1>0, <1>2
<1> QED
  BY <1>1, <1>3, <1>5, <1>6 DEF Folded

(* What is covered, after a run is emitted. *)
LEMMA EmissionCovers ==
  ASSUME NEW s \in Seq(Blocks(W)), NEW l \in Numbers, NEW h \in Numbers, l <= h
  PROVE  /\ s \o Fold!Cover(l, h) \in Seq(Blocks(W))
         /\ Covered(s \o Fold!Cover(l, h)) = Covered(s) \cup (l .. h)
<1>1. PICK c \in Seq(Blocks(W)) : c = Fold!Cover(l, h) /\ Covered(c) = l .. h
  BY CoverIs
<1>2. Values(s \o c) = Values(s) \cup Values(c)
  BY ValuesGrow
<1>3. Covered(s \o c) = Covered(s) \cup Covered(c)
  BY <1>2 DEF Covered
<1>4. s \o c \in Seq(Blocks(W))
  BY Concat
<1> QED
  BY <1>1, <1>3, <1>4

(* Nothing folds to nothing. *)
LEMMA FoldedNothing ==
  ASSUME NEW e
  PROVE  Folded(<<>>, {}, e) /\ Covered(<<>>) = {} /\ Values(<<>>) = {} /\ LargestIn({}, W) = {}
<1>1. <<>> \in Seq(Blocks(W)) /\ Len(<<>>) = 0
  OBVIOUS
<1>2. Values(<<>>) = {}
  BY <1>1, ValuesGrow
<1>3. LargestIn({}, W) = {}
  <2> SUFFICES ASSUME NEW p \in LargestIn({}, W) PROVE FALSE
    OBVIOUS
  <2>1. p \in Blocks(W) /\ p.lo .. p.hi \subseteq {}
    BY DEF LargestIn
  <2>2. p.lo \in Nat /\ p.hi \in Nat /\ p.lo <= p.hi
    BY <2>1, WidthIs, BlockOf
  <2>3. p.lo \in p.lo .. p.hi
    BY <2>2
  <2> QED
    BY <2>1, <2>3
<1>4. Ascending(<<>>)
  BY <1>1 DEF Ascending
<1> QED
  BY <1>2, <1>3, <1>4 DEF Folded, Covered
-----------------------------------------------------------------------------
LEMMA ItemIs ==
  ASSUME NEW y \in Item
  PROVE  y.ip \in Numbers /\ y.ip \in Nat /\ y.zone \in Zones /\ y.zone \in Nat /\ Fold!Mark(y) = y.ip
<1>1. y.ip \in Numbers /\ y.ip \in Nat /\ y.zone \in Zones /\ y.zone \in Nat
  BY WidthIs, InputAssumption DEF Item
<1>2. PICK u \in Nat \ {0} : u = WordBits
  <2>1. 2^W \in Nat
    BY WidthIs
  <2> QED
    BY <2>1, WordAssumption
<1>3. y.ip = ((y.ip \div u) * u) + (y.ip % u)
  BY <1>1, Division
<1> QED
  BY <1>1, <1>2, <1>3 DEF Fold!Mark

(* The sorted slice holds the same, in the order of the addresses. *)
LEMMA SortedIs ==
  ASSUME NEW s \in Seq(Item)
  PROVE  /\ Fold!Sorted(s) \in Seq(Item) /\ Len(Fold!Sorted(s)) = Len(s)
         /\ Values(Fold!Sorted(s)) = Values(s)
         /\ \A i, j \in 1 .. Len(s) : i < j => Fold!Sorted(s)[i].ip <= Fold!Sorted(s)[j].ip
<1> DEFINE n == Len(s)
           P == 1 .. n
           R == {d \in P \X P : \/ Fold!Before(s[d[1]], s[d[2]])
                                \/ (s[d[1]] = s[d[2]] /\ d[1] <= d[2])}
           t == [k \in P |-> s[Ordered(P, R)[k]]]
<1>1. n \in Nat /\ \A k \in P : s[k] \in Item
  OBVIOUS
<1>2. Fold!Sorted(s) = t
  <2>1. Fold!Ordered(P, R) = Ordered(P, R)
    <3> HIDE DEF P, R
    <3> QED
      BY SameOrdered
  <2>2. Fold!Sorted(s) = [k \in P |-> s[Fold!Ordered(P, R)[k]]]
    BY DEF Fold!Sorted
  <2> HIDE DEF R
  <2> QED
    BY <2>1, <2>2
<1>3. \A k \in P : s[k].ip \in Nat /\ s[k].zone \in Nat
  BY <1>1, ItemIs
<1>4. \A k, m \in P : s[k] = s[m] <=> s[k].ip = s[m].ip /\ s[k].zone = s[m].zone
  BY <1>1 DEF Item
<1>5. IsFiniteSet(P) /\ Cardinality(P) = n
  <2>1. IsFiniteSet(1 .. n) /\ Cardinality(1 .. n) = IF 1 > n THEN 0 ELSE n - 1 + 1
    BY <1>1, FS_Interval, SMTT(30)
  <2> QED
    BY <1>1, <2>1
<1>6. \A k, m \in P : <<k, m>> \in R <=>
        \/ s[k].ip < s[m].ip
        \/ s[k].ip = s[m].ip /\ (s[k].zone < s[m].zone \/ (s[k].zone = s[m].zone /\ k <= m))
  BY <1>4 DEF Fold!Before
<1> HIDE DEF R, P, n
<1>7. \A k \in P : k \in Nat
  BY <1>1 DEF P
<1>8. /\ \A k, m \in P : <<k, m>> \in R \/ <<m, k>> \in R
      /\ \A k, m \in P : <<k, m>> \in R /\ <<m, k>> \in R => k = m
      /\ \A k, m, r \in P : <<k, m>> \in R /\ <<m, r>> \in R => <<k, r>> \in R
  <2>1. ASSUME NEW k \in P, NEW m \in P
        PROVE  <<k, m>> \in R \/ <<m, k>> \in R
    <3>1. PICK a \in Nat, b \in Nat : a = s[k].ip /\ b = s[m].ip
      BY <1>3
    <3>2. PICK c \in Nat, d \in Nat : c = s[k].zone /\ d = s[m].zone
      BY <1>3
    <3>3. \/ a < b \/ (a = b /\ (c < d \/ (c = d /\ k <= m)))
          \/ b < a \/ (b = a /\ (d < c \/ (d = c /\ m <= k)))
      BY <1>7
    <3> QED
      BY <1>6, <3>1, <3>2, <3>3
  <2>2. \A k, m \in P : <<k, m>> \in R /\ <<m, k>> \in R => k = m
    BY <1>3, <1>6, <1>7, SMTT(30)
  <2>3. ASSUME NEW k \in P, NEW m \in P, NEW r \in P, <<k, m>> \in R, <<m, r>> \in R
        PROVE  <<k, r>> \in R
    <3>1. PICK a \in Nat, b \in Nat, c \in Nat : a = s[k].ip /\ b = s[m].ip /\ c = s[r].ip
      BY <1>3
    <3>2. PICK d \in Nat, e \in Nat, f \in Nat : d = s[k].zone /\ e = s[m].zone /\ f = s[r].zone
      BY <1>3
    <3>3. /\ a < b \/ (a = b /\ (d < e \/ (d = e /\ k <= m)))
          /\ b < c \/ (b = c /\ (e < f \/ (e = f /\ m <= r)))
      BY <1>6, <2>3, <3>1, <3>2
    <3>4. k \in Nat /\ m \in Nat /\ r \in Nat
      BY <1>7
    <3>5. a < c \/ (a = c /\ (d < f \/ (d = f /\ k <= r)))
      BY <3>3, <3>4
    <3> QED
      BY <1>6, <3>1, <3>2, <3>5
  <2> QED
    BY <2>1, <2>2, <2>3
<1>9. /\ Ordered(P, R) \in Seq(P) /\ Len(Ordered(P, R)) = n
      /\ \A k \in P : \E m \in 1 .. n : Ordered(P, R)[m] = k
      /\ \A i, j \in 1 .. n : i < j => <<Ordered(P, R)[i], Ordered(P, R)[j]>> \in R
  BY <1>5, <1>8, OrderedIs
<1>10. PICK o \in Seq(P) : o = Ordered(P, R) /\ Len(o) = n
  BY <1>9
<1>11. \A k \in P : o[k] \in P
  BY <1>10 DEF P
<1>12. t \in Seq(Item) /\ Len(t) = n /\ \A k \in P : t[k] = s[o[k]]
  <2>1. t = [k \in P |-> s[o[k]]]
    BY <1>10
  <2> HIDE DEF t
  <2>2. t \in [1 .. n -> Item]
    BY <1>1, <1>11, <2>1 DEF P
  <2>3. t \in Seq(Item) /\ Len(t) = n
    BY <1>1, <2>2, MakeSeq
  <2> QED
    BY <2>1, <2>3
<1> HIDE DEF t
<1>13. Values(t) = Values(s)
  <2>1. ASSUME NEW a \in Values(t)
        PROVE  a \in Values(s)
    <3>1. PICK k \in 1 .. n : t[k] = a
      BY <1>12, ValuesGrow
    <3>2. o[k] \in 1 .. n /\ a = s[o[k]]
      BY <1>11, <1>12, <3>1 DEF P
    <3> QED
      BY <3>2, ValuesGrow DEF n
  <2>2. ASSUME NEW a \in Values(s)
        PROVE  a \in Values(t)
    <3>1. PICK k \in 1 .. n : s[k] = a
      BY ValuesGrow DEF n
    <3>2. PICK m \in 1 .. n : o[m] = k
      BY <1>9, <1>10, <3>1 DEF P
    <3>3. t[m] = a
      BY <1>12, <3>1, <3>2 DEF P
    <3> QED
      BY <1>12, <3>3, ValuesGrow
  <2> QED
    BY <2>1, <2>2
<1>14. ASSUME NEW i \in 1 .. n, NEW j \in 1 .. n, i < j
       PROVE  t[i].ip <= t[j].ip
  <2>1. <<o[i], o[j]>> \in R /\ o[i] \in P /\ o[j] \in P
    BY <1>9, <1>10, <1>11, <1>14 DEF P
  <2>2. s[o[i]].ip <= s[o[j]].ip
    BY <1>3, <1>6, <2>1, SMTT(30)
  <2>3. t[i] = s[o[i]] /\ t[j] = s[o[j]]
    BY <1>12 DEF P
  <2> QED
    BY <2>2, <2>3, Zenon
<1> QED
  BY <1>2, <1>12, <1>13, <1>14 DEF n

(* The addresses given are those of the sequence. *)
LEMMA GivenIs ==
  /\ Fold!Given = {y.ip : y \in Values(given)}
  /\ Fold!ZoneFree <=> \A y \in Values(given) : y.zone = 0
  /\ Fold!Written = Values(emitted)
BY SameNames DEF Fold!Given, Fold!ZoneFree, Fold!Written

(* One more address is given. *)
LEMMA GivenGrows ==
  ASSUME FoldTypes, NEW y \in Item, given' = Append(given, y)
  PROVE  /\ given' \in Seq(Item) /\ Fold!Given' = Fold!Given \cup {y.ip}
         /\ Fold!ZoneFree' <=> Fold!ZoneFree /\ y.zone = 0
         /\ Fold!Given \in SUBSET Numbers
<1>1. given \in Seq(Item)
  BY DEF FoldTypes
<1>2. Values(given') = Values(given) \cup {y} /\ Values(given) \in SUBSET Item
  BY <1>1, ValuesGrow
<1>3. /\ Fold!Given' = {z.ip : z \in Values(given')}
      /\ Fold!ZoneFree' <=> \A z \in Values(given') : z.zone = 0
  BY SameNames DEF Fold!Given, Fold!ZoneFree
<1>4. \A z \in Item : z.ip \in Numbers
  BY ItemIs
<1> QED
  BY <1>1, <1>2, <1>3, <1>4, GivenIs

LEMMA ReadStep ==
  ASSUME FoldInv, NEW y \in Item, v4 => y.zone = 0, Fold!Read(y)
  PROVE  FoldInv'
<1>1. /\ fpc = "read" /\ Fold!add(y) /\ given' = Append(given, y)
      /\ UNCHANGED <<v4, fpc, at, run, emitted>>
  BY DEF Fold!Read
<1>2. /\ FoldTypes /\ Collecting /\ slice \in Seq(Item) /\ bitmap.made \in BOOLEAN
      /\ bitmap \in [made : BOOLEAN, bits : SUBSET Numbers] /\ given \in Seq(Item)
      /\ v4 \in BOOLEAN
  BY <1>1 DEF FoldInv, FoldTypes
<1>3. /\ given' \in Seq(Item) /\ Fold!Given' = Fold!Given \cup {y.ip}
      /\ Fold!ZoneFree' <=> Fold!ZoneFree /\ y.zone = 0
      /\ Fold!Given \in SUBSET Numbers
  BY <1>1, <1>2, GivenGrows
<1>4. Fold!Mark(y) = y.ip /\ y.ip \in Numbers
  BY ItemIs
<1>5. v4' => Fold!ZoneFree'
  BY <1>1, <1>2, <1>3 DEF Collecting
<1>6. Fold!FoldsMinimal'
  BY <1>1 DEF Fold!FoldsMinimal
<1>7. ASSUME bitmap' \in [made : BOOLEAN, bits : SUBSET Numbers], slice' \in Seq(Item),
             ~bitmap'.made => slice' = given',
             bitmap'.made => v4' /\ bitmap'.bits = Fold!Given'
      PROVE  FoldInv'
  <2>1. FoldTypes'
    BY <1>1, <1>2, <1>3, <1>7 DEF FoldTypes
  <2>2. Collecting'
    <3>1. at' = 0 /\ run' = Fold!NoRun /\ emitted' = <<>>
      BY <1>1, <1>2 DEF Collecting
    <3> QED
      BY <1>5, <1>7, <3>1 DEF Collecting, Fold!NoRun
  <2> QED
    BY <1>1, <1>6, <2>1, <2>2 DEF FoldInv
<1>8. CASE bitmap.made /\ bitmap' = [bitmap EXCEPT !.bits = @ \cup {Fold!Mark(y)}] /\ UNCHANGED slice
  <2>1. bitmap.bits = Fold!Given /\ v4
    BY <1>2, <1>8 DEF Collecting
  <2>2. bitmap' = [bitmap EXCEPT !.bits = Fold!Given \cup {y.ip}]
    BY <1>4, <1>8, <2>1
  <2>3. bitmap' \in [made : BOOLEAN, bits : SUBSET Numbers] /\ bitmap'.made
    BY <1>2, <1>3, <1>4, <1>8, <2>2, SMTT(30)
  <2>4. bitmap'.bits = Fold!Given \cup {y.ip}
    BY <1>2, <2>2
  <2> QED
    BY <1>1, <1>2, <1>3, <1>7, <1>8, <2>1, <2>3, <2>4
<1>9. CASE ~bitmap.made /\ slice' = Append(slice, y) /\ UNCHANGED bitmap
  <2>1. slice' = given' /\ slice' \in Seq(Item) /\ ~bitmap'.made
    BY <1>1, <1>2, <1>9 DEF Collecting
  <2> QED
    BY <1>2, <1>7, <1>9, <2>1
<1>10. CASE /\ ~bitmap.made /\ v4 /\ slice' = <<>>
            /\ bitmap' = [made |-> TRUE, bits |-> {Fold!Mark(z) : z \in Fold!SeqExt!ToSet(Append(slice, y))}]
  <2>1. Append(slice, y) = given'
    BY <1>1, <1>2, <1>10 DEF Collecting
  <2>2. Fold!SeqExt!ToSet(Append(slice, y)) = Values(given')
    BY <2>1, SameNames
  <2>3. Values(given') \subseteq Item
    BY <1>3, ValuesGrow
  <2>4. {Fold!Mark(z) : z \in Values(given')} = {z.ip : z \in Values(given')}
    <3>1. \A z \in Values(given') : Fold!Mark(z) = z.ip
      BY <2>3, ItemIs
    <3> QED
      BY <3>1
  <2>5. Fold!Given' = {z.ip : z \in Values(given')}
    BY SameNames DEF Fold!Given
  <2>6. bitmap' = [made |-> TRUE, bits |-> Fold!Given']
    BY <1>10, <2>2, <2>4, <2>5
  <2>7. Fold!Given' \in SUBSET Numbers
    BY <1>3, <1>4
  <2>8. PICK g \in SUBSET Numbers : g = Fold!Given'
    BY <2>7
  <2>9. bitmap' \in [made : BOOLEAN, bits : SUBSET Numbers] /\ bitmap'.made /\ bitmap'.bits = g
    BY <2>6, <2>8
  <2>10. slice' \in Seq(Item) /\ v4'
    BY <1>1, <1>10
  <2> QED
    BY <1>7, <2>8, <2>9, <2>10
<1> QED
  BY <1>1, <1>8, <1>9, <1>10 DEF Fold!add

LEMMA EndOfInputStep ==
  ASSUME FoldInv, Fold!EndOfInput
  PROVE  FoldInv'
<1>1. /\ fpc = "read" /\ UNCHANGED <<v4, bitmap, at, run, emitted, given>>
      /\ \/ fpc' = "bitmap" /\ bitmap.made /\ UNCHANGED slice
         \/ fpc' = "slice" /\ ~bitmap.made /\ slice' = Fold!Sorted(slice)
  BY DEF Fold!EndOfInput
<1>2. FoldTypes /\ Collecting /\ slice \in Seq(Item)
  BY <1>1 DEF FoldInv, FoldTypes
<1>3. Fold!FoldsMinimal'
  BY <1>1 DEF Fold!FoldsMinimal
<1>4. /\ Fold!Given' = Fold!Given /\ Fold!ZoneFree' <=> Fold!ZoneFree
  BY <1>1 DEF Fold!Given, Fold!ZoneFree
<1>5. at = 0 /\ ~run.on /\ emitted = <<>>
  BY <1>2 DEF Collecting, Fold!NoRun
<1>6. CASE fpc' = "bitmap" /\ bitmap.made /\ UNCHANGED slice
  <2>1. FoldTypes'
    BY <1>1, <1>2, <1>6 DEF FoldTypes
  <2>2. bitmap.bits = Fold!Given /\ Fold!ZoneFree /\ bitmap.bits \in SUBSET Numbers
    BY <1>2, <1>6 DEF Collecting, FoldTypes
  <2>3. {a \in bitmap.bits : a < at} = {}
    BY <1>5, <2>2 DEF Numbers
  <2>4. Folded(emitted, {a \in bitmap.bits : a < at}, at)
    BY <1>5, <2>3, FoldedNothing
  <2>5. at <= 2^W
    BY <1>5, WidthIs
  <2>6. InBitmap'
    BY <1>1, <1>4, <1>5, <2>2, <2>4, <2>5 DEF InBitmap
  <2> QED
    BY <1>3, <1>6, <2>1, <2>6 DEF FoldInv
<1>7. CASE fpc' = "slice" /\ ~bitmap.made /\ slice' = Fold!Sorted(slice)
  <2>1. slice = given
    BY <1>2, <1>7 DEF Collecting
  <2>2. /\ slice' \in Seq(Item) /\ Len(slice') = Len(slice) /\ Values(slice') = Values(given)
        /\ \A i, j \in 1 .. Len(slice) : i < j => slice'[i].ip <= slice'[j].ip
        /\ Len(slice) \in Nat
    BY <1>2, <1>7, <2>1, SortedIs
  <2>3. FoldTypes'
    BY <1>1, <1>2, <1>7, <2>2 DEF FoldTypes
  <2>4. InSlice'
    BY <1>1, <1>5, <2>2 DEF InSlice
  <2> QED
    BY <1>3, <1>7, <2>3, <2>4 DEF FoldInv
<1> QED
  BY <1>1, <1>6, <1>7
-----------------------------------------------------------------------------
(* Where the fold of a slice is. *)
LEMMA PlaceInSlice ==
  ASSUME FoldInv, fpc = "slice"
  PROVE  /\ FoldTypes /\ InSlice /\ slice \in Seq(Item) /\ Len(slice) \in Nat /\ at \in Nat
         /\ at <= Len(slice) /\ run.on \in BOOLEAN
         /\ run.lo \in Numbers /\ run.hi \in Numbers /\ run.zone \in Zones
         /\ run.lo \in Nat /\ run.hi \in Nat /\ emitted \in Seq(Blocks(W))
         /\ \A k \in 1 .. Len(slice) : slice[k] \in Item /\ slice[k].ip \in Numbers /\ slice[k].ip \in Nat
         /\ Passed \in SUBSET Numbers
         /\ run.on => \A a \in Passed : a <= run.hi
         /\ run.on => Passed = {a \in Passed : a < run.lo} \cup (run.lo .. run.hi)
<1>1. /\ FoldTypes /\ InSlice /\ slice \in Seq(Item) /\ at \in Nat /\ at <= Len(slice)
      /\ run \in [on : BOOLEAN, lo : Numbers, hi : Numbers, zone : Zones] /\ emitted \in Seq(Blocks(W))
  BY DEF FoldInv, FoldTypes, InSlice
<1>2. Len(slice) \in Nat
  BY <1>1
<1>3. \A k \in 1 .. Len(slice) : slice[k] \in Item /\ slice[k].ip \in Numbers /\ slice[k].ip \in Nat
  <2>1. \A k \in 1 .. Len(slice) : slice[k] \in Item
    BY <1>1
  <2> QED
    BY <2>1, ItemIs
<1>4. \A k \in 1 .. at : k \in 1 .. Len(slice)
  BY <1>1, <1>2
<1>5. Passed \in SUBSET Numbers
  BY <1>3, <1>4 DEF Passed
<1>6. run.lo \in Nat /\ run.hi \in Nat /\ run.lo \in Numbers /\ run.hi \in Numbers
  BY <1>1, WidthIs
<1>7. ASSUME run.on, NEW a \in Passed
      PROVE  a <= run.hi
  <2>1. PICK k \in 1 .. at : a = slice[k].ip
    BY DEF Passed
  <2>2. k = at \/ (k < at /\ k \in 1 .. Len(slice) /\ at \in 1 .. Len(slice))
    BY <1>1, <1>2
  <2>3. slice[k].ip <= slice[at].ip
    BY <1>1, <1>3, <1>4, <2>2 DEF InSlice
  <2> QED
    BY <1>1, <1>7, <2>1, <2>3 DEF InSlice
<1>8. ASSUME run.on
      PROVE  Passed = {a \in Passed : a < run.lo} \cup (run.lo .. run.hi)
  <2>1. run.lo .. run.hi \subseteq Passed
    BY <1>1, <1>8 DEF InSlice
  <2>2. \A a \in Passed : a \in Nat
    BY <1>5, WidthIs
  <2>3. \A a \in Passed : a < run.lo \/ a \in run.lo .. run.hi
    BY <1>6, <1>7, <1>8, <2>2
  <2> QED
    BY <2>1, <2>3
<1> QED
  BY <1>1, <1>2, <1>3, <1>5, <1>6, <1>7, <1>8

LEMMA FoldSliceStep ==
  ASSUME FoldInv, Fold!FoldSlice
  PROVE  FoldInv'
<1> DEFINE y == slice[at + 1]
           B == {a \in Passed : a < run.lo}
<1>1. /\ fpc = "slice" /\ at < Len(slice) /\ at' = at + 1
      /\ UNCHANGED <<v4, fpc, slice, bitmap, given>>
      /\ \/ ~run.on /\ run' = Fold!Start(y) /\ UNCHANGED emitted
         \/ run.on /\ Fold!Grows(y) /\ run' = [run EXCEPT !.hi = y.ip] /\ UNCHANGED emitted
         \/ run.on /\ ~Fold!Grows(y) /\ run' = Fold!Start(y) /\ emitted' = emitted \o Fold!Cover(run.lo, run.hi)
  BY DEF Fold!FoldSlice
<1>2. /\ FoldTypes /\ InSlice /\ slice \in Seq(Item) /\ Len(slice) \in Nat /\ at \in Nat
      /\ run.on \in BOOLEAN /\ run.lo \in Numbers /\ run.hi \in Numbers /\ run.zone \in Zones
      /\ run.lo \in Nat /\ run.hi \in Nat /\ emitted \in Seq(Blocks(W))
      /\ \A k \in 1 .. Len(slice) : slice[k] \in Item /\ slice[k].ip \in Numbers /\ slice[k].ip \in Nat
      /\ Passed \in SUBSET Numbers
      /\ run.on => \A a \in Passed : a <= run.hi
      /\ run.on => Passed = B \cup (run.lo .. run.hi)
  BY <1>1, PlaceInSlice
<1>3. at + 1 \in 1 .. Len(slice) /\ (at # 0 => at \in 1 .. Len(slice))
  BY <1>1, <1>2
<1>4. y \in Item /\ y.ip \in Numbers /\ y.ip \in Nat /\ y.zone \in Zones
  BY <1>2, <1>3, ItemIs
<1>5. Fold!ZoneFree' = Fold!ZoneFree /\ (Fold!ZoneFree => y.zone = 0)
  <2>1. Fold!ZoneFree' = Fold!ZoneFree
    BY <1>1 DEF Fold!ZoneFree
  <2>2. y \in Values(slice) /\ Values(slice) = Values(given)
    BY <1>2, <1>3, ValuesGrow DEF InSlice
  <2> QED
    BY <2>1, <2>2, GivenIs
<1>6. Passed' = Passed \cup {y.ip}
  <2>1. Passed' = {slice[k].ip : k \in 1 .. at + 1}
    BY <1>1 DEF Passed
  <2>2. \A k \in 1 .. at + 1 : k \in 1 .. at \/ k = at + 1
    BY <1>2
  <2>3. \A k \in 1 .. at : k \in 1 .. at + 1
    BY <1>2
  <2>4. at + 1 \in 1 .. at + 1
    BY <1>2
  <2> QED
    BY <2>1, <2>2, <2>3, <2>4 DEF Passed
<1>7. Fold!FoldsMinimal'
  BY <1>1 DEF Fold!FoldsMinimal
<1>8. ASSUME emitted' \in Seq(Blocks(W)), run' \in [on : BOOLEAN, lo : Numbers, hi : Numbers, zone : Zones],
             run'.on, run'.lo <= run'.hi, run'.hi = y.ip, run'.zone = y.zone,
             Covered(emitted') \cup (run'.lo .. run'.hi) = Passed',
             Fold!ZoneFree => Folded(emitted', {a \in Passed' : a < run'.lo}, run'.lo)
      PROVE  FoldInv'
  <2>1. FoldTypes'
    BY <1>1, <1>2, <1>8 DEF FoldTypes
  <2>2. /\ Values(slice') = Values(given') /\ at' <= Len(slice') /\ at' # 0
        /\ \A i, j \in 1 .. Len(slice') : i < j => slice'[i].ip <= slice'[j].ip
    BY <1>1, <1>2 DEF InSlice
  <2>3. run'.hi = slice'[at'].ip /\ run'.zone = slice'[at'].zone
    BY <1>1, <1>8
  <2>4. InSlice'
    BY <1>5, <1>8, <2>2, <2>3 DEF InSlice
  <2> QED
    BY <1>1, <1>7, <2>1, <2>4 DEF FoldInv
<1>9. Fold!Start(y) = [on |-> TRUE, lo |-> y.ip, hi |-> y.ip, zone |-> y.zone]
  BY DEF Fold!Start
<1>10. ASSUME run' = Fold!Start(y)
       PROVE  /\ run' \in [on : BOOLEAN, lo : Numbers, hi : Numbers, zone : Zones]
              /\ run'.on /\ run'.lo = y.ip /\ run'.hi = y.ip /\ run'.zone = y.zone /\ run'.lo <= run'.hi
              /\ run'.lo .. run'.hi = {y.ip}
  BY <1>4, <1>9, <1>10
<1>11. CASE ~run.on /\ run' = Fold!Start(y) /\ UNCHANGED emitted
  <2>1. at = 0 /\ emitted = <<>> /\ emitted' = <<>>
    BY <1>2, <1>11 DEF InSlice
  <2>2. Passed = {}
    BY <2>1 DEF Passed
  <2>3. Covered(emitted') = {}
    BY <2>1, FoldedNothing
  <2>4. Covered(emitted') \cup (run'.lo .. run'.hi) = Passed'
    BY <1>6, <1>10, <1>11, <2>2, <2>3
  <2>5. {a \in Passed' : a < run'.lo} = {}
    BY <1>4, <1>6, <1>10, <1>11, <2>2
  <2>6. Folded(emitted', {a \in Passed' : a < run'.lo}, run'.lo)
    BY <2>1, <2>5, FoldedNothing
  <2> QED
    BY <1>2, <1>8, <1>10, <1>11, <2>4, <2>6
<1>12. ASSUME run.on
       PROVE  run.hi <= y.ip /\ run.lo <= run.hi /\ at # 0
  <2>1. at # 0 /\ run.hi = slice[at].ip /\ run.lo <= run.hi
    BY <1>2, <1>12 DEF InSlice
  <2>2. at \in 1 .. Len(slice) /\ at < at + 1
    BY <1>2, <1>3, <2>1
  <2>3. slice[at].ip <= slice[at + 1].ip
    BY <1>2, <1>3, <2>2 DEF InSlice
  <2> QED
    BY <2>1, <2>3
<1>13. CASE run.on /\ Fold!Grows(y) /\ run' = [run EXCEPT !.hi = y.ip] /\ UNCHANGED emitted
  <2>1. y.zone = run.zone /\ (y.ip = run.hi \/ y.ip = run.hi + 1)
    BY <1>13 DEF Fold!Grows
  <2>2. run \in [on : BOOLEAN, lo : Numbers, hi : Numbers, zone : Zones]
    BY <1>2 DEF FoldTypes
  <2>3. /\ run' \in [on : BOOLEAN, lo : Numbers, hi : Numbers, zone : Zones]
        /\ run'.on /\ run'.lo = run.lo /\ run'.hi = y.ip /\ run'.zone = run.zone
    BY <1>4, <1>13, <2>2
  <2>4. run.lo .. y.ip = (run.lo .. run.hi) \cup {y.ip} /\ run.lo <= y.ip
    BY <1>2, <1>4, <1>12, <1>13, <2>1, SMTT(30)
  <2>5. Covered(emitted) \cup (run.lo .. run.hi) = Passed
    BY <1>2, <1>13 DEF InSlice
  <2>6. Covered(emitted') \cup (run'.lo .. run'.hi) = Passed'
    BY <1>6, <1>13, <2>3, <2>4, <2>5
  <2>7. {a \in Passed' : a < run'.lo} = B
    BY <1>2, <1>4, <1>6, <2>3, <2>4
  <2>8. Fold!ZoneFree => Folded(emitted', {a \in Passed' : a < run'.lo}, run'.lo)
    <3>1. Fold!ZoneFree => Folded(emitted, B, run.lo)
      BY <1>2, <1>13 DEF InSlice
    <3> QED
      BY <1>13, <2>3, <2>7, <3>1
  <2> QED
    BY <1>2, <1>8, <1>13, <2>1, <2>3, <2>4, <2>6, <2>8
<1>14. CASE run.on /\ ~Fold!Grows(y) /\ run' = Fold!Start(y) /\ emitted' = emitted \o Fold!Cover(run.lo, run.hi)
  <2>1. /\ emitted' \in Seq(Blocks(W))
        /\ Covered(emitted') = Covered(emitted) \cup (run.lo .. run.hi)
    BY <1>2, <1>12, <1>14, EmissionCovers
  <2>2. Covered(emitted) \cup (run.lo .. run.hi) = Passed
    BY <1>2, <1>14 DEF InSlice
  <2>3. Covered(emitted') \cup (run'.lo .. run'.hi) = Passed'
    BY <1>6, <1>10, <1>14, <2>1, <2>2
  <2>4. ASSUME Fold!ZoneFree
        PROVE  Folded(emitted', {a \in Passed' : a < run'.lo}, run'.lo)
    <3>1. y.zone = run.zone
      <4>1. slice[at] \in Values(slice) /\ Values(slice) = Values(given) /\ run.zone = slice[at].zone
        BY <1>2, <1>3, <1>12, <1>14, ValuesGrow DEF InSlice
      <4>2. run.zone = 0
        BY <2>4, <4>1, GivenIs
      <4> QED
        BY <1>5, <2>4, <4>2
    <3>2. y.ip # run.hi /\ (run.hi = 2^W - 1 \/ y.ip # run.hi + 1)
      BY <1>14, <3>1, SameNames DEF Fold!Grows
    <3>3. y.ip <= 2^W - 1 /\ 2^W \in Int
      BY <1>4, WidthIs DEF Numbers
    <3>4. run.hi + 1 < y.ip
      <4>1. run.hi \in Int /\ y.ip \in Int /\ run.hi <= y.ip
        BY <1>2, <1>4, <1>12, <1>14 DEF FoldTypes, Numbers
      <4>2. PICK m \in Int : m = 2^W
        BY <3>3
      <4> QED
        BY <3>2, <3>3, <4>1, <4>2
    <3>5. Folded(emitted, B, run.lo)
      BY <1>2, <1>14, <2>4 DEF InSlice
    <3>6. Folded(emitted', B \cup (run.lo .. run.hi), y.ip)
      <4>1. B \in SUBSET Numbers /\ y.ip \in Int
        BY <1>2, <1>4
      <4>2. Folded(emitted \o Fold!Cover(run.lo, run.hi), B \cup (run.lo .. run.hi), y.ip)
        <5> HIDE DEF B, y
        <5> QED
          BY <1>2, <1>12, <1>14, <3>4, <3>5, <4>1, Emission
      <4> QED
        BY <1>14, <4>2
    <3>7. Passed = B \cup (run.lo .. run.hi)
      BY <1>2, <1>14
    <3>8. {a \in Passed' : a < y.ip} = Passed
      <4>1. \A a \in Passed : a < y.ip
        <5>1. \A a \in Passed : a \in Nat /\ a <= run.hi
          BY <1>2, <1>14, WidthIs
        <5> QED
          BY <1>2, <1>4, <3>4, <5>1
      <4>2. ~(y.ip < y.ip)
        BY <1>4
      <4> QED
        BY <1>6, <4>1, <4>2
    <3> QED
      BY <1>10, <1>14, <3>6, <3>7, <3>8
  <2> QED
    BY <1>8, <1>10, <1>14, <2>1, <2>3, <2>4
<1> QED
  BY <1>1, <1>11, <1>13, <1>14
-----------------------------------------------------------------------------
(* Where the fold of a bitmap is. *)
LEMMA PlaceInBitmap ==
  ASSUME FoldInv, fpc = "bitmap"
  PROVE  /\ FoldTypes /\ InBitmap /\ at \in Nat /\ at <= 2^W /\ 2^W \in Nat
         /\ run.on \in BOOLEAN /\ run.lo \in Numbers /\ run.lo \in Nat
         /\ run \in [on : BOOLEAN, lo : Numbers, hi : Numbers, zone : Zones]
         /\ emitted \in Seq(Blocks(W)) /\ bitmap.bits \in SUBSET Numbers
         /\ \A a \in bitmap.bits : a \in Nat /\ a < 2^W
<1>1. FoldTypes /\ InBitmap
  BY DEF FoldInv
<1>2. /\ run \in [on : BOOLEAN, lo : Numbers, hi : Numbers, zone : Zones]
      /\ bitmap \in [made : BOOLEAN, bits : SUBSET Numbers] /\ at \in Nat /\ emitted \in Seq(Blocks(W))
  BY <1>1 DEF FoldTypes
<1>3. run.on \in BOOLEAN /\ run.lo \in Numbers /\ run.lo \in Nat /\ bitmap.bits \in SUBSET Numbers
  BY <1>2, WidthIs
<1>4. at <= 2^W
  BY <1>1 DEF InBitmap
<1>5. \A a \in bitmap.bits : a \in Nat /\ a < 2^W
  BY <1>3, WidthIs DEF Numbers
<1> QED
  BY <1>1, <1>2, <1>3, <1>4, <1>5, WidthIs

(* n bits that are not set. *)
LEMMA EndsStep ==
  ASSUME FoldInv, fpc = "bitmap", NEW n \in Nat \ {0}, at + n <= 2^W,
         \A a \in bitmap.bits : ~(at <= a /\ a < at + n),
         Fold!Ends(at), at' = at + n, UNCHANGED <<v4, fpc, slice, bitmap, given>>
  PROVE  FoldInv'
<1>1. /\ FoldTypes /\ InBitmap /\ at \in Nat /\ at <= 2^W /\ 2^W \in Nat
      /\ run.on \in BOOLEAN /\ run.lo \in Numbers /\ run.lo \in Nat
      /\ emitted \in Seq(Blocks(W)) /\ bitmap.bits \in SUBSET Numbers
      /\ \A a \in bitmap.bits : a \in Nat /\ a < 2^W
  BY PlaceInBitmap
<1>2. /\ run' = Fold!NoRun
      /\ emitted' = IF run.on THEN emitted \o Fold!Cover(run.lo, at - 1) ELSE emitted
  BY DEF Fold!Ends
<1>3. run' \in [on : BOOLEAN, lo : Numbers, hi : Numbers, zone : Zones] /\ ~run'.on
  <2>1. 0 \in Numbers /\ 0 \in Zones
    BY WidthIs, InputAssumption DEF Numbers
  <2> QED
    BY <1>2, <2>1 DEF Fold!NoRun
<1>4. {a \in bitmap.bits : a < at + n} = {a \in bitmap.bits : a < at}
  BY <1>1
<1>5. emitted' \in Seq(Blocks(W)) /\ Folded(emitted', {a \in bitmap.bits : a < at + n}, at + n)
  <2>1. CASE run.on
    <3>1. /\ run.lo < at /\ run.lo .. at - 1 \subseteq bitmap.bits
          /\ Folded(emitted, {a \in bitmap.bits : a < run.lo}, run.lo)
      BY <1>1, <2>1 DEF InBitmap
    <3>2. /\ at - 1 \in Numbers /\ run.lo <= at - 1 /\ (at - 1) + 1 < at + n /\ at + n \in Int
          /\ {a \in bitmap.bits : a < run.lo} \in SUBSET Numbers
      BY <1>1, <3>1 DEF Numbers
    <3>3. {a \in bitmap.bits : a < at} = {a \in bitmap.bits : a < run.lo} \cup (run.lo .. at - 1)
      BY <1>1, <3>1
    <3>4. Folded(emitted \o Fold!Cover(run.lo, at - 1),
                 {a \in bitmap.bits : a < run.lo} \cup (run.lo .. at - 1), at + n)
      BY <1>1, <3>1, <3>2, Emission
    <3>5. emitted \o Fold!Cover(run.lo, at - 1) \in Seq(Blocks(W))
      BY <1>1, <3>2, EmissionCovers
    <3> QED
      BY <1>2, <1>4, <2>1, <3>3, <3>4, <3>5
  <2>2. CASE ~run.on
    <3>1. Folded(emitted, {a \in bitmap.bits : a < at}, at)
      BY <1>1, <2>2 DEF InBitmap
    <3>2. \A a \in {b \in bitmap.bits : b < at} : a + 1 < at + n
      <4>1. \A a \in {b \in bitmap.bits : b < at} : a \in Nat /\ a + 1 < at
        BY <1>1, <3>1 DEF Folded
      <4> QED
        BY <1>1, <4>1
    <3>3. Folded(emitted, {a \in bitmap.bits : a < at}, at + n)
      BY <3>1, <3>2 DEF Folded
    <3> QED
      BY <1>1, <1>2, <1>4, <2>2, <3>3
  <2> QED
    BY <1>1, <2>1, <2>2
<1>6. FoldTypes'
  BY <1>1, <1>3, <1>5 DEF FoldTypes
<1>7. InBitmap'
  <2>1. Fold!ZoneFree' /\ bitmap'.bits = Fold!Given'
    BY <1>1 DEF InBitmap, Fold!ZoneFree, Fold!Given
  <2> QED
    BY <1>3, <1>5, <2>1 DEF InBitmap
<1>8. Fold!FoldsMinimal'
  BY DEF Fold!FoldsMinimal
<1> QED
  BY <1>6, <1>7, <1>8 DEF FoldInv

(* n bits that are set. *)
LEMMA FullStep ==
  ASSUME FoldInv, fpc = "bitmap", NEW n \in Nat \ {0}, at + n <= 2^W,
         at .. at + n - 1 \subseteq bitmap.bits,
         Fold!Full(at), at' = at + n, UNCHANGED <<v4, fpc, slice, bitmap, given>>
  PROVE  FoldInv'
<1>1. /\ FoldTypes /\ InBitmap /\ at \in Nat /\ at <= 2^W /\ 2^W \in Nat
      /\ run.on \in BOOLEAN /\ run.lo \in Numbers /\ run.lo \in Nat
      /\ run \in [on : BOOLEAN, lo : Numbers, hi : Numbers, zone : Zones]
      /\ emitted \in Seq(Blocks(W)) /\ bitmap.bits \in SUBSET Numbers
      /\ \A a \in bitmap.bits : a \in Nat /\ a < 2^W
  BY PlaceInBitmap
<1>2. /\ run' = IF run.on THEN run ELSE [on |-> TRUE, lo |-> at, hi |-> at, zone |-> 0]
      /\ emitted' = emitted
  BY DEF Fold!Full, Fold!Start
<1>3. at \in Numbers /\ 0 \in Zones
  BY <1>1, InputAssumption DEF Numbers
<1>4. /\ run' \in [on : BOOLEAN, lo : Numbers, hi : Numbers, zone : Zones] /\ run'.on
      /\ run'.lo = IF run.on THEN run.lo ELSE at
  BY <1>1, <1>2, <1>3
<1>5. /\ run'.lo < at + n /\ run'.lo .. at + n - 1 \subseteq bitmap.bits
      /\ Folded(emitted, {a \in bitmap.bits : a < run'.lo}, run'.lo)
  <2>1. CASE run.on
    <3>1. /\ run.lo < at /\ run.lo .. at - 1 \subseteq bitmap.bits
          /\ Folded(emitted, {a \in bitmap.bits : a < run.lo}, run.lo)
      BY <1>1, <2>1 DEF InBitmap
    <3>2. \A a \in run.lo .. at + n - 1 : a \in run.lo .. at - 1 \/ a \in at .. at + n - 1
      BY <1>1
    <3>3. run.lo < at + n /\ run.lo .. at + n - 1 \subseteq bitmap.bits
      BY <1>1, <3>1, <3>2
    <3> QED
      BY <1>4, <2>1, <3>1, <3>3
  <2>2. CASE ~run.on
    <3>1. Folded(emitted, {a \in bitmap.bits : a < at}, at) /\ at < at + n
      BY <1>1, <2>2 DEF InBitmap
    <3> QED
      BY <1>4, <2>2, <3>1
  <2> QED
    BY <1>1, <2>1, <2>2
<1>6. FoldTypes'
  BY <1>1, <1>2, <1>4 DEF FoldTypes
<1>7. InBitmap'
  <2>1. Fold!ZoneFree' /\ bitmap'.bits = Fold!Given'
    BY <1>1 DEF InBitmap, Fold!ZoneFree, Fold!Given
  <2>2. emitted' = emitted /\ run'.on
    BY <1>2, <1>4
  <2>3. at' - 1 = at + n - 1
    BY <1>1
  <2>4. /\ run'.lo < at' /\ run'.lo .. at' - 1 \subseteq bitmap'.bits
        /\ Folded(emitted', {a \in bitmap'.bits : a < run'.lo}, run'.lo)
    <3>1. PICK r : r = run'
      OBVIOUS
    <3>2. PICK m : m = at + n - 1
      OBVIOUS
    <3>3. /\ r.lo < at' /\ r.lo .. m \subseteq bitmap.bits
          /\ Folded(emitted', {a \in bitmap'.bits : a < r.lo}, r.lo)
      BY <1>5, <2>2, <3>1, <3>2
    <3> QED
      BY <2>3, <3>1, <3>2, <3>3, Zenon
  <2> QED
    BY <2>1, <2>2, <2>4 DEF InBitmap
<1>8. Fold!FoldsMinimal'
  BY DEF Fold!FoldsMinimal
<1> QED
  BY <1>6, <1>7, <1>8 DEF FoldInv

(* A word that begins below the end of the family ends within it. *)
LEMMA WordFits ==
  ASSUME NEW a \in Nat, a < 2^W, a % WordBits = 0
  PROVE  a + WordBits <= 2^W /\ WordBits \in Nat \ {0}
<1>1. PICK top \in Nat : top = 2^W
  BY WidthIs
<1>2. PICK u \in Nat \ {0} : u = WordBits /\ top % u = 0
  BY <1>1, WordAssumption
<1>3. PICK q \in Nat, m \in Nat : q = a \div u /\ m = top \div u
  BY <1>1, <1>2, Division
<1>4. a = q * u /\ top = m * u
  <2>1. a = ((a \div u) * u) + (a % u) /\ top = ((top \div u) * u) + (top % u)
    BY <1>1, <1>2, Division
  <2>2. PICK b \in Int, c \in Int : b = q * u /\ c = m * u
    BY <1>2, <1>3
  <2>3. a = b + 0 /\ top = c + 0
    BY <1>2, <1>3, <2>1, <2>2
  <2> QED
    BY <2>2, <2>3
<1>5. q < m
  <2> SUFFICES ASSUME ~(q < m) PROVE FALSE
    OBVIOUS
  <2>1. m = q \/ m < q
    BY <1>3
  <2>2. m < q => m * u + u <= q * u
    BY NextMultiple
  <2> QED
    BY <1>1, <1>2, <1>4, <2>1, <2>2
<1>6. q * u + u <= m * u
  BY <1>5, NextMultiple
<1> QED
  BY <1>1, <1>2, <1>4, <1>6

LEMMA FoldBitmapStep ==
  ASSUME FoldInv, Fold!FoldBitmap
  PROVE  FoldInv'
<1>1. /\ fpc = "bitmap" /\ at < 2^W /\ UNCHANGED <<v4, fpc, slice, bitmap, given>>
      /\ \/ /\ at % WordBits = 0 /\ (at .. at + WordBits - 1) \cap bitmap.bits = {}
            /\ Fold!Ends(at) /\ at' = at + WordBits
         \/ /\ at % WordBits = 0 /\ at .. at + WordBits - 1 \subseteq bitmap.bits
            /\ Fold!Full(at) /\ at' = at + WordBits
         \/ /\ IF at \in bitmap.bits THEN Fold!Full(at) ELSE Fold!Ends(at)
            /\ at' = at + 1
  BY DEF Fold!FoldBitmap
<1>2. at \in Nat /\ 2^W \in Nat /\ \A a \in bitmap.bits : a \in Nat
  BY <1>1, PlaceInBitmap
<1>3. CASE /\ at % WordBits = 0 /\ (at .. at + WordBits - 1) \cap bitmap.bits = {}
           /\ Fold!Ends(at) /\ at' = at + WordBits
  <2>1. at + WordBits <= 2^W /\ WordBits \in Nat \ {0}
    BY <1>1, <1>2, <1>3, WordFits
  <2>2. \A a \in bitmap.bits : ~(at <= a /\ a < at + WordBits)
    BY <1>2, <1>3, <2>1
  <2> QED
    BY <1>1, <1>3, <2>1, <2>2, EndsStep
<1>4. CASE /\ at % WordBits = 0 /\ at .. at + WordBits - 1 \subseteq bitmap.bits
           /\ Fold!Full(at) /\ at' = at + WordBits
  <2>1. at + WordBits <= 2^W /\ WordBits \in Nat \ {0}
    BY <1>1, <1>2, <1>4, WordFits
  <2> QED
    BY <1>1, <1>4, <2>1, FullStep
<1>5. CASE at \in bitmap.bits /\ Fold!Full(at) /\ at' = at + 1
  <2>1. at + 1 <= 2^W /\ at .. at + 1 - 1 \subseteq bitmap.bits /\ 1 \in Nat \ {0}
    BY <1>1, <1>2, <1>5
  <2> QED
    BY <1>1, <1>5, <2>1, FullStep
<1>6. CASE at \notin bitmap.bits /\ Fold!Ends(at) /\ at' = at + 1
  <2>1. at + 1 <= 2^W /\ 1 \in Nat \ {0}
    BY <1>1, <1>2
  <2>2. \A a \in bitmap.bits : ~(at <= a /\ a < at + 1)
    BY <1>2, <1>6
  <2> QED
    BY <1>1, <1>6, <2>1, <2>2, EndsStep
<1> QED
  BY <1>1, <1>3, <1>4, <1>5, <1>6

(* The last run, and with it the whole cover. *)
LEMMA FoldEndStep ==
  ASSUME FoldInv, Fold!FoldEnd
  PROVE  FoldInv'
<1>1. /\ \/ fpc = "slice" /\ at = Len(slice)
         \/ fpc = "bitmap" /\ at = 2^W
      /\ fpc' = "done" /\ UNCHANGED <<v4, slice, bitmap, at, run, given>>
      /\ emitted' = IF run.on
                    THEN emitted \o Fold!Cover(run.lo, IF fpc = "bitmap" THEN 2^W - 1 ELSE run.hi)
                    ELSE emitted
  BY SameNames DEF Fold!FoldEnd
<1>2. /\ Fold!Given' = Fold!Given /\ Fold!ZoneFree' = Fold!ZoneFree /\ Fold!Written' = Values(emitted')
      /\ Fold!Given = {y.ip : y \in Values(given)}
  <2>1. Fold!Given' = Fold!Given /\ Fold!ZoneFree' = Fold!ZoneFree
    BY <1>1 DEF Fold!Given, Fold!ZoneFree
  <2>2. Fold!Written' = Values(emitted')
    BY SameNames DEF Fold!Written
  <2> QED
    BY <2>1, <2>2, GivenIs
<1>3. ASSUME emitted' \in Seq(Blocks(W)), Covered(emitted') = Fold!Given,
             Fold!ZoneFree => Values(emitted') = LargestIn(Fold!Given, W) /\ Ascending(emitted')
      PROVE  FoldInv'
  <2>1. FoldTypes
    BY DEF FoldInv
  <2>2. FoldTypes'
    BY <1>1, <1>3, <2>1 DEF FoldTypes
  <2>3. Len(emitted') \in Nat /\ DOMAIN emitted' = 1 .. Len(emitted')
    BY <1>3
  <2>4. UNION {p.lo .. p.hi : p \in Fold!Written'} = Fold!Given'
    BY <1>2, <1>3 DEF Covered
  <2>5. Fold!ZoneFree' => /\ Fold!Written' = Fold!MinimalCover(Fold!Given')
                          /\ \A i, j \in DOMAIN emitted' : i < j => emitted'[i].hi < emitted'[j].lo
    BY <1>2, <1>3, <2>3, SameNames DEF Ascending
  <2>6. Fold!FoldsMinimal'
    <3>1. Fold!MinimalCover(Fold!Given)' = Fold!MinimalCover(Fold!Given')
      BY DEF Fold!MinimalCover, Fold!AllPrefixes, Fold!Addr, Fold!TopAddr, Fold!Prefix, Fold!Masked,
             Fold!lastAddr, Fold!lowMask
    <3> QED
      BY <2>4, <2>5, <3>1 DEF Fold!FoldsMinimal
  <2> QED
    BY <1>1, <2>2, <2>6 DEF FoldInv
<1>4. CASE fpc = "slice" /\ at = Len(slice)
  <2>1. /\ FoldTypes /\ InSlice /\ slice \in Seq(Item) /\ Len(slice) \in Nat /\ at \in Nat
        /\ run.on \in BOOLEAN /\ run.lo \in Numbers /\ run.hi \in Numbers
        /\ run.lo \in Nat /\ run.hi \in Nat /\ emitted \in Seq(Blocks(W))
        /\ Passed \in SUBSET Numbers
        /\ run.on => Passed = {a \in Passed : a < run.lo} \cup (run.lo .. run.hi)
    BY <1>4, PlaceInSlice
  <2>2. Passed = Fold!Given
    <3>1. Values(slice) = Values(given)
      BY <2>1 DEF InSlice
    <3>2. Passed \subseteq {y.ip : y \in Values(slice)}
      BY <1>4, <2>1, ValuesGrow DEF Passed
    <3>3. {y.ip : y \in Values(slice)} \subseteq Passed
      BY <1>4, <2>1, ValuesGrow DEF Passed
    <3> QED
      BY <1>2, <3>1, <3>2, <3>3
  <2>3. CASE run.on
    <3> DEFINE B == {a \in Passed : a < run.lo}
    <3>1. /\ run.lo <= run.hi /\ Covered(emitted) \cup (run.lo .. run.hi) = Passed
          /\ Fold!ZoneFree => Folded(emitted, B, run.lo)
      BY <2>1, <2>3 DEF InSlice
    <3>2. emitted' = emitted \o Fold!Cover(run.lo, run.hi)
      BY <1>1, <1>4, <2>3
    <3>3. emitted' \in Seq(Blocks(W)) /\ Covered(emitted') = Covered(emitted) \cup (run.lo .. run.hi)
      BY <2>1, <3>1, <3>2, EmissionCovers
    <3>4. B \in SUBSET Numbers /\ run.hi + 2 \in Int /\ run.hi + 1 < run.hi + 2
          /\ Passed = B \cup (run.lo .. run.hi)
      BY <2>1, <2>3
    <3> HIDE DEF B
    <3>5. ASSUME Fold!ZoneFree
          PROVE  Folded(emitted', Passed, run.hi + 2)
      <4>1. Folded(emitted \o Fold!Cover(run.lo, run.hi), B \cup (run.lo .. run.hi), run.hi + 2)
        BY <2>1, <3>1, <3>4, <3>5, Emission
      <4> QED
        BY <3>2, <3>4, <4>1
    <3> QED
      BY <1>3, <2>2, <3>1, <3>3, <3>5 DEF Folded
  <2>4. CASE ~run.on
    <3>1. emitted = <<>> /\ at = 0 /\ emitted' = <<>>
      BY <1>1, <2>1, <2>4 DEF InSlice
    <3>2. Passed = {}
      BY <3>1 DEF Passed
    <3>3. Covered(emitted') = {} /\ Values(emitted') = LargestIn({}, W) /\ Ascending(emitted')
      BY <3>1, FoldedNothing DEF Folded
    <3> QED
      BY <1>3, <2>1, <2>2, <3>1, <3>2, <3>3
  <2> QED
    BY <2>1, <2>3, <2>4
<1>5. CASE fpc = "bitmap" /\ at = 2^W
  <2>1. /\ FoldTypes /\ InBitmap /\ at \in Nat /\ 2^W \in Nat
        /\ run.on \in BOOLEAN /\ run.lo \in Numbers /\ run.lo \in Nat
        /\ emitted \in Seq(Blocks(W)) /\ bitmap.bits \in SUBSET Numbers
        /\ \A a \in bitmap.bits : a \in Nat /\ a < 2^W
    BY <1>5, PlaceInBitmap
  <2>2. bitmap.bits = Fold!Given
    BY <2>1 DEF InBitmap
  <2>3. ASSUME emitted' \in Seq(Blocks(W)), NEW e, Folded(emitted', bitmap.bits, e)
        PROVE  FoldInv'
    <3>1. Values(emitted') = LargestIn(Fold!Given, W) /\ Ascending(emitted')
      BY <2>2, <2>3 DEF Folded
    <3>2. Covered(emitted') = Fold!Given
      <4>1. Powers(W) /\ Fold!Given \in SUBSET (0 .. 2^W - 1)
        BY <2>1, <2>2, WidthIs DEF Numbers
      <4>2. \A p \in LargestIn(Fold!Given, W) : p \in Blocks(W) /\ p.lo .. p.hi \subseteq Fold!Given
        BY <4>1, LargestFill
      <4>3. \A a \in Fold!Given : \E p \in LargestIn(Fold!Given, W) : p.lo <= a /\ a <= p.hi
        BY <4>1, LargestFill
      <4>4. \A a \in Fold!Given : \E p \in LargestIn(Fold!Given, W) : a \in p.lo .. p.hi
        <5> SUFFICES ASSUME NEW a \in Fold!Given
                     PROVE  \E p \in LargestIn(Fold!Given, W) : a \in p.lo .. p.hi
          OBVIOUS
        <5>1. PICK p \in LargestIn(Fold!Given, W) : p.lo <= a /\ a <= p.hi
          BY <4>3
        <5>2. p.lo \in Nat /\ p.hi \in Nat /\ a \in Nat
          BY <2>1, <2>2, <4>1, <4>2, BlockOf
        <5>3. a \in p.lo .. p.hi
          BY <5>1, <5>2
        <5> QED
          BY <5>3
      <4> QED
        BY <3>1, <4>2, <4>4 DEF Covered
    <3> QED
      BY <1>3, <2>3, <3>1, <3>2
  <2>4. CASE run.on
    <3> DEFINE B == {a \in bitmap.bits : a < run.lo}
    <3>1. run.lo < at /\ run.lo .. at - 1 \subseteq bitmap.bits /\ Folded(emitted, B, run.lo)
      BY <2>1, <2>4 DEF InBitmap
    <3>2. emitted' = emitted \o Fold!Cover(run.lo, 2^W - 1)
      BY <1>1, <1>5, <2>4
    <3>3. /\ 2^W - 1 \in Numbers /\ run.lo <= 2^W - 1 /\ (2^W - 1) + 1 < 2^W + 1 /\ 2^W + 1 \in Int
          /\ B \in SUBSET Numbers /\ bitmap.bits = B \cup (run.lo .. 2^W - 1)
      BY <1>5, <2>1, <3>1 DEF Numbers
    <3> HIDE DEF B
    <3>4. Folded(emitted \o Fold!Cover(run.lo, 2^W - 1), B \cup (run.lo .. 2^W - 1), 2^W + 1)
      BY <2>1, <3>1, <3>3, Emission
    <3>5. emitted' \in Seq(Blocks(W))
      BY <2>1, <3>2, <3>3, EmissionCovers
    <3>6. Folded(emitted', bitmap.bits, 2^W + 1)
      BY <3>2, <3>3, <3>4
    <3> QED
      BY <2>3, <3>5, <3>6
  <2>5. CASE ~run.on
    <3>1. Folded(emitted, {a \in bitmap.bits : a < at}, at)
      BY <2>1, <2>5 DEF InBitmap
    <3>2. {a \in bitmap.bits : a < at} = bitmap.bits
      BY <1>5, <2>1
    <3>3. Folded(emitted', bitmap.bits, at) /\ emitted' \in Seq(Blocks(W))
      BY <1>1, <2>1, <2>5, <3>1, <3>2
    <3> QED
      BY <2>3, <3>3
  <2> QED
    BY <2>1, <2>4, <2>5
<1> QED
  BY <1>1, <1>4, <1>5
-----------------------------------------------------------------------------
(* Every step of ipfold keeps what holds of it. *)
LEMMA FoldStep ==
  ASSUME FoldInv, FoldInput \/ Fold!ReadFails \/ Fold!Fold \/ Fold!WriteFails, UnfoldTypes
  PROVE  FoldInv'
<1>1. ASSUME Fold!Type
      PROVE  FoldInv'
  <2>1. PICK ip \in Numbers, zone \in (IF v4 THEN {0} ELSE Zones) : Fold!Read([ip |-> ip, zone |-> zone])
    BY <1>1, SameNames DEF Fold!Type
  <2>2. PICK y : y = [ip |-> ip, zone |-> zone]
    OBVIOUS
  <2>3. y \in Item /\ (v4 => y.zone = 0)
    BY <2>2, InputAssumption DEF Item
  <2> QED
    BY <2>1, <2>2, <2>3, ReadStep
<1>2. ASSUME Transfer
      PROVE  FoldInv'
  <2>1. PICK y : y = [ip |-> written[Len(given) + 1], zone |-> 0]
    OBVIOUS
  <2>2. Len(given) < Len(written) /\ Fold!Read(y)
    BY <1>2, <2>1 DEF Transfer
  <2>3. written[Len(given) + 1] \in Numbers
    <3>1. written \in Seq(Numbers) /\ given \in Seq(Item)
      BY DEF UnfoldTypes, FoldInv, FoldTypes
    <3> QED
      BY <2>2, <3>1
  <2>4. y \in Item /\ y.zone = 0
    BY <2>1, <2>3, InputAssumption DEF Item
  <2> QED
    BY <2>2, <2>4, ReadStep
<1>3. ASSUME Fold!ReadFails \/ Fold!WriteFails
      PROVE  FoldInv'
  <2>1. fpc' = "failed" /\ UNCHANGED <<v4, slice, bitmap, at, run, emitted, given>>
    BY <1>3 DEF Fold!ReadFails, Fold!WriteFails
  <2>2. FoldTypes'
    BY <2>1 DEF FoldInv, FoldTypes
  <2>3. Fold!FoldsMinimal'
    BY <2>1 DEF Fold!FoldsMinimal
  <2> QED
    BY <2>1, <2>2, <2>3 DEF FoldInv
<1>4. ASSUME Fold!Fold
      PROVE  FoldInv'
  BY <1>4, FoldSliceStep, FoldBitmapStep, FoldEndStep DEF Fold!Fold
<1>5. ASSUME Fold!EndOfInput
      PROVE  FoldInv'
  BY <1>5, EndOfInputStep
<1> QED
  BY <1>1, <1>2, <1>3, <1>4, <1>5 DEF FoldInput

LEMMA FoldInit ==
  ASSUME Fold!Init
  PROVE  FoldInv
<1>1. /\ v4 \in BOOLEAN /\ fpc = "read" /\ slice = <<>> /\ bitmap = [made |-> FALSE, bits |-> {}]
      /\ at = 0 /\ run = Fold!NoRun /\ emitted = <<>> /\ given = <<>>
  BY DEF Fold!Init
<1>2. 0 \in Numbers /\ 0 \in Zones
  BY WidthIs, InputAssumption DEF Numbers
<1>3. FoldTypes
  BY <1>1, <1>2 DEF FoldTypes, Fold!NoRun
<1>4. Fold!ZoneFree
  <2>1. Values(<<>>) = {}
    BY FoldedNothing
  <2> QED
    BY <1>1, <2>1, GivenIs
<1>5. Collecting
  BY <1>1, <1>4 DEF Collecting
<1>6. Fold!FoldsMinimal
  BY <1>1 DEF Fold!FoldsMinimal
<1> QED
  BY <1>1, <1>3, <1>5, <1>6 DEF FoldInv

LEMMA FoldKept ==
  ASSUME FoldInv, UNCHANGED foldVars
  PROVE  FoldInv'
<1>1. UNCHANGED <<fpc, v4, slice, bitmap, at, run, emitted, given>>
  BY DEF foldVars
<1>2. /\ Fold!ZoneFree' = Fold!ZoneFree /\ Fold!Given' = Fold!Given /\ Passed' = Passed
      /\ Fold!Written' = Fold!Written
  BY <1>1 DEF Fold!ZoneFree, Fold!Given, Passed, Fold!Written
<1>3. FoldTypes'
  BY <1>1 DEF FoldInv, FoldTypes
<1>4. fpc' = "read" => Collecting'
  BY <1>1, <1>2 DEF FoldInv, Collecting, Fold!NoRun
<1>5. fpc' = "slice" => InSlice'
  BY <1>1, <1>2 DEF FoldInv, InSlice
<1>6. fpc' = "bitmap" => InBitmap'
  BY <1>1, <1>2 DEF FoldInv, InBitmap
<1>7. Fold!FoldsMinimal'
  <2>1. Fold!MinimalCover(Fold!Given)' = Fold!MinimalCover(Fold!Given)
    BY <1>2 DEF Fold!MinimalCover, Fold!AllPrefixes, Fold!Addr, Fold!TopAddr, Fold!Prefix, Fold!Masked,
                Fold!lastAddr, Fold!lowMask
  <2> QED
    BY <1>1, <1>2, <2>1 DEF FoldInv, Fold!FoldsMinimal
<1> QED
  BY <1>3, <1>4, <1>5, <1>6, <1>7 DEF FoldInv

(* What is read from the pipe is a beginning of what was written, all of it
   before it is folded. *)
LEMMA PipeStep ==
  ASSUME IpInv, Next
  PROVE  PipeInv'
<1>1. SUFFICES ASSUME piped'
               PROVE  PipeInv'
  BY DEF PipeInv
<1>2. piped /\ given \in Seq(Item) /\ written \in Seq(Numbers) /\ PipeInv /\ upc \in {"read", "expand", "done", "max", "failed"}
  BY <1>1 DEF IpInv, FoldInv, FoldTypes, UnfoldInv, UnfoldTypes, Next
<1>3. CASE Unfold!Next /\ UNCHANGED <<piped, foldVars>>
  <2>1. upc \in {"read", "expand"}
    BY <1>3 DEF Unfold!Next, Unfold!Line, Unfold!Write, Unfold!WriteFails, Unfold!EndOfInput
  <2>2. fpc = "read" /\ given = <<>> /\ fpc' = fpc /\ given' = given
    BY <1>2, <1>3, <2>1 DEF PipeInv, foldVars
  <2>3. UnfoldInv'
    BY <1>3, UnfoldStep DEF IpInv
  <2>4. Len(written') \in Nat /\ Len(<<>>) = 0
    BY <2>3 DEF UnfoldInv, UnfoldTypes
  <2> QED
    BY <2>2, <2>4 DEF PipeInv
<1>4. ASSUME FoldRuns, UNCHANGED <<piped, unfoldVars>>
      PROVE  upc \in {"done", "max", "failed"} /\ upc' = upc /\ written' = written
  BY <1>2, <1>4 DEF FoldRuns, unfoldVars
<1>5. CASE FoldRuns /\ Transfer /\ UNCHANGED <<piped, unfoldVars>>
  <2>1. PICK y : y = [ip |-> written[Len(given) + 1], zone |-> 0]
    OBVIOUS
  <2>2. Len(given) < Len(written) /\ fpc = "read" /\ given' = Append(given, y) /\ fpc' = fpc
    BY <1>5, <2>1 DEF Transfer, Fold!Read
  <2>3. /\ Len(given') = Len(given) + 1 /\ Len(given) \in Nat /\ Len(written) \in Nat
        /\ \A k \in 1 .. Len(given) : given'[k] = given[k]
        /\ given'[Len(given) + 1] = y
        /\ \A k \in 1 .. Len(given) + 1 : k \in 1 .. Len(given) \/ k = Len(given) + 1
    BY <1>2, <2>2
  <2>4. \A k \in 1 .. Len(given') : given'[k] = [ip |-> written[k], zone |-> 0]
    BY <1>2, <2>1, <2>3 DEF PipeInv
  <2> QED
    BY <1>4, <1>5, <2>2, <2>3, <2>4 DEF PipeInv
<1>6. CASE FoldRuns /\ PipeClosed /\ Fold!EndOfInput /\ UNCHANGED <<piped, unfoldVars>>
  <2>1. given' = given
    BY <1>6 DEF Fold!EndOfInput
  <2>2. upc # "failed" => Len(given) = Len(written)
    BY <1>6 DEF PipeClosed
  <2> QED
    BY <1>2, <1>4, <1>6, <2>1, <2>2 DEF PipeInv
<1>7. CASE FoldRuns /\ (Fold!ReadFails \/ Fold!Fold \/ Fold!WriteFails) /\ UNCHANGED <<piped, unfoldVars>>
  <2>1. given' = given /\ (fpc' = "failed" \/ fpc \in {"slice", "bitmap"})
    BY <1>7 DEF Fold!ReadFails, Fold!WriteFails, Fold!Fold, Fold!FoldSlice, Fold!FoldBitmap, Fold!FoldEnd
  <2> QED
    BY <1>2, <1>4, <1>7, <2>1 DEF PipeInv
<1> QED
  BY <1>1, <1>2, <1>3, <1>5, <1>6, <1>7 DEF Next, FoldInput

LEMMA PipeInit ==
  ASSUME Init
  PROVE  IpInv
<1>1. UnfoldInv /\ FoldInv
  BY UnfoldInit, FoldInit DEF Init
<1>2. written = <<>> /\ given = <<>> /\ fpc = "read"
  BY DEF Init, Unfold!Init, Fold!Init
<1>3. PipeInv
  BY <1>2 DEF PipeInv
<1> QED
  BY <1>1, <1>3 DEF IpInv

LEMMA IpStep ==
  ASSUME IpInv, [Next]_vars
  PROVE  IpInv'
<1>1. CASE Next
  <2>1. PipeInv'
    BY <1>1, PipeStep
  <2>2. CASE Unfold!Next /\ UNCHANGED <<piped, foldVars>>
    BY <2>1, <2>2, UnfoldStep, FoldKept DEF IpInv
  <2>3. CASE (FoldInput \/ Fold!ReadFails \/ Fold!Fold \/ Fold!WriteFails) /\ UNCHANGED <<piped, unfoldVars>>
    <3>1. UnfoldTypes
      BY DEF IpInv, UnfoldInv
    <3> QED
      BY <2>1, <2>3, <3>1, UnfoldKept, FoldStep DEF IpInv
  <2> QED
    BY <1>1, <2>2, <2>3 DEF Next
<1>2. CASE UNCHANGED vars
  <2>1. piped' = piped /\ UNCHANGED unfoldVars /\ UNCHANGED foldVars
    BY <1>2 DEF vars
  <2>2. UnfoldInv' /\ FoldInv'
    BY <2>1, UnfoldKept, FoldKept DEF IpInv
  <2>3. PipeInv'
    BY <2>1 DEF IpInv, PipeInv, unfoldVars, foldVars
  <2> QED
    BY <2>2, <2>3 DEF IpInv
<1> QED
  BY <1>1, <1>2

(* The invariant the results below follow from. *)
THEOREM IpInvariant == Spec => []IpInv
<1>1. Init => IpInv
  BY PipeInit
<1>2. IpInv /\ [Next]_vars => IpInv'
  BY IpStep
<1> QED
  BY <1>1, <1>2, PTL DEF Spec
-----------------------------------------------------------------------------
(* Between two lines, and whenever it ends other than by a failed write,
   ipunfold has written the expansion of the prefixes let through, whatever
   they are; it never passes -max, and what it reports when -max stops it is
   what it wrote. *)
THEOREM UnfoldCorrect == Spec => [](WritesExpansion /\ LimitKept)
<1>1. IpInv => WritesExpansion /\ LimitKept
  <2> SUFFICES ASSUME IpInv
               PROVE  WritesExpansion /\ LimitKept
    OBVIOUS
  <2>1. UnfoldTypes /\ SumKept /\ UnfoldStage
    BY DEF IpInv, UnfoldInv
  <2>2. max \in Nat /\ total \in Nat /\ count \in BOOLEAN /\ Len(written) \in Nat
    BY <2>1, InputAssumption DEF UnfoldTypes
  <2>3. WritesExpansion
    BY <2>1 DEF UnfoldStage, WritesExpansion, Unfold!WritesExpansion
  <2>4. CASE count
    <3>1. Len(written) = 0 /\ upc # "max"
      BY <2>1, <2>4 DEF UnfoldStage
    <3> QED
      BY <2>2, <2>3, <3>1 DEF LimitKept, Unfold!LimitKept
  <2>5. CASE ~count
    <3>1. /\ total = Len(Unfold!Expansion(taken)) /\ Len(written) <= total
          /\ max > 0 => total <= max
          /\ upc = "max" => written = Unfold!Expansion(taken)
      BY <2>1, <2>5 DEF SumKept, UnfoldStage
    <3> QED
      BY <2>2, <2>3, <3>1 DEF LimitKept, Unfold!LimitKept
  <2> QED
    BY <2>2, <2>4, <2>5
<1> QED
  BY <1>1, IpInvariant, PTL

(* What ipfold writes covers the addresses it was given exactly, and without
   zones it is their minimal cover, each prefix once and ascending: for any
   number of addresses in any order, from the slice or from the bitmap. *)
THEOREM FoldCorrect == Spec => []FoldsMinimal
<1>1. IpInv => FoldsMinimal
  BY DEF IpInv, FoldInv, FoldsMinimal
<1> QED
  BY <1>1, IpInvariant, PTL

(* Folding what was unfolded gives the minimal cover of the prefixes. *)
THEOREM PipeCorrect == Spec => []PipeInverse
<1>1. IpInv => PipeInverse
  <2> SUFFICES ASSUME IpInv, piped, fpc = "done"
               PROVE  /\ UNION {p.lo .. p.hi : p \in Fold!Written} \subseteq Asked(taken)
                      /\ upc \in {"done", "max"} /\ ~count => Fold!Written = Fold!MinimalCover(Asked(taken))
    BY DEF PipeInverse, Asked
  <2>1. /\ given \in Seq(Item) /\ written \in Seq(Numbers) /\ UnfoldStage
        /\ Fold!FoldsMinimal /\ PipeInv
    BY DEF IpInv, FoldInv, FoldTypes, UnfoldInv, UnfoldTypes
  <2>2. /\ Len(given) <= Len(written)
        /\ \A k \in 1 .. Len(given) : given[k] = [ip |-> written[k], zone |-> 0]
        /\ upc # "failed" => Len(given) = Len(written)
    BY <2>1 DEF PipeInv
  <2>3. Len(given) \in Nat /\ Len(written) \in Nat
    BY <2>1
  <2> DEFINE sent(k) == [ip |-> written[k], zone |-> 0]
  <2>4. \A k : sent(k).ip = written[k] /\ sent(k).zone = 0
    OBVIOUS
  <2>5. \A k \in 1 .. Len(given) : given[k] = sent(k)
    BY <2>2
  <2> HIDE DEF sent
  <2>6. \A k \in 1 .. Len(given) : given[k].ip = written[k] /\ given[k].zone = 0
    BY <2>4, <2>5
  <2>7. Fold!ZoneFree
    <3> SUFFICES ASSUME NEW y \in Values(given) PROVE y.zone = 0
      BY GivenIs
    <3>1. PICK k \in 1 .. Len(given) : given[k] = y
      BY <2>1, ValuesGrow
    <3> QED
      BY <2>6, <3>1
  <2>8. Fold!Given \subseteq Values(written)
    <3> SUFFICES ASSUME NEW a \in Fold!Given PROVE a \in Values(written)
      OBVIOUS
    <3>1. PICK y \in Values(given) : a = y.ip
      BY GivenIs
    <3>2. PICK k \in 1 .. Len(given) : given[k] = y
      BY <2>1, ValuesGrow
    <3>3. k \in 1 .. Len(written) /\ a = written[k]
      BY <2>2, <2>3, <2>6, <3>1, <3>2
    <3> QED
      BY <2>1, <3>3, ValuesGrow
  <2>9. upc # "failed" => Values(written) \subseteq Fold!Given
    <3> SUFFICES ASSUME upc # "failed", NEW a \in Values(written) PROVE a \in Fold!Given
      OBVIOUS
    <3>1. PICK k \in 1 .. Len(written) : written[k] = a
      BY <2>1, ValuesGrow
    <3>2. k \in 1 .. Len(given) /\ given[k].ip = a
      BY <2>2, <2>6, <3>1
    <3>3. given[k] \in Values(given)
      BY <2>1, <3>2, ValuesGrow
    <3> QED
      BY <3>2, <3>3, GivenIs
  <2>10. /\ UNION {p.lo .. p.hi : p \in Fold!Written} = Fold!Given
         /\ Fold!Written = Fold!MinimalCover(Fold!Given)
    BY <2>1, <2>7 DEF Fold!FoldsMinimal
  <2>11. Values(written) \subseteq Asked(taken)
    BY <2>1 DEF UnfoldStage
  <2>12. upc \in {"done", "max"} /\ ~count => Values(written) = Asked(taken)
    BY <2>1 DEF UnfoldStage
  <2>13. upc \in {"done", "max"} /\ ~count => Fold!Given = Asked(taken)
    BY <2>8, <2>9, <2>12
  <2> QED
    BY <2>8, <2>10, <2>11, <2>13
<1> QED
  BY <1>1, IpInvariant, PTL
-----------------------------------------------------------------------------
Line == Int \X Int \X Int

(* The lines each row of a feed is worth, and those of each feed. *)
RowLines ==
  [k \in 1 .. Len(feeds) |->
     [n \in 1 .. Len(feeds[k].rows) |-> IF Wanted(feeds[k].rows[n]) THEN Lines(k, n) ELSE <<>>]]
FeedLines == [k \in 1 .. Len(feeds) |-> SeqExt!FlattenSeq(RowLines[k])]

(* What the first k feeds are worth, and n rows of the next one. *)
UpTo(k, n) ==
  FlattenTo(FeedLines, k) \o IF k + 1 <= Len(feeds) THEN FlattenTo(RowLines[k + 1], n) ELSE <<>>

RunOK ==
  /\ tool \in Tools /\ country \in BOOLEAN /\ unrouted \in BOOLEAN
  /\ feeds \in Seq([rows : Seq(Rows), eof : BOOLEAN])
  /\ \A k \in 1 .. Len(feeds) : Len(feeds[k].rows) <= MaxRows
  /\ tool # geolite => feeds # <<>>

DataOK ==
  /\ feed \in 0 .. Len(feeds) + 1 /\ row \in 1 .. MaxRows + 1
  /\ feed \in 1 .. Len(feeds) => row <= Len(feeds[feed].rows) + 1
  /\ buf \in Seq(Line) /\ disk \in Seq(Line)
  /\ st \in [rows : 0 .. CounterMod - 1, prefixes : 0 .. CounterMod - 1,
             malformed : 0 .. CounterMod - 1, unrouted : 0 .. CounterMod - 1]

(* Before the rows, between them, and after them. *)
StageOK ==
  /\ pc \in {"open", "create", "convert", "flush", "done", "failed"}
  /\ pc = "create" => disk = Old /\ buf = <<>> /\ row = 1 /\ feed = IF tool = geolite THEN 0 ELSE 1
  /\ pc = "open" => disk = (IF tool = geolite THEN <<>> ELSE Old) /\ buf = <<>> /\ row = 1 /\ feed = 0
  /\ pc = "convert" => feed >= 1 /\ disk \o buf = UpTo(feed - 1, row - 1)
  /\ feed > Len(feeds) => row = 1
  /\ pc = "flush" => feed > Len(feeds) /\ disk \o buf = Whole
  /\ pc = "done" => feed > Len(feeds) /\ disk = Whole
  /\ pc = "failed" => disk = Old \/ Begins(disk, Whole, Line)
  /\ \A k \in 1 .. Len(feeds) : k < feed => feeds[k].eof
  /\ tool # geolite /\ feed = 0 => disk = Old

FeedInv == RunOK /\ DataOK /\ StageOK

(* A row is written exactly if it is one the tool should convert. *)
LEMMA WrittenIsWanted ==
  ASSUME RunOK, NEW r \in Rows
  PROVE  Verdict(r) = "write" <=> Wanted(r)
<1>1. /\ r.cols \in 0 .. 5 /\ r.broken \in BOOLEAN /\ r.addrs \in BOOLEAN /\ r.blocks \in Nat
      /\ r.assigned \in BOOLEAN /\ r.asn \in {"set", "zero", "bad"}
  BY RowAssumption
<1>2. tool \in {iptoasn, dbip, geolite}
  BY ToolAssumption DEF RunOK
<1>3. CASE tool = iptoasn
  BY <1>1, <1>3 DEF Verdict, Wanted, iptoasnVerdict, RunOK, iptoasn, dbip, geolite
<1>4. CASE tool = dbip
  BY <1>1, <1>4 DEF Verdict, Wanted, dbipVerdict, RunOK, iptoasn, dbip, geolite
<1>5. CASE tool = geolite
  BY <1>1, <1>5 DEF Verdict, Wanted, geoliteVerdict, RunOK, iptoasn, dbip, geolite
<1> QED
  BY <1>2, <1>3, <1>4, <1>5

LEMMA LinesType ==
  ASSUME RunOK, NEW k \in 1 .. Len(feeds)
  PROVE  /\ feeds[k].rows \in Seq(Rows) /\ Len(feeds[k].rows) \in Nat /\ feeds[k].eof \in BOOLEAN
         /\ \A n \in 1 .. Len(feeds[k].rows) : feeds[k].rows[n] \in Rows /\ Lines(k, n) \in Seq(Line)
         /\ RowLines[k] \in Seq(Seq(Line)) /\ Len(RowLines[k]) = Len(feeds[k].rows)
<1>1. feeds[k] \in [rows : Seq(Rows), eof : BOOLEAN]
  <2>1. feeds \in Seq([rows : Seq(Rows), eof : BOOLEAN])
    BY DEF RunOK
  <2> QED
    BY <2>1, ElementOfSeq
<1>2. feeds[k].rows \in Seq(Rows) /\ Len(feeds[k].rows) \in Nat /\ feeds[k].eof \in BOOLEAN
  BY <1>1
<1>3. ASSUME NEW n \in 1 .. Len(feeds[k].rows)
      PROVE  feeds[k].rows[n] \in Rows /\ Lines(k, n) \in Seq(Line)
  <2>1. feeds[k].rows[n] \in Rows
    BY <1>2, <1>3
  <2>2. feeds[k].rows[n].blocks \in Nat
    BY <2>1, RowAssumption
  <2>3. PICK m \in Nat : m = IF tool = geolite THEN 1 ELSE feeds[k].rows[n].blocks
    BY <2>2
  <2>4. \A j \in 1 .. m : <<k, n, j>> \in Line
    BY <1>2 DEF Line, RunOK
  <2>5. [j \in 1 .. m |-> <<k, n, j>>] \in [1 .. m -> Line]
    BY <2>4
  <2>6. [j \in 1 .. m |-> <<k, n, j>>] \in Seq(Line)
    BY <2>5, MakeSeq
  <2>7. Lines(k, n) = [j \in 1 .. m |-> <<k, n, j>>]
    BY <2>3 DEF Lines
  <2> QED
    BY <2>1, <2>6, <2>7
<1>4. \A n \in 1 .. Len(feeds[k].rows) :
        (IF Wanted(feeds[k].rows[n]) THEN Lines(k, n) ELSE <<>>) \in Seq(Line)
  BY <1>3
<1>5. RowLines[k] \in [1 .. Len(feeds[k].rows) -> Seq(Line)]
  BY <1>4 DEF RowLines
<1>6. RowLines[k] \in Seq(Seq(Line)) /\ Len(RowLines[k]) = Len(feeds[k].rows)
  BY <1>2, <1>5, MakeSeq
<1> QED
  BY <1>2, <1>3, <1>6

LEMMA FeedLinesType ==
  ASSUME RunOK
  PROVE  FeedLines \in Seq(Seq(Line)) /\ Len(FeedLines) = Len(feeds) /\ Len(feeds) \in Nat
<1>1. Len(feeds) \in Nat
  BY DEF RunOK
<1>2. \A k \in 1 .. Len(feeds) : SeqExt!FlattenSeq(RowLines[k]) \in Seq(Line)
  <2> TAKE k \in 1 .. Len(feeds)
  <2>1. RowLines[k] \in Seq(Seq(Line))
    BY LinesType
  <2> QED
    BY <2>1, FlattenType
<1>3. FeedLines \in [1 .. Len(feeds) -> Seq(Line)]
  BY <1>2 DEF FeedLines
<1> QED
  BY <1>1, <1>3, MakeSeq

(* The lines of all feeds, in the terms of the lemmas. *)
LEMMA WholeIs ==
  Whole = SeqExt!FlattenSeq(FeedLines)
<1>1. FeedLines = [k \in 1 .. Len(feeds) |->
                     SeqExt!FlattenSeq([n \in 1 .. Len(feeds[k].rows) |->
                       IF Wanted(feeds[k].rows[n]) THEN Lines(k, n) ELSE <<>>])]
  BY DEF FeedLines, RowLines
<1> QED
  BY <1>1 DEF Whole

LEMMA UpToStart ==
  ASSUME RunOK
  PROVE  UpTo(0, 0) = <<>>
<1>1. FlattenTo(FeedLines, 0) = <<>>
  BY FeedLinesType, FlattenStep
<1>2. ASSUME 0 + 1 <= Len(feeds)
      PROVE  FlattenTo(RowLines[0 + 1], 0) = <<>>
  <2>1. 0 + 1 \in 1 .. Len(feeds)
    BY <1>2, FeedLinesType
  <2>2. RowLines[0 + 1] \in Seq(Seq(Line)) /\ Len(RowLines[0 + 1]) \in Nat
    BY <2>1, LinesType
  <2> QED
    BY <2>2, FlattenStep
<1> QED
  BY <1>1, <1>2 DEF UpTo

(* One row more. *)
LEMMA UpToNextRow ==
  ASSUME RunOK, NEW k \in 1 .. Len(feeds), NEW n \in 1 .. Len(feeds[k].rows)
  PROVE  /\ UpTo(k - 1, n - 1) \in Seq(Line)
         /\ UpTo(k - 1, n) = UpTo(k - 1, n - 1) \o IF Wanted(feeds[k].rows[n]) THEN Lines(k, n) ELSE <<>>
<1>1. /\ k - 1 \in Nat /\ (k - 1) + 1 = k /\ k <= Len(feeds) /\ k - 1 <= Len(feeds)
      /\ Len(feeds[k].rows) \in Nat /\ n - 1 \in Nat /\ (n - 1) + 1 = n
      /\ n - 1 < Len(feeds[k].rows) /\ n - 1 <= Len(feeds[k].rows)
  BY LinesType, FeedLinesType
<1>2. RowLines[k] \in Seq(Seq(Line)) /\ Len(RowLines[k]) = Len(feeds[k].rows)
  BY LinesType
<1>3. FlattenTo(FeedLines, k - 1) \in Seq(Line)
  BY <1>1, FeedLinesType, FlattenStep
<1>4. FlattenTo(RowLines[k], n - 1) \in Seq(Line)
  BY <1>1, <1>2, FlattenStep
<1>5. FlattenTo(RowLines[k], (n - 1) + 1) = FlattenTo(RowLines[k], n - 1) \o RowLines[k][(n - 1) + 1]
  BY <1>1, <1>2, FlattenStep
<1>6. RowLines[k][n] = IF Wanted(feeds[k].rows[n]) THEN Lines(k, n) ELSE <<>>
  BY DEF RowLines
<1>7. RowLines[k][n] \in Seq(Line)
  BY <1>2
<1>8. /\ UpTo(k - 1, n - 1) = FlattenTo(FeedLines, k - 1) \o FlattenTo(RowLines[k], n - 1)
      /\ UpTo(k - 1, n) = FlattenTo(FeedLines, k - 1) \o FlattenTo(RowLines[k], n)
  BY <1>1 DEF UpTo
<1>9. UpTo(k - 1, n) = UpTo(k - 1, n - 1) \o RowLines[k][n]
  <2>1. FlattenTo(RowLines[k], n) = FlattenTo(RowLines[k], n - 1) \o RowLines[k][n]
    BY <1>1, <1>5
  <2>2. (FlattenTo(FeedLines, k - 1) \o FlattenTo(RowLines[k], n - 1)) \o RowLines[k][n]
          = FlattenTo(FeedLines, k - 1) \o (FlattenTo(RowLines[k], n - 1) \o RowLines[k][n])
    <3>1. PICK s \in Seq(Line) : s = FlattenTo(FeedLines, k - 1)
      BY <1>3
    <3>2. PICK t \in Seq(Line) : t = FlattenTo(RowLines[k], n - 1)
      BY <1>4
    <3>3. PICK u \in Seq(Line) : u = RowLines[k][n]
      BY <1>7
    <3>4. (s \o t) \o u = s \o (t \o u)
      BY ConcatAssoc, SMTT(30)
    <3> QED
      BY <3>1, <3>2, <3>3, <3>4
  <2> QED
    BY <1>8, <2>1, <2>2, Zenon
<1>10. UpTo(k - 1, n - 1) \in Seq(Line)
  BY <1>3, <1>4, <1>8, ConcatAssoc, Zenon
<1> QED
  BY <1>6, <1>9, <1>10, Zenon

(* A feed read to its end, and all of them. *)
LEMMA UpToNextFeed ==
  ASSUME RunOK, NEW k \in 1 .. Len(feeds)
  PROVE  UpTo(k, 0) = UpTo(k - 1, Len(feeds[k].rows))
<1>1. /\ k - 1 \in Nat /\ (k - 1) + 1 = k /\ k <= Len(feeds) /\ k - 1 < Len(feeds) /\ k \in Nat
      /\ k - 1 <= Len(feeds) /\ Len(feeds[k].rows) \in Nat
  BY LinesType, FeedLinesType
<1>2. RowLines[k] \in Seq(Seq(Line)) /\ Len(RowLines[k]) = Len(feeds[k].rows)
  BY LinesType
<1>3. FlattenTo(RowLines[k], Len(feeds[k].rows)) = FeedLines[k]
  <2>1. FlattenTo(RowLines[k], Len(feeds[k].rows)) = SeqExt!FlattenSeq(RowLines[k])
    BY <1>1, <1>2, FlattenStep
  <2> QED
    BY <2>1 DEF FeedLines
<1>4. FlattenTo(FeedLines, (k - 1) + 1) = FlattenTo(FeedLines, k - 1) \o FeedLines[(k - 1) + 1]
  BY <1>1, FeedLinesType, FlattenStep
<1>5. FlattenTo(FeedLines, k) \in Seq(Line)
  BY <1>1, FeedLinesType, FlattenStep
<1>6. UpTo(k - 1, Len(feeds[k].rows)) = FlattenTo(FeedLines, k)
  BY <1>1, <1>3, <1>4 DEF UpTo
<1>7. UpTo(k, 0) = FlattenTo(FeedLines, k)
  <2>1. ASSUME k + 1 <= Len(feeds)
        PROVE  FlattenTo(RowLines[k + 1], 0) = <<>>
    <3>1. k + 1 \in 1 .. Len(feeds)
      BY <1>1, <2>1, FeedLinesType
    <3>2. RowLines[k + 1] \in Seq(Seq(Line)) /\ Len(RowLines[k + 1]) \in Nat
      BY <3>1, LinesType
    <3> QED
      BY <3>2, FlattenStep
  <2>2. UpTo(k, 0) = FlattenTo(FeedLines, k) \o <<>>
    BY <2>1 DEF UpTo
  <2> QED
    BY <1>5, <2>2
<1> QED
  BY <1>6, <1>7

LEMMA UpToEnd ==
  ASSUME RunOK
  PROVE  /\ UpTo(Len(feeds), 0) = Whole
         /\ Whole \in Seq(Line)
<1>1. /\ FlattenTo(FeedLines, Len(feeds)) = SeqExt!FlattenSeq(FeedLines)
      /\ FlattenTo(FeedLines, Len(feeds)) \in Seq(Line)
  BY FeedLinesType, FlattenStep
<1>2. ~(Len(feeds) + 1 <= Len(feeds))
  BY FeedLinesType
<1>3. UpTo(Len(feeds), 0) = FlattenTo(FeedLines, Len(feeds)) \o <<>>
  BY <1>2 DEF UpTo
<1> QED
  BY <1>1, <1>3, WholeIs

LEMMA LinesAssoc ==
  ASSUME NEW s \in Seq(Line), NEW t \in Seq(Line), NEW u \in Seq(Line)
  PROVE  (s \o t) \o u = s \o (t \o u)
BY ConcatAssoc, SMTT(30)

(* Whatever was read is a beginning. *)
LEMMA UpToBegins ==
  ASSUME RunOK, NEW k \in 1 .. Len(feeds), NEW n \in 0 .. Len(feeds[k].rows)
  PROVE  /\ UpTo(k - 1, n) \in Seq(Line)
         /\ Begins(UpTo(k - 1, n), Whole, Line)
<1>1. /\ k - 1 \in Nat /\ (k - 1) + 1 = k /\ k <= Len(feeds) /\ k - 1 < Len(feeds) /\ k \in Nat
      /\ k - 1 <= Len(feeds) /\ Len(feeds[k].rows) \in Nat /\ n \in Nat /\ n <= Len(feeds[k].rows)
  BY LinesType, FeedLinesType
<1>2. RowLines[k] \in Seq(Seq(Line)) /\ Len(RowLines[k]) = Len(feeds[k].rows)
  BY LinesType
<1>3. /\ FlattenTo(FeedLines, k - 1) \in Seq(Line)
      /\ FlattenTo(RowLines[k], n) \in Seq(Line)
  <2>1. FlattenTo(FeedLines, k - 1) \in Seq(Line)
    BY <1>1, FeedLinesType, FlattenStep
  <2>2. FlattenTo(RowLines[k], n) \in Seq(Line)
    BY <1>1, <1>2, FlattenStep
  <2> QED
    BY <2>1, <2>2
<1>4. UpTo(k - 1, n) = FlattenTo(FeedLines, k - 1) \o FlattenTo(RowLines[k], n)
  BY <1>1 DEF UpTo
<1>5. PICK c \in Seq(Line) : FeedLines[k] = FlattenTo(RowLines[k], n) \o c
  <2>1. Begins(FlattenTo(RowLines[k], n), SeqExt!FlattenSeq(RowLines[k]), Line)
    BY <1>1, <1>2, FlattenBegins
  <2>2. FeedLines[k] = SeqExt!FlattenSeq(RowLines[k])
    BY DEF FeedLines
  <2> QED
    BY <2>1, <2>2 DEF Begins
<1>6. FlattenTo(FeedLines, (k - 1) + 1) = FlattenTo(FeedLines, k - 1) \o FeedLines[(k - 1) + 1]
  BY <1>1, FeedLinesType, FlattenStep
<1>7. FlattenTo(FeedLines, k) = UpTo(k - 1, n) \o c
  <2>1. FlattenTo(FeedLines, k) = FlattenTo(FeedLines, k - 1) \o (FlattenTo(RowLines[k], n) \o c)
    BY <1>1, <1>5, <1>6
  <2>2. (FlattenTo(FeedLines, k - 1) \o FlattenTo(RowLines[k], n)) \o c
          = FlattenTo(FeedLines, k - 1) \o (FlattenTo(RowLines[k], n) \o c)
    BY <1>3, <1>5, LinesAssoc, Zenon
  <2> QED
    BY <1>4, <2>1, <2>2, Zenon
<1>8. UpTo(k - 1, n) \in Seq(Line)
  BY <1>3, <1>4, <1>5, ConcatAssoc, ZenonT(30)
<1>9. FlattenTo(FeedLines, k) \in Seq(Line) /\ Begins(FlattenTo(FeedLines, k), Whole, Line)
  <2>1. FlattenTo(FeedLines, k) \in Seq(Line)
    BY <1>1, FeedLinesType, FlattenStep
  <2>2. Begins(FlattenTo(FeedLines, k), SeqExt!FlattenSeq(FeedLines), Line)
    BY <1>1, FeedLinesType, FlattenBegins
  <2> QED
    BY <2>1, <2>2, WholeIs
<1>10. Begins(UpTo(k - 1, n), FlattenTo(FeedLines, k), Line)
  BY <1>7 DEF Begins
<1> QED
  BY <1>8, <1>9, <1>10, UpToEnd, BeginsTrans

(* The command and its feeds stay as they are. *)
LEMMA RunKept ==
  ASSUME RunOK, UNCHANGED setting
  PROVE  /\ RunOK' /\ Whole' = Whole
         /\ UpTo(feed - 1, row - 1)' = UpTo(feed' - 1, row' - 1)
<1>1. RunOK'
  BY DEF RunOK, setting
<1>2. Whole' = Whole
  BY DEF Whole, Wanted, Lines, setting
<1>3. RowLines' = RowLines
  BY DEF RowLines, Wanted, Lines, setting
<1>4. FeedLines' = FeedLines
  BY <1>3 DEF FeedLines, setting
<1>5. feeds' = feeds
  BY DEF setting
<1>6. UpTo(feed - 1, row - 1)' = UpTo(feed' - 1, row' - 1)
  BY <1>3, <1>4, <1>5 DEF UpTo
<1> QED
  BY <1>1, <1>2, <1>6

LEMMA FeedInvInit ==
  ASSUME FeedInit
  PROVE  FeedInv
<1>1. ASSUME NEW T, NEW m \in Nat, NEW s \in SeqExt!BoundedSeq(T, m)
      PROVE  s \in Seq(T) /\ Len(s) <= m
  <2>1. PICK k \in 0 .. m : s \in [1 .. k -> T]
    BY <1>1 DEF SeqExt!BoundedSeq, SeqExt!SeqOf
  <2> QED
    BY <2>1
<1>2. feeds \in Seq(Feed) /\ (tool # geolite => feeds # <<>>)
  <2>1. CASE tool = geolite
    BY <1>1, <2>1, CounterAssumption DEF FeedInit
  <2>2. CASE tool # geolite
    <3>1. feeds \in SeqExt!BoundedSeq(Feed, 1) /\ feeds # <<>>
      BY <2>2 DEF FeedInit
    <3> QED
      BY <1>1, <3>1
  <2> QED
    BY <2>1, <2>2
<1>3. \A k \in 1 .. Len(feeds) : feeds[k] \in Feed
  BY <1>2, ElementOfSeq
<1>4. \A r \in Feed : r \in [rows : Seq(Rows), eof : BOOLEAN] /\ Len(r.rows) <= MaxRows
  <2> TAKE r \in Feed
  <2>1. r.rows \in Seq(Rows) /\ Len(r.rows) <= MaxRows
    BY <1>1, CounterAssumption DEF Feed
  <2>2. r = [rows |-> r.rows, eof |-> r.eof] /\ r.eof \in BOOLEAN
    BY DEF Feed
  <2> QED
    BY <2>1, <2>2
<1>5. RunOK
  <2>1. feeds \in Seq([rows : Seq(Rows), eof : BOOLEAN])
    BY <1>2, <1>4, SeqWider
  <2>2. tool \in Tools /\ country \in BOOLEAN /\ unrouted \in BOOLEAN
    BY DEF FeedInit
  <2> QED
    BY <1>2, <1>3, <1>4, <2>1, <2>2 DEF RunOK
<1>6. Len(feeds) \in Nat
  BY <1>2
<1>7. <<0, 0, 0>> \in Line /\ Old \in Seq(Line) /\ <<>> \in Seq(Line)
  BY DEF Line, Old
<1>8. DataOK
  <2>1. st \in [rows : 0 .. CounterMod - 1, prefixes : 0 .. CounterMod - 1,
                malformed : 0 .. CounterMod - 1, unrouted : 0 .. CounterMod - 1]
    BY CounterAssumption DEF FeedInit
  <2>2. feed = 0 /\ row = 1 /\ buf = <<>> /\ disk = Old
    BY DEF FeedInit
  <2> QED
    BY <1>6, <1>7, <2>1, <2>2, CounterAssumption DEF DataOK
<1>9. StageOK
  <2>1. feed = 0 /\ row = 1 /\ buf = <<>> /\ disk = Old /\ pc = IF tool = geolite THEN "create" ELSE "open"
    BY DEF FeedInit, First
  <2> QED
    BY <1>6, <2>1 DEF StageOK
<1> QED
  BY <1>5, <1>8, <1>9 DEF FeedInv

(* A failure leaves the old file, or a beginning of what the feeds are worth. *)
LEMMA FailStep ==
  ASSUME FeedInv, Fail, disk' \in Seq(Line), disk' = Old \/ Begins(disk', Whole, Line),
         tool # geolite /\ feed = 0 => disk' = Old
  PROVE  FeedInv'
<1>1. /\ pc' = "failed" /\ UNCHANGED setting /\ feed' = feed /\ row' = row /\ buf' = buf /\ st' = st
      /\ tool' = tool /\ feeds' = feeds
  BY DEF Fail, setting
<1>2. RunOK' /\ Whole' = Whole
  BY <1>1, RunKept DEF FeedInv
<1>3. DataOK'
  BY <1>1 DEF FeedInv, DataOK
<1>4. StageOK'
  BY <1>1, <1>2 DEF FeedInv, StageOK
<1> QED
  BY <1>2, <1>3, <1>4 DEF FeedInv

LEMMA OpenStep ==
  ASSUME FeedInv, Open
  PROVE  FeedInv'
<1>1. pc = "open" /\ disk' = disk /\ disk = (IF tool = geolite THEN <<>> ELSE Old) /\ buf = <<>> /\ row = 1 /\ feed = 0
  BY DEF FeedInv, StageOK, Open
<1>2. CASE Fail
  <2>1. tool = geolite => Begins(disk, Whole, Line)
    <3>1. Whole \in Seq(Line) /\ <<>> \o Whole = Whole
      BY UpToEnd DEF FeedInv
    <3> QED
      BY <1>1, <3>1 DEF Begins
  <2>2. disk' \in Seq(Line)
    BY <1>1 DEF FeedInv, DataOK
  <2> QED
    BY <1>1, <1>2, <2>1, <2>2, FailStep
<1>3. CASE ~Fail
  <2>1. /\ pc' = IF tool = geolite THEN "convert" ELSE "create"
        /\ feed' = 1 /\ UNCHANGED setting /\ row' = row /\ buf' = buf /\ st' = st /\ tool' = tool /\ feeds' = feeds
    BY <1>3 DEF Open, setting
  <2>2. RunOK' /\ Whole' = Whole /\ UpTo(feed - 1, row - 1)' = UpTo(feed' - 1, row' - 1) /\ UpTo(0, 0) = <<>>
    BY <2>1, RunKept, UpToStart DEF FeedInv
  <2>3. Len(feeds) \in Nat /\ (tool # geolite => Len(feeds) # 0)
    BY DEF FeedInv, RunOK
  <2>4. 1 \in 1 .. Len(feeds) => Len(feeds[1].rows) \in Nat
    BY LinesType DEF FeedInv
  <2>5. DataOK'
    BY <1>1, <2>1, <2>3, <2>4, CounterAssumption DEF FeedInv, DataOK
  <2>6. <<>> \o <<>> = <<>> /\ 1 - 1 = 0
    OBVIOUS
  <2>7. disk' \o buf' = UpTo(feed - 1, row - 1)' \/ tool # geolite
    BY <1>1, <2>1, <2>2, <2>6
  <2>8. StageOK'
    BY <1>1, <2>1, <2>3, <2>7 DEF FeedInv, StageOK
  <2> QED
    BY <2>2, <2>5, <2>8 DEF FeedInv
<1> QED
  BY <1>2, <1>3

LEMMA CreateStep ==
  ASSUME FeedInv, Create
  PROVE  FeedInv'
<1>1. pc = "create" /\ disk = Old /\ buf = <<>> /\ row = 1 /\ feed = IF tool = geolite THEN 0 ELSE 1
  BY DEF FeedInv, StageOK, Create
<1>2. CASE Fail /\ disk' = disk
  <2>1. disk' \in Seq(Line)
    BY <1>2 DEF FeedInv, DataOK
  <2> QED
    BY <1>1, <1>2, <2>1, FailStep
<1>3. CASE ~(Fail /\ disk' = disk)
  <2>1. /\ pc' = IF tool = geolite THEN "open" ELSE "convert"
        /\ disk' = <<>> /\ UNCHANGED setting /\ feed' = feed /\ row' = row /\ buf' = buf /\ st' = st /\ tool' = tool /\ feeds' = feeds
    BY <1>3 DEF Create, setting
  <2>2. RunOK' /\ Whole' = Whole /\ UpTo(feed - 1, row - 1)' = UpTo(feed' - 1, row' - 1) /\ UpTo(0, 0) = <<>>
    BY <2>1, RunKept, UpToStart DEF FeedInv
  <2>3. Len(feeds) \in Nat /\ (tool # geolite => Len(feeds) # 0) /\ <<>> \in Seq(Line)
    BY DEF FeedInv, RunOK
  <2>4. DataOK'
    BY <2>1, <2>3 DEF FeedInv, DataOK
  <2>5. <<>> \o <<>> = <<>> /\ 1 - 1 = 0
    OBVIOUS
  <2>6. disk' \o buf' = UpTo(feed - 1, row - 1)' \/ tool = geolite
    BY <1>1, <2>1, <2>2, <2>5
  <2>7. StageOK'
    BY <1>1, <2>1, <2>3, <2>6 DEF FeedInv, StageOK
  <2> QED
    BY <2>2, <2>4, <2>7 DEF FeedInv
<1> QED
  BY <1>2, <1>3

LEMMA PlusType ==
  ASSUME NEW n \in Nat, NEW k \in Nat
  PROVE  Plus(n, k) \in 0 .. CounterMod - 1
<1>1. n + k \in Nat
  OBVIOUS
<1> QED
  BY <1>1, CounterAssumption, Division DEF Plus

(* At a row that is to be read. *)
LEMMA AtRow ==
  ASSUME FeedInv, Reading, row <= Len(feeds[feed].rows)
  PROVE  /\ feed \in 1 .. Len(feeds) /\ row \in 1 .. Len(feeds[feed].rows) /\ feed \in Nat /\ row \in Nat
         /\ Row \in Rows /\ Lines(feed, row) \in Seq(Line) /\ Len(feeds[feed].rows) <= MaxRows
         /\ disk \o buf \in Seq(Line)
         /\ UpTo(feed - 1, row) = (disk \o buf) \o IF Verdict(Row) = "write" THEN Lines(feed, row) ELSE <<>>
<1>1. feed \in 1 .. Len(feeds) /\ disk \o buf = UpTo(feed - 1, row - 1) /\ feed \in Nat
  <2>1. pc = "convert" /\ feed <= Len(feeds) /\ feed \in 0 .. Len(feeds) + 1
    BY DEF FeedInv, DataOK, Reading
  <2>2. feed >= 1 /\ disk \o buf = UpTo(feed - 1, row - 1)
    BY <2>1 DEF FeedInv, StageOK
  <2>3. Len(feeds) \in Nat
    BY DEF FeedInv, RunOK
  <2> QED
    BY <2>1, <2>2, <2>3
<1>2. RunOK /\ Len(feeds[feed].rows) <= MaxRows /\ Len(feeds[feed].rows) \in Nat
  <2>1. RunOK
    BY DEF FeedInv
  <2> QED
    BY <1>1, <2>1, LinesType DEF RunOK
<1>3. row \in 1 .. Len(feeds[feed].rows) /\ row \in Nat
  BY <1>2, CounterAssumption DEF FeedInv, DataOK
<1>4. Row \in Rows /\ Lines(feed, row) \in Seq(Line)
  BY <1>1, <1>2, <1>3, LinesType DEF Row
<1>5. Verdict(Row) = "write" <=> Wanted(feeds[feed].rows[row])
  BY <1>2, <1>4, WrittenIsWanted DEF Row
<1>6. /\ UpTo(feed - 1, row - 1) \in Seq(Line)
      /\ UpTo(feed - 1, row) = UpTo(feed - 1, row - 1) \o IF Wanted(feeds[feed].rows[row]) THEN Lines(feed, row) ELSE <<>>
  BY <1>1, <1>2, <1>3, UpToNextRow
<1> QED
  BY <1>1, <1>2, <1>3, <1>4, <1>5, <1>6

(* The next row, when all it is worth is on its way. *)
LEMMA NextRow ==
  ASSUME FeedInv, Reading, row <= Len(feeds[feed].rows), UNCHANGED <<setting, pc, feed>>, row' = row + 1,
         buf' \in Seq(Line), disk' \in Seq(Line), disk' \o buf' = UpTo(feed - 1, row),
         st' \in [rows : 0 .. CounterMod - 1, prefixes : 0 .. CounterMod - 1,
                  malformed : 0 .. CounterMod - 1, unrouted : 0 .. CounterMod - 1]
  PROVE  FeedInv'
<1>1. feed \in 1 .. Len(feeds) /\ row \in 1 .. Len(feeds[feed].rows) /\ Len(feeds[feed].rows) <= MaxRows /\ feed \in Nat /\ row \in Nat
  BY AtRow
<1>2. feeds' = feeds /\ tool' = tool /\ pc' = pc /\ feed' = feed /\ row' = row + 1 /\ pc = "convert" /\ UNCHANGED setting
  BY DEF setting, Reading
<1>3. RunOK' /\ Whole' = Whole /\ UpTo(feed - 1, row - 1)' = UpTo(feed' - 1, row' - 1)
  BY <1>2, RunKept DEF FeedInv
<1>4. Len(feeds[feed].rows) \in Nat /\ Len(feeds) \in Nat
  BY <1>1, LinesType DEF FeedInv, RunOK
<1>5. (row + 1) - 1 = row
  BY <1>1
<1>6. disk' \o buf' = UpTo(feed - 1, row - 1)'
  BY <1>2, <1>3, <1>5
<1>7. DataOK'
  <2>1. feed \in 0 .. Len(feeds) + 1 /\ row + 1 \in 1 .. MaxRows + 1 /\ row + 1 <= Len(feeds[feed].rows) + 1
    BY <1>1, <1>4, CounterAssumption, SMTT(30)
  <2> QED
    BY <1>2, <2>1, Zenon DEF DataOK
<1>8. StageOK'
  <2>1. feed >= 1 /\ ~(feed > Len(feeds)) /\ feed # 0
    BY <1>1, <1>4
  <2>2. \A k \in 1 .. Len(feeds) : k < feed => feeds[k].eof
    BY DEF FeedInv, StageOK
  <2>3. (feed >= 1 /\ disk \o buf = UpTo(feed - 1, row - 1))'
    BY <1>2, <1>6, <2>1
  <2>4. (pc = "convert" /\ ~(feed > Len(feeds)) /\ feed # 0)'
    BY <1>2, <2>1
  <2>5. (\A k \in 1 .. Len(feeds) : k < feed => feeds[k].eof)'
    BY <1>2, <2>2
  <2> QED
    BY <2>3, <2>4, <2>5 DEF StageOK
<1> QED
  BY <1>3, <1>7, <1>8 DEF FeedInv

LEMMA DropStep ==
  ASSUME FeedInv, Drop
  PROVE  FeedInv'
<1>1. Reading /\ row <= Len(feeds[feed].rows) /\ row' = row + 1 /\ UNCHANGED <<setting, pc, feed>> /\ buf' = buf /\ disk' = disk
  BY DEF Drop
<1>2. Verdict(Row) # "write" /\ (st' = st \/ Count("malformed") \/ Count("unrouted"))
  BY DEF Drop
<1>3. disk \in Seq(Line) /\ buf \in Seq(Line)
  BY DEF FeedInv, DataOK
<1>4. disk' \o buf' = UpTo(feed - 1, row)
  <2>1. UpTo(feed - 1, row) = (disk \o buf) \o <<>> /\ disk \o buf \in Seq(Line)
    BY <1>1, <1>2, AtRow
  <2>2. (disk \o buf) \o <<>> = disk \o buf
    BY <2>1
  <2> QED
    BY <1>1, <2>1, <2>2
<1>5. st' \in [rows : 0 .. CounterMod - 1, prefixes : 0 .. CounterMod - 1,
               malformed : 0 .. CounterMod - 1, unrouted : 0 .. CounterMod - 1]
  <2>1. \A n \in 0 .. CounterMod - 1 : Plus(n, 1) \in 0 .. CounterMod - 1
    BY PlusType, CounterAssumption
  <2> QED
    BY <1>2, <2>1 DEF FeedInv, DataOK, Count
<1> QED
  BY <1>1, <1>3, <1>4, <1>5, NextRow

LEMMA ConvertStep ==
  ASSUME FeedInv, Convert
  PROVE  FeedInv'
<1>1. Reading /\ row <= Len(feeds[feed].rows) /\ Verdict(Row) = "write"
  BY DEF Convert
<1>2. PICK held : held = buf \o Lines(feed, row)
  OBVIOUS
<1>3. PICK k \in 0 .. Len(held) :
        /\ disk' = disk \o SubSeq(held, 1, k)
        /\ \/ Fail
           \/ /\ buf' = SubSeq(held, k + 1, Len(held))
              /\ row' = row + 1
              /\ st' = [st EXCEPT !.rows = Plus(@, 1), !.prefixes = Plus(@, Len(Lines(feed, row)))]
              /\ UNCHANGED <<setting, pc, feed>>
  BY <1>2 DEF Convert
<1>4. /\ disk \in Seq(Line) /\ buf \in Seq(Line) /\ Lines(feed, row) \in Seq(Line) /\ feed \in 1 .. Len(feeds)
      /\ row \in 1 .. Len(feeds[feed].rows)
  BY <1>1, AtRow DEF FeedInv, DataOK
<1>5. held \in Seq(Line) /\ UpTo(feed - 1, row) = disk \o held
  <2>1. UpTo(feed - 1, row) = (disk \o buf) \o Lines(feed, row)
    BY <1>1, AtRow
  <2>2. PICK u \in Seq(Line) : u = Lines(feed, row)
    BY <1>4
  <2>3. (disk \o buf) \o u = disk \o (buf \o u) /\ buf \o u \in Seq(Line)
    <3>1. PICK d \in Seq(Line) : d = disk
      BY <1>4
    <3>2. PICK e \in Seq(Line) : e = buf
      BY <1>4
    <3>3. (d \o e) \o u = d \o (e \o u) /\ e \o u \in Seq(Line)
      BY ConcatAssoc, SMTT(30)
    <3> QED
      BY <3>1, <3>2, <3>3
  <2> QED
    BY <1>2, <2>1, <2>2, <2>3
<1>6. PICK a \in Seq(Line), b \in Seq(Line) :
        a = SubSeq(held, 1, k) /\ b = SubSeq(held, k + 1, Len(held)) /\ a \o b = held
  BY <1>5, CutInTwo, ZenonT(30)
<1>7. disk' = disk \o a /\ disk' \in Seq(Line) /\ UpTo(feed - 1, row) = disk' \o b
  <2>1. disk' = disk \o a
    BY <1>3, <1>6
  <2>2. (disk \o a) \o b = disk \o (a \o b) /\ disk \o a \in Seq(Line)
    <3>1. PICK d \in Seq(Line) : d = disk
      BY <1>4
    <3>2. (d \o a) \o b = d \o (a \o b) /\ d \o a \in Seq(Line)
      BY ConcatAssoc
    <3> QED
      BY <3>1, <3>2
  <2> QED
    BY <1>5, <1>6, <2>1, <2>2
<1>8. CASE Fail
  <2>1. UpTo(feed - 1, row) \in Seq(Line) /\ Begins(UpTo(feed - 1, row), Whole, Line)
    <3>1. row \in 0 .. Len(feeds[feed].rows)
      BY <1>4
    <3> QED
      BY <1>4, <3>1, UpToBegins DEF FeedInv
  <2>2. PICK d : d = disk'
    OBVIOUS
  <2>3. d \in Seq(Line) /\ Begins(d, UpTo(feed - 1, row), Line)
    BY <1>6, <1>7, <2>2 DEF Begins
  <2>4. Whole \in Seq(Line)
    BY UpToEnd DEF FeedInv
  <2>5. Begins(d, Whole, Line)
    BY <2>1, <2>3, <2>4, BeginsTrans
  <2> QED
    BY <1>4, <1>7, <1>8, <2>2, <2>5, FailStep
<1>9. CASE ~Fail
  <2>1. /\ buf' = b /\ row' = row + 1 /\ UNCHANGED <<setting, pc, feed>>
        /\ st' = [st EXCEPT !.rows = Plus(@, 1), !.prefixes = Plus(@, Len(Lines(feed, row)))]
    BY <1>3, <1>6, <1>9
  <2>2. st' \in [rows : 0 .. CounterMod - 1, prefixes : 0 .. CounterMod - 1,
                 malformed : 0 .. CounterMod - 1, unrouted : 0 .. CounterMod - 1]
    <3>1. Len(Lines(feed, row)) \in Nat
      BY <1>4
    <3>2. \A n \in 0 .. CounterMod - 1 : n \in Nat /\ 1 \in Nat
      BY CounterAssumption
    <3>3. \A n \in 0 .. CounterMod - 1 : Plus(n, 1) \in 0 .. CounterMod - 1
      BY <3>2, PlusType, Zenon
    <3>4. \A n \in 0 .. CounterMod - 1 : Plus(n, Len(Lines(feed, row))) \in 0 .. CounterMod - 1
      BY <3>1, <3>2, PlusType, Zenon
    <3> QED
      BY <2>1, <3>3, <3>4 DEF FeedInv, DataOK
  <2>3. disk' \o buf' = UpTo(feed - 1, row) /\ buf' \in Seq(Line)
    BY <1>6, <1>7, <2>1
  <2> QED
    BY <1>1, <1>7, <2>1, <2>2, <2>3, NextRow
<1> QED
  BY <1>8, <1>9

LEMMA EndOfFeedStep ==
  ASSUME FeedInv, EndOfFeed
  PROVE  FeedInv'
<1>1. /\ pc = "convert" /\ feed \in 1 .. Len(feeds) /\ Len(feeds) \in Nat /\ Len(feeds[feed].rows) \in Nat
      /\ row > Len(feeds[feed].rows) /\ feeds[feed].eof /\ feed \in Nat /\ row \in Nat /\ row <= Len(feeds[feed].rows) + 1
      /\ disk \in Seq(Line) /\ buf \in Seq(Line) /\ disk \o buf = UpTo(feed - 1, row - 1)
  <2>1. pc = "convert" /\ feed \in 1 .. Len(feeds) /\ Len(feeds) \in Nat /\ feed \in Nat
    BY DEF FeedInv, StageOK, DataOK, RunOK, EndOfFeed, Reading
  <2>2. Len(feeds[feed].rows) \in Nat
    BY <2>1, LinesType DEF FeedInv
  <2>3. row > Len(feeds[feed].rows) /\ feeds[feed].eof
    BY DEF EndOfFeed
  <2>4. disk \o buf = UpTo(feed - 1, row - 1)
    BY <2>1 DEF FeedInv, StageOK
  <2> QED
    BY <2>1, <2>2, <2>3, <2>4 DEF FeedInv, DataOK
<1>2. row - 1 = Len(feeds[feed].rows)
  BY <1>1
<1>3. CASE feed' = feed + 1 /\ row' = 1 /\ UNCHANGED <<setting, pc, buf, disk, st>>
  <2>1. feeds' = feeds /\ tool' = tool /\ UNCHANGED setting
    BY <1>3 DEF setting
  <2>2. RunOK' /\ Whole' = Whole /\ UpTo(feed - 1, row - 1)' = UpTo(feed' - 1, row' - 1)
    BY <2>1, RunKept DEF FeedInv
  <2>3. (feed + 1) - 1 = feed /\ 1 - 1 = 0 /\ UpTo(feed, 0) = UpTo(feed - 1, Len(feeds[feed].rows))
    BY <1>1, UpToNextFeed DEF FeedInv
  <2>4. (disk \o buf = UpTo(feed - 1, row - 1))'
    BY <1>1, <1>2, <1>3, <2>2, <2>3
  <2>5. DataOK'
    <3>1. feed + 1 \in 1 .. Len(feeds) => Len(feeds[feed + 1].rows) \in Nat
      BY LinesType DEF FeedInv
    <3> QED
      BY <1>1, <1>3, <2>1, <3>1, CounterAssumption, SMTT(30) DEF FeedInv, DataOK
  <2>6. (\A k \in 1 .. Len(feeds) : k < feed => feeds[k].eof)'
    <3>1. \A k \in 1 .. Len(feeds) : k < feed + 1 => k < feed \/ k = feed
      BY <1>1
    <3>2. \A k \in 1 .. Len(feeds) : k < feed + 1 => feeds[k].eof
      BY <1>1, <3>1 DEF FeedInv, StageOK
    <3> QED
      BY <1>3, <2>1, <3>2
  <2>7. (pc = "convert" /\ feed >= 1 /\ feed # 0 /\ row = 1)'
    BY <1>1, <1>3
  <2>8. StageOK'
    BY <2>4, <2>6, <2>7 DEF StageOK
  <2> QED
    BY <2>2, <2>5, <2>8 DEF FeedInv
<1>4. CASE Fail /\ disk' = disk
  <2>1. Begins(disk, UpTo(feed - 1, row - 1), Line)
    BY <1>1 DEF Begins
  <2>2. UpTo(feed - 1, row - 1) \in Seq(Line) /\ Begins(UpTo(feed - 1, row - 1), Whole, Line)
    <3>1. row - 1 \in 0 .. Len(feeds[feed].rows)
      BY <1>1, <1>2
    <3> QED
      BY <1>1, <3>1, UpToBegins DEF FeedInv
  <2>3. Begins(disk, Whole, Line)
    BY <1>1, <2>1, <2>2, BeginsTrans, UpToEnd DEF FeedInv
  <2> QED
    BY <1>1, <1>4, <2>3, FailStep
<1> QED
  BY <1>3, <1>4 DEF EndOfFeed

LEMMA ReadErrorStep ==
  ASSUME FeedInv, ReadError
  PROVE  FeedInv'
<1>1. /\ pc = "convert" /\ feed \in 1 .. Len(feeds) /\ Len(feeds) \in Nat /\ Len(feeds[feed].rows) \in Nat
      /\ row > Len(feeds[feed].rows) /\ feed \in Nat /\ row \in Nat /\ row <= Len(feeds[feed].rows) + 1
      /\ disk \in Seq(Line) /\ buf \in Seq(Line) /\ disk \o buf = UpTo(feed - 1, row - 1) /\ disk' = disk
  <2>1. pc = "convert" /\ feed \in 1 .. Len(feeds) /\ Len(feeds) \in Nat /\ feed \in Nat
    BY DEF FeedInv, StageOK, DataOK, RunOK, ReadError, Reading
  <2>2. Len(feeds[feed].rows) \in Nat
    BY <2>1, LinesType DEF FeedInv
  <2>3. row > Len(feeds[feed].rows) /\ disk' = disk
    BY DEF ReadError
  <2>4. disk \o buf = UpTo(feed - 1, row - 1)
    BY <2>1 DEF FeedInv, StageOK
  <2> QED
    BY <2>1, <2>2, <2>3, <2>4 DEF FeedInv, DataOK
<1>2. CASE Fail
  <2>1. Begins(disk, UpTo(feed - 1, row - 1), Line)
    BY <1>1 DEF Begins
  <2>2. UpTo(feed - 1, row - 1) \in Seq(Line) /\ Begins(UpTo(feed - 1, row - 1), Whole, Line)
    <3>1. row - 1 \in 0 .. Len(feeds[feed].rows)
      BY <1>1
    <3> QED
      BY <1>1, <3>1, UpToBegins DEF FeedInv
  <2>3. Begins(disk, Whole, Line)
    BY <1>1, <2>1, <2>2, BeginsTrans, UpToEnd DEF FeedInv
  <2> QED
    BY <1>1, <1>2, <2>3, FailStep
<1>3. CASE Count("malformed") /\ UNCHANGED <<setting, pc, feed, row, buf>>
  <2>1. feeds' = feeds /\ tool' = tool /\ UNCHANGED setting
    BY <1>3 DEF setting
  <2>2. RunOK' /\ Whole' = Whole /\ UpTo(feed - 1, row - 1)' = UpTo(feed' - 1, row' - 1)
    BY <2>1, RunKept DEF FeedInv
  <2>3. \A n \in 0 .. CounterMod - 1 : Plus(n, 1) \in 0 .. CounterMod - 1
    BY PlusType, CounterAssumption
  <2>4. DataOK'
    BY <1>1, <1>3, <2>1, <2>3 DEF FeedInv, DataOK, Count
  <2>5. (disk \o buf = UpTo(feed - 1, row - 1))'
    BY <1>1, <1>3, <2>2
  <2>6. StageOK'
    BY <1>1, <1>3, <2>1, <2>5 DEF FeedInv, StageOK
  <2> QED
    BY <2>2, <2>4, <2>6 DEF FeedInv
<1> QED
  BY <1>2, <1>3 DEF ReadError

LEMMA EndOfFeedsStep ==
  ASSUME FeedInv, EndOfFeeds
  PROVE  FeedInv'
<1>1. /\ pc = "convert" /\ feed > Len(feeds) /\ row = 1 /\ feed \in 0 .. Len(feeds) + 1 /\ Len(feeds) \in Nat
      /\ disk \o buf = UpTo(feed - 1, row - 1)
  BY SMTT(30) DEF FeedInv, StageOK, DataOK, RunOK, EndOfFeeds
<1>2. feed - 1 = Len(feeds) /\ row - 1 = 0
  BY <1>1
<1>3. disk \o buf = Whole
  BY <1>1, <1>2, UpToEnd DEF FeedInv
<1>4. /\ pc' = "flush" /\ UNCHANGED setting /\ feed' = feed /\ row' = row /\ buf' = buf /\ disk' = disk /\ st' = st
      /\ tool' = tool /\ feeds' = feeds
  BY DEF EndOfFeeds, setting
<1>5. RunOK' /\ Whole' = Whole
  BY <1>4, RunKept DEF FeedInv
<1>6. DataOK'
  <2>1. DataOK
    BY DEF FeedInv
  <2> QED
    BY <1>4, <2>1 DEF DataOK
<1>7. StageOK'
  BY <1>1, <1>3, <1>4, <1>5 DEF FeedInv, StageOK
<1> QED
  BY <1>5, <1>6, <1>7 DEF FeedInv

LEMMA FlushStep ==
  ASSUME FeedInv, Flush
  PROVE  FeedInv'
<1>1. /\ pc = "flush" /\ feed > Len(feeds) /\ feed \in 0 .. Len(feeds) + 1 /\ Len(feeds) \in Nat
      /\ disk \in Seq(Line) /\ buf \in Seq(Line) /\ disk \o buf = Whole
  BY SMTT(30) DEF FeedInv, StageOK, DataOK, RunOK, Flush
<1>2. CASE pc' = "done" /\ disk' = disk \o buf /\ buf' = <<>> /\ UNCHANGED <<setting, feed, row, st>>
  <2>1. feeds' = feeds /\ tool' = tool /\ UNCHANGED setting
    BY <1>2 DEF setting
  <2>2. RunOK' /\ Whole' = Whole
    BY <2>1, RunKept DEF FeedInv
  <2>3. <<>> \in Seq(Line) /\ Whole \in Seq(Line)
    BY UpToEnd DEF FeedInv
  <2>4. DataOK'
    BY <1>1, <1>2, <2>1, <2>3 DEF FeedInv, DataOK
  <2>5. StageOK'
    BY <1>1, <1>2, <2>1, <2>2 DEF FeedInv, StageOK
  <2> QED
    BY <2>2, <2>4, <2>5 DEF FeedInv
<1>3. CASE Fail /\ \E k \in 0 .. Len(buf) : disk' = disk \o SubSeq(buf, 1, k)
  <2>1. PICK k \in 0 .. Len(buf) : disk' = disk \o SubSeq(buf, 1, k)
    BY <1>3
  <2>2. PICK a \in Seq(Line), b \in Seq(Line) : disk' = disk \o a /\ a \o b = buf
    <3>1. /\ SubSeq(buf, 1, k) \in Seq(Line) /\ SubSeq(buf, k + 1, Len(buf)) \in Seq(Line)
          /\ SubSeq(buf, 1, k) \o SubSeq(buf, k + 1, Len(buf)) = buf
      BY <1>1, CutInTwo
    <3> QED
      BY <2>1, <3>1
  <2>3. PICK d \in Seq(Line) : d = disk
    BY <1>1
  <2>4. (d \o a) \o b = d \o (a \o b) /\ d \o a \in Seq(Line)
    BY ConcatAssoc
  <2>5. PICK e : e = disk'
    OBVIOUS
  <2>6. e \in Seq(Line) /\ Whole = e \o b
    BY <1>1, <2>2, <2>3, <2>4, <2>5
  <2>7. Begins(e, Whole, Line)
    BY <2>6 DEF Begins
  <2>8. feed # 0
    BY <1>1
  <2> QED
    BY <1>3, <2>5, <2>6, <2>7, <2>8, FailStep
<1> QED
  BY <1>2, <1>3 DEF Flush

LEMMA FeedInvariant == FeedSpec => []FeedInv
<1>1. FeedInit => FeedInv
  BY FeedInvInit
<1>2. FeedInv /\ [FeedNext]_feedVars => FeedInv'
  <2> SUFFICES ASSUME FeedInv, [FeedNext]_feedVars
               PROVE  FeedInv'
    OBVIOUS
  <2>1. CASE UNCHANGED feedVars
    <3>1. /\ UNCHANGED setting /\ pc' = pc /\ feed' = feed /\ row' = row /\ buf' = buf /\ disk' = disk /\ st' = st
          /\ tool' = tool /\ feeds' = feeds
      BY <2>1 DEF feedVars, setting
    <3>2. RunOK' /\ Whole' = Whole /\ UpTo(feed - 1, row - 1)' = UpTo(feed' - 1, row' - 1)
      BY <3>1, RunKept DEF FeedInv
    <3>3. DataOK'
      BY <3>1 DEF FeedInv, DataOK
    <3>4. (pc = "convert" => feed >= 1 /\ disk \o buf = UpTo(feed - 1, row - 1))'
      BY <3>1, <3>2 DEF FeedInv, StageOK
    <3>5. StageOK'
      BY <3>1, <3>2, <3>4 DEF FeedInv, StageOK
    <3> QED
      BY <3>2, <3>3, <3>5 DEF FeedInv
  <2> QED
    BY <2>1, OpenStep, CreateStep, DropStep, ConvertStep, EndOfFeedStep, ReadErrorStep, EndOfFeedsStep, FlushStep
       DEF FeedNext
<1> QED
  BY <1>1, <1>2, PTL DEF FeedSpec

(* A run that exits 0 wrote every line of every row it should convert, in
   order, and read every feed to its end. *)
THEOREM DoneCorrect == FeedSpec => []DoneIsWhole
<1>1. FeedInv => DoneIsWhole
  <2> SUFFICES ASSUME FeedInv, pc = "done"
               PROVE  disk = Whole /\ \A k \in 1 .. Len(feeds) : feeds[k].eof
    BY DEF DoneIsWhole
  <2>1. feed > Len(feeds) /\ feed \in 0 .. Len(feeds) + 1 /\ Len(feeds) \in Nat /\ disk = Whole
    BY DEF FeedInv, StageOK, DataOK, RunOK
  <2>2. \A k \in 1 .. Len(feeds) : k < feed
    BY <2>1
  <2> QED
    BY <2>1, <2>2 DEF FeedInv, StageOK
<1> QED
  BY <1>1, FeedInvariant, PTL

(* At any time, whatever failed, the file holds the old spec or a beginning of
   the new one. *)
THEOREM FileCorrect == FeedSpec => []DiskIsBeginning
<1>1. FeedInv => DiskIsBeginning
  <2> SUFFICES ASSUME FeedInv
               PROVE  DiskIsBeginning
    OBVIOUS
  <2>1. TypeOK
    <3>1. \A c \in DOMAIN st : st[c] \in 0 .. CounterMod - 1
      BY DEF FeedInv, DataOK
    <3> QED
      BY <3>1 DEF FeedInv, RunOK, DataOK, StageOK, TypeOK
  <2>2. disk \in Seq(Line) /\ buf \in Seq(Line) /\ Whole \in Seq(Line) /\ Len(feeds) \in Nat
    BY UpToEnd DEF FeedInv, DataOK, RunOK
  <2>3. disk # Old => Begins(disk, Whole, Line)
    <3>1. CASE pc = "convert"
      <4>1. feed >= 1 /\ disk \o buf = UpTo(feed - 1, row - 1) /\ feed \in 0 .. Len(feeds) + 1 /\ row \in Nat /\ row >= 1
        BY <3>1, CounterAssumption, SMTT(30) DEF FeedInv, StageOK, DataOK
      <4>2. Begins(UpTo(feed - 1, row - 1), Whole, Line) /\ UpTo(feed - 1, row - 1) \in Seq(Line)
        <5>1. CASE feed \in 1 .. Len(feeds)
          <6>1. row - 1 \in 0 .. Len(feeds[feed].rows)
            <7>1. Len(feeds[feed].rows) \in Nat /\ row <= Len(feeds[feed].rows) + 1
              BY <5>1, LinesType DEF FeedInv, DataOK
            <7> QED
              BY <4>1, <7>1
          <6> QED
            BY <5>1, <6>1, UpToBegins DEF FeedInv
        <5>2. CASE feed \notin 1 .. Len(feeds)
          <6>1. feed - 1 = Len(feeds) /\ row - 1 = 0
            BY <2>2, <4>1, <5>2 DEF FeedInv, StageOK
          <6>2. UpTo(feed - 1, row - 1) = Whole
            BY <6>1, UpToEnd DEF FeedInv
          <6>3. Whole \o <<>> = Whole /\ <<>> \in Seq(Line)
            BY <2>2
          <6> QED
            BY <2>2, <6>2, <6>3 DEF Begins
        <5> QED
          BY <5>1, <5>2
      <4>3. Begins(disk, UpTo(feed - 1, row - 1), Line)
        BY <2>2, <4>1 DEF Begins
      <4> QED
        BY <2>2, <4>2, <4>3, BeginsTrans
    <3>2. CASE pc = "flush"
      <4>1. disk \o buf = Whole
        BY <3>2 DEF FeedInv, StageOK
      <4> QED
        BY <2>2, <4>1 DEF Begins
    <3>3. CASE pc \in {"open", "done"} /\ disk # Old
      <4>1. disk = <<>> \/ disk = Whole
        BY <3>3 DEF FeedInv, StageOK
      <4>2. Whole \o <<>> = Whole /\ <<>> \o Whole = Whole /\ <<>> \in Seq(Line)
        BY <2>2
      <4> QED
        BY <2>2, <4>1, <4>2 DEF Begins
    <3> QED
      BY <3>1, <3>2, <3>3 DEF FeedInv, StageOK
  <2>4. disk # Old => SeqExt!IsPrefix(disk, Whole)
    BY <2>2, <2>3, BeginsIsPrefix
  <2>5. tool # geolite /\ feed = 0 => disk = Old
    BY DEF FeedInv, StageOK
  <2> QED
    BY <2>1, <2>4, <2>5 DEF DiskIsBeginning
<1> QED
  BY <1>1, FeedInvariant, PTL
=============================================================================
