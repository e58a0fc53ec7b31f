-------------------------- MODULE RangeCover_proofs ---------------------------
(***************************************************************************)
(* Proofs about AppendRangePrefixes, for words of any size and every range *)
(* of both families: the arithmetic on two words is that of the numbers    *)
(* they stand for, an iteration takes the largest block at the cursor that *)
(* ends in the range, and the loop is the greedy split of RangeSplit.      *)
(***************************************************************************)
EXTENDS RangeCover, DataLemmas

(* The number two words stand for. *)
Value(u) == u.hi * 2^L + u.lo

LEMMA WordFacts ==
  /\ L \in Nat \ {0} /\ W4 \in 1 .. L /\ W4 \in 0 .. 2 * L
  /\ Powers(2 * L) /\ Powers(L) /\ Powers(W4)
  /\ 2^L \in Nat \ {0} /\ 2^(2 * L) \in Nat \ {0}
  /\ 2^(2 * L) = 2^L * 2^L
  /\ \A m \in 0 .. L : 2^(L + m) = 2^L * 2^m
  /\ Word = 0 .. 2^L - 1
<1>1. L \in Nat \ {0} /\ W4 \in 1 .. L /\ W4 \in 0 .. 2 * L
  BY WordAssumption
<1>2. /\ 2^0 = 1 /\ 2^1 = 2 /\ \A j \in 0 .. 2 * L : 2^j \in Nat \ {0}
      /\ \A j \in 0 .. 2 * L : \A k \in 0 .. j : 2^j = 2^k * 2^(j - k)
  BY PowerAssumption
<1>3. ASSUME NEW w \in 0 .. 2 * L PROVE Powers(w)
  <2>1. 0 .. w \subseteq 0 .. 2 * L /\ w \in Nat
    BY <1>1
  <2> QED
    BY <1>2, <2>1 DEF Powers
<1>4. Powers(2 * L) /\ Powers(L) /\ Powers(W4)
  <2>1. 2 * L \in 0 .. 2 * L /\ L \in 0 .. 2 * L
    BY <1>1
  <2> QED
    BY <1>1, <1>3, <2>1
<1>5. 2^L \in Nat \ {0} /\ 2^(2 * L) \in Nat \ {0}
  <2>1. 2 * L \in 0 .. 2 * L /\ L \in 0 .. 2 * L
    BY <1>1
  <2> QED
    BY <1>2, <2>1
<1>6. ASSUME NEW m \in 0 .. L PROVE 2^(L + m) = 2^L * 2^m
  <2>1. PICK j \in 0 .. 2 * L : j = L + m
    BY <1>1
  <2>2. L \in 0 .. j /\ j - L = m
    BY <1>1, <2>1
  <2>3. 2^j = 2^L * 2^(j - L)
    BY <1>2, <2>1, <2>2
  <2> QED
    BY <2>1, <2>2, <2>3
<1>7. 2^(2 * L) = 2^L * 2^L
  <2>1. L \in 0 .. L /\ 2 * L = L + L
    BY <1>1
  <2>2. 2^(L + L) = 2^L * 2^L
    BY <1>6, <2>1
  <2> QED
    BY <2>1, <2>2
<1> QED
  BY <1>1, <1>4, <1>5, <1>6, <1>7 DEF Word

(* Two words and their number. *)
LEMMA ValueIs ==
  ASSUME NEW u \in u128
  PROVE  /\ u.hi \in 0 .. 2^L - 1 /\ u.lo \in 0 .. 2^L - 1
         /\ u.hi \in Nat /\ u.lo \in Nat /\ u.hi * 2^L \in Nat
         /\ Value(u) \in 0 .. 2^(2 * L) - 1 /\ Value(u) \in Nat
<1>1. PICK b \in Nat \ {0} : b = 2^L
  BY WordFacts
<1>2. 2^(2 * L) = b * b /\ Word = 0 .. b - 1
  BY <1>1, WordFacts
<1>3. u.hi \in 0 .. b - 1 /\ u.lo \in 0 .. b - 1
  BY <1>2 DEF u128
<1>4. PICK h \in Nat : h = u.hi
  BY <1>3
<1>5. h * b + b <= b * b
  BY <1>3, <1>4, NextMultiple
<1>6. h * b \in Nat /\ b * b \in Nat
  OBVIOUS
<1>7. h * b + u.lo \in 0 .. b * b - 1
  BY <1>3, <1>5, <1>6
<1> QED
  BY <1>1, <1>2, <1>3, <1>4, <1>6, <1>7 DEF Value

LEMMA MakeWords ==
  ASSUME NEW h \in 0 .. 2^L - 1, NEW l \in 0 .. 2^L - 1
  PROVE  U(h, l) \in u128 /\ Value(U(h, l)) = h * 2^L + l
         /\ U(h, l).hi = h /\ U(h, l).lo = l
<1>1. Word = 0 .. 2^L - 1
  BY WordFacts
<1> QED
  BY <1>1 DEF U, u128, Value

LEMMA FromIs ==
  ASSUME NEW x \in 0 .. 2^(2 * L) - 1
  PROVE  From(x) \in u128 /\ Value(From(x)) = x
<1>1. PICK b \in Nat \ {0} : b = 2^L
  BY WordFacts
<1>2. 2^(2 * L) = b * b /\ x \in Nat /\ x < b * b
  BY <1>1, WordFacts
<1>3. PICK q \in Nat : q = x \div b
  BY <1>2, Division
<1>4. PICK r \in 0 .. b - 1 : r = x % b
  BY <1>2, Division
<1>5. x = q * b + r
  BY <1>2, <1>3, <1>4, Division
<1>6. q < b
  <2>1. ASSUME b < q PROVE FALSE
    <3>1. b * b + b <= q * b
      BY <2>1, NextMultiple
    <3>2. b * b \in Nat /\ q * b \in Nat
      OBVIOUS
    <3> QED
      BY <1>2, <1>5, <3>1, <3>2
  <2>2. ASSUME b = q PROVE FALSE
    BY <1>2, <1>5, <2>2
  <2> QED
    BY <2>1, <2>2
<1>7. From(x) = U(q, r)
  BY <1>1, <1>3, <1>4 DEF From
<1>8. q \in 0 .. 2^L - 1 /\ r \in 0 .. 2^L - 1
  BY <1>1, <1>6
<1> QED
  BY <1>1, <1>5, <1>7, <1>8, MakeWords

(* The number orders the words as cmp does. *)
LEMMA LessIs ==
  ASSUME NEW x \in u128, NEW y \in u128
  PROVE  (less(x, y) <=> Value(x) < Value(y)) /\ (Value(x) = Value(y) => x = y)
<1>1. PICK b \in Nat \ {0} : b = 2^L
  BY WordFacts
<1>2. PICK p \in Nat : p = x.hi
  BY ValueIs
<1>3. PICK q \in Nat : q = y.hi
  BY ValueIs
<1>4. x.lo \in 0 .. b - 1 /\ y.lo \in 0 .. b - 1
  BY <1>1, ValueIs
<1>5. /\ p < q => p * b + b <= q * b
      /\ q < p => q * b + b <= p * b
  BY NextMultiple
<1>6. p * b \in Nat /\ q * b \in Nat /\ Value(x) = p * b + x.lo /\ Value(y) = q * b + y.lo
  BY <1>1, <1>2, <1>3 DEF Value
<1>7. PICK m \in Nat : m = p * b
  BY <1>6
<1>8. PICK n \in Nat : n = q * b
  BY <1>6
<1>9. p = q => m = n
  BY <1>7, <1>8
<1>10. (p < q \/ (p = q /\ x.lo < y.lo)) <=> m + x.lo < n + y.lo
  BY <1>4, <1>5, <1>7, <1>8, <1>9
<1>11. m + x.lo = n + y.lo => p = q /\ x.lo = y.lo
  BY <1>4, <1>5, <1>7, <1>8, <1>9
<1>12. x.hi = y.hi /\ x.lo = y.lo => x = y
  BY DEF u128
<1> QED
  BY <1>2, <1>3, <1>6, <1>7, <1>8, <1>10, <1>11, <1>12 DEF less

(* Subtraction borrows from the upper word. *)
LEMMA SubIs ==
  ASSUME NEW x \in u128, NEW y \in u128,
         Value(y) <= Value(x)
  PROVE  sub(x, y) \in u128 /\ Value(sub(x, y)) = Value(x) - Value(y)
<1>1. PICK b \in Nat \ {0} : b = 2^L
  BY WordFacts
<1>2. PICK p \in 0 .. b - 1 : p = x.hi
  BY <1>1, ValueIs
<1>3. PICK q \in 0 .. b - 1 : q = y.hi
  BY <1>1, ValueIs
<1>4. PICK r \in 0 .. b - 1 : r = x.lo
  BY <1>1, ValueIs
<1>5. PICK s \in 0 .. b - 1 : s = y.lo
  BY <1>1, ValueIs
<1>6. q < p \/ (q = p /\ s <= r)
  <2>1. ~less(x, y)
    <3>1. Value(x) \in Nat /\ Value(y) \in Nat
      BY ValueIs
    <3> QED
      BY <3>1, LessIs
  <2> QED
    BY <1>2, <1>3, <1>4, <1>5, <2>1 DEF less
<1>7. PICK c \in 0 .. 1 : c = IF r < s THEN 1 ELSE 0
  OBVIOUS
<1>8. PICK h \in 0 .. b - 1 : h = p - q - c
  <2>1. CASE q < p
    BY <2>1
  <2>2. CASE q = p /\ s <= r
    <3>1. c = 0
      BY <1>7, <2>2
    <3> QED
      BY <2>2, <3>1
  <2> QED
    BY <1>6, <2>1, <2>2
<1>9. PICK l \in 0 .. b - 1 : l = (r - s) + c * b
  BY <1>7
<1>10. h % b = h
  BY SmallRemainder
<1>11. (r - s) % b = l
  BY <1>7, <1>9
<1>12. sub(x, y) = U(h, l)
  BY <1>1, <1>2, <1>3, <1>4, <1>5, <1>7, <1>8, <1>10, <1>11 DEF sub
<1>13. h * b + l = (p * b + r) - (q * b + s)
  <2>1. h * b = p * b - q * b - c * b
    BY <1>8
  <2> QED
    BY <1>9, <2>1
<1> QED
  BY <1>1, <1>2, <1>3, <1>4, <1>5, <1>12, <1>13, MakeWords DEF Value

(* One more carries into the upper word. *)
LEMMA IncIs ==
  ASSUME NEW x \in u128,
         Value(x) + 1 < 2^(2 * L)
  PROVE  LET y == add(x, U(0, 1)) IN y \in u128 /\ Value(y) = Value(x) + 1
<1>1. PICK b \in Nat \ {0} : b = 2^L
  BY WordFacts
<1>2. PICK p \in 0 .. b - 1 : p = x.hi
  BY <1>1, ValueIs
<1>3. PICK r \in 0 .. b - 1 : r = x.lo
  BY <1>1, ValueIs
<1>4. p * b + r + 1 < b * b
  BY <1>1, <1>2, <1>3, WordFacts DEF Value
<1>5. CASE r + 1 < b
  <2>1. (p + 0 + 0) % b = p /\ (r + 1) % b = r + 1
    <3>1. PICK t \in 0 .. b - 1 : t = r + 1
      BY <1>5
    <3>2. p % b = p /\ t % b = t
      BY SmallRemainder
    <3> QED
      BY <3>1, <3>2
  <2>2. add(x, U(0, 1)) = U(p, r + 1)
    BY <1>1, <1>2, <1>3, <1>5, <2>1 DEF add, U
  <2>3. r + 1 \in 0 .. b - 1
    BY <1>5
  <2>4. p * b + (r + 1) = p * b + r + 1
    OBVIOUS
  <2> QED
    BY <1>1, <1>2, <1>3, <2>2, <2>3, <2>4, MakeWords DEF Value
<1>6. CASE r + 1 = b
  <2>1. p + 1 < b
    <3>1. ASSUME p + 1 = b PROVE FALSE
      <4>1. (p + 1) * b = p * b + b
        OBVIOUS
      <4> QED
        BY <1>4, <1>6, <3>1, <4>1
    <3> QED
      BY <3>1
  <2>2. (p + 0 + 1) % b = p + 1 /\ (r + 1) % b = 0
    <3>1. PICK t \in 0 .. b - 1 : t = p + 1
      BY <2>1
    <3>2. b = 1 * b + 0 /\ 0 \in 0 .. b - 1
      OBVIOUS
    <3>3. b % b = 0
      BY <3>2, DivisionIs
    <3>4. t % b = t
      BY SmallRemainder
    <3> QED
      BY <1>6, <3>1, <3>3, <3>4
  <2>3. add(x, U(0, 1)) = U(p + 1, 0)
    BY <1>1, <1>2, <1>3, <1>6, <2>2 DEF add, U
  <2>4. (p + 1) * b + 0 = p * b + r + 1
    BY <1>6
  <2>5. p + 1 \in 0 .. b - 1 /\ 0 \in 0 .. b - 1
    BY <2>1
  <2> QED
    BY <1>1, <1>2, <1>3, <2>3, <2>4, <2>5, MakeWords DEF Value
<1> QED
  BY <1>5, <1>6

(* lowMask(k): k ones, over both words. *)
MaskHi(k) == IF k <= L THEN 0 ELSE k - L
MaskLo(k) == IF k <= L THEN k ELSE L

LEMMA MaskIs ==
  ASSUME NEW k \in 0 .. 2 * L
  PROVE  /\ MaskHi(k) \in 0 .. L /\ MaskLo(k) \in 0 .. L
         /\ lowMask(k) = U(2^MaskHi(k) - 1, 2^MaskLo(k) - 1)
         /\ 2^MaskHi(k) - 1 \in 0 .. 2^L - 1 /\ 2^MaskLo(k) - 1 \in 0 .. 2^L - 1
         /\ (2^MaskHi(k) - 1) * 2^L + (2^MaskLo(k) - 1) = 2^k - 1
<1>1. L \in Nat \ {0} /\ Powers(L) /\ 2^0 = 1
  BY WordFacts DEF Powers
<1>2. MaskHi(k) \in 0 .. L /\ MaskLo(k) \in 0 .. L
  BY <1>1 DEF MaskHi, MaskLo
<1>3. lowMask(k) = U(2^MaskHi(k) - 1, 2^MaskLo(k) - 1)
  <2>1. CASE k = 0
    BY <1>1, <2>1 DEF lowMask, MaskHi, MaskLo
  <2>2. CASE 0 < k /\ k < L
    BY <1>1, <2>2 DEF lowMask, MaskHi, MaskLo
  <2>3. CASE k = L
    BY <1>1, <2>3 DEF lowMask, MaskHi, MaskLo
  <2>4. CASE L < k /\ k < 2 * L
    BY <1>1, <2>4 DEF lowMask, MaskHi, MaskLo
  <2>5. CASE k = 2 * L
    <3>1. MaskHi(k) = L /\ MaskLo(k) = L
      BY <1>1, <2>5 DEF MaskHi, MaskLo
    <3> QED
      BY <1>1, <2>5, <3>1 DEF lowMask
  <2> QED
    BY <1>1, <2>1, <2>2, <2>3, <2>4, <2>5
<1>4. PICK b \in Nat \ {0} : b = 2^L
  BY WordFacts
<1>5. \A j \in 0 .. L : 2^j \in Nat \ {0} /\ 2^j <= b
  <2>1. TAKE j \in 0 .. L
  <2>2. L \in 0 .. L
    BY <1>1
  <2> QED
    BY <1>1, <1>4, <2>2, PowerProduct
<1>6. (2^MaskHi(k) - 1) * b + (2^MaskLo(k) - 1) = 2^k - 1
  <2>1. CASE k <= L
    <3>1. MaskHi(k) = 0 /\ MaskLo(k) = k
      BY <2>1 DEF MaskHi, MaskLo
    <3>2. 2^k \in Nat
      BY <1>2, <1>5, <3>1
    <3>3. 0 * b + (2^k - 1) = 2^k - 1
      BY <3>2
    <3> QED
      BY <1>1, <3>1, <3>3
  <2>2. CASE ~(k <= L)
    <3>1. PICK m \in 0 .. L : m = k - L
      BY <1>1, <2>2
    <3>2. MaskHi(k) = m /\ MaskLo(k) = L /\ k = L + m
      BY <1>1, <2>2, <3>1 DEF MaskHi, MaskLo
    <3>3. PICK n \in Nat \ {0} : n = 2^m
      BY <1>5
    <3>4. 2^k = b * n
      BY <1>4, <3>2, <3>3, WordFacts
    <3>5. (n - 1) * b + (b - 1) = b * n - 1
      OBVIOUS
    <3> QED
      BY <1>4, <3>2, <3>3, <3>4, <3>5
  <2> QED
    BY <2>1, <2>2
<1>7. /\ 2^MaskHi(k) - 1 \in 0 .. b - 1 /\ 2^MaskLo(k) - 1 \in 0 .. b - 1
  <2>1. 2^MaskHi(k) \in Nat \ {0} /\ 2^MaskHi(k) <= b /\ 2^MaskLo(k) \in Nat \ {0} /\ 2^MaskLo(k) <= b
    BY <1>2, <1>5
  <2> QED
    BY <2>1
<1> QED
  BY <1>2, <1>3, <1>4, <1>6, <1>7

(* In one word, or with the j lowest bits adds them where none is set. *)
LEMMA WordOrIs ==
  ASSUME NEW j \in 0 .. L, NEW x \in 0 .. 2^L - 1, x % 2^j = 0
  PROVE  wordOr(x, 2^j - 1) = x + (2^j - 1) /\ x + (2^j - 1) \in 0 .. 2^L - 1
<1> DEFINE z == x + (2^j - 1)
           Or(w) == \A i \in 0 .. L - 1 :
                      Bit(w, i) = 1 <=> Bit(x, i) = 1 \/ Bit(2^j - 1, i) = 1
<1>1. L \in Nat \ {0} /\ Powers(L) /\ Word = 0 .. 2^L - 1 /\ 2^L \in Nat \ {0}
  BY WordFacts
<1>2. 2^j \in Nat \ {0} /\ x \in Nat
  BY <1>1 DEF Powers
<1>3. PICK c \in Nat : x = c * 2^j
  BY <1>2, AlignedIs
<1>4. z \in 0 .. 2^L - 1
  <2>1. [lo |-> 0 + x, hi |-> 0 + x + (2^j - 1)] \in ShiftedBlocks(L, 0)
    BY <1>1, ShiftedHas
  <2>2. 0 + x + (2^j - 1) < 0 + 2^L
    BY <1>1, <2>1, ShiftedNest
  <2> QED
    BY <1>1, <1>2, <2>2
<1>5. ASSUME NEW i \in 0 .. L - 1
      PROVE  /\ Bit(z, i) = IF i < j THEN 1 ELSE Bit(x, i)
             /\ Bit(2^j - 1, i) = IF i < j THEN 1 ELSE 0
  <2>1. Bit(z, i) = IF i < j THEN 1 ELSE Bit(x, i)
    <3>1. PICK y \in Nat : y = z
      BY <1>1, <1>4
    <3>1a. PICK w : w = L
      OBVIOUS
    <3>1b. /\ Powers(w) /\ j \in 0 .. w /\ i \in 0 .. w - 1 /\ x \in Nat /\ x % 2^j = 0
           /\ y = x + (2^j - 1)
      BY <1>1, <1>2, <3>1, <3>1a
    <3> HIDE DEF z, Or
    <3>2. (y \div 2^i) % 2 = IF i < j THEN 1 ELSE (x \div 2^i) % 2
      BY <3>1b, FilledBits
    <3> QED
      BY <3>1, <3>2 DEF Bit
  <2>3. ((2^j - 1) \div 2^i) % 2 = IF i < j THEN 1 ELSE (0 \div 2^i) % 2
    <3>1. PICK y \in Nat : y = 2^j - 1 /\ y = 0 + (2^j - 1)
      BY <1>2
    <3>2. 0 \in Nat /\ 0 % 2^j = 0
      BY <1>2, SmallRemainder
    <3>3. (y \div 2^i) % 2 = IF i < j THEN 1 ELSE (0 \div 2^i) % 2
      BY <1>1, <3>1, <3>2, FilledBits
    <3> QED
      BY <3>1, <3>3
  <2>4. (0 \div 2^i) % 2 = 0
    <3>1. 2^i \in Nat \ {0}
      BY <1>1 DEF Powers
    <3>2. 0 \div 2^i = 0
      BY <3>1, SmallRemainder
    <3>3. 0 % 2 = 0
      OBVIOUS
    <3> QED
      BY <3>2, <3>3
  <2> QED
    BY <2>1, <2>3, <2>4 DEF Bit
<1>6. Or(z)
  BY <1>5
<1>7. ASSUME NEW w \in 0 .. 2^L - 1, Or(w) PROVE w = z
  <2>1. ASSUME NEW i \in 0 .. L - 1 PROVE Bit(w, i) = Bit(z, i)
    <3>1. Bit(w, i) = 1 <=> Bit(z, i) = 1
      BY <1>6, <1>7
    <3>2. Bit(w, i) \in {0, 1} /\ Bit(z, i) \in {0, 1}
      <4>1. 2^i \in Nat \ {0}
        BY <1>1 DEF Powers
      <4>2. w \div 2^i \in Nat /\ z \div 2^i \in Nat
        <5>1. w \in Nat /\ z \in Nat
          BY <1>1, <1>4
        <5> QED
          BY <4>1, <5>1, Division
      <4>3. \A n \in Nat : n % 2 \in {0, 1}
        OBVIOUS
      <4> QED
        BY <4>2, <4>3 DEF Bit
    <3> QED
      BY <3>1, <3>2
  <2> HIDE DEF z
  <2>2. \A i \in 0 .. L - 1 : (w \div 2^i) % 2 = (z \div 2^i) % 2
    BY <2>1 DEF Bit
  <2> QED
    BY <1>1, <1>4, <2>2, BitsDecide
<1>8. wordOr(x, 2^j - 1) = z
  <2>1. wordOr(x, 2^j - 1) = CHOOSE w \in 0 .. 2^L - 1 : Or(w)
    BY <1>1 DEF wordOr
  <2> HIDE DEF z, Or
  <2> QED
    BY <1>4, <1>6, <1>7, <2>1
<1> QED
  BY <1>4, <1>8

(* A number is aligned where the lower word is, and where that is 0 the upper. *)
LEMMA AlignedWords ==
  ASSUME NEW x \in u128, NEW k \in 0 .. 2 * L
  PROVE  Value(x) % 2^k = 0 <=> x.lo % 2^MaskLo(k) = 0 /\ x.hi % 2^MaskHi(k) = 0
<1>1. /\ L \in Nat \ {0} /\ Powers(2 * L) /\ L \in 0 .. 2 * L
      /\ Powers(L) /\ 2^0 = 1 /\ L \in 0 .. L
  BY WordFacts DEF Powers
<1>2. PICK b \in Nat \ {0} : b = 2^L
  BY WordFacts
<1>3. PICK h \in Nat : h = x.hi
  BY ValueIs
<1>4. PICK l \in 0 .. b - 1 : l = x.lo
  BY <1>2, ValueIs
<1>5. PICK v \in Nat : v = Value(x) /\ v = h * b + l
  BY <1>2, <1>3, <1>4, ValueIs DEF Value
<1>6. CASE k <= L
  <2>1. MaskHi(k) = 0 /\ MaskLo(k) = k /\ k \in 0 .. L
    BY <1>1, <1>6 DEF MaskHi, MaskLo
  <2>2. PICK u \in Nat \ {0} : u = 2^k
    BY <1>1, <2>1, PowerProduct
  <2>3. PICK d \in Nat \ {0} : b = u * d
    BY <1>1, <1>2, <2>1, <2>2, PowerProduct
  <2>4. h % 1 = 0 /\ l \in Nat
    BY SmallRemainder
  <2>5. ASSUME l % u = 0 PROVE v % u = 0
    <3>1. PICK c \in Nat : l = c * u
      BY <2>4, <2>5, AlignedIs
    <3>2. v = (h * d + c) * u /\ h * d + c \in Nat
      BY <1>5, <2>3, <3>1
    <3> QED
      BY <3>2, AlignedIs
  <2>6. ASSUME v % u = 0 PROVE l % u = 0
    <3>1. PICK c \in Nat : v = c * u
      BY <2>6, AlignedIs
    <3>2. PICK q \in Nat : q = l \div u
      BY <2>4, Division
    <3>3. PICK r \in 0 .. u - 1 : l = q * u + r /\ r = l % u
      BY <2>4, <3>2, Division
    <3>4. v = (h * d + q) * u + r
      BY <1>5, <2>3, <3>3
    <3>5. PICK t \in Nat : t = h * d + q
      OBVIOUS
    <3>6. v = t * u + r
      BY <3>4, <3>5
    <3>7. v % u = r
      BY <3>6, DivisionIs
    <3> QED
      BY <2>6, <3>3, <3>7
  <2> QED
    BY <1>1, <1>3, <1>4, <1>5, <2>1, <2>2, <2>4, <2>5, <2>6
<1>7. CASE ~(k <= L)
  <2>1. PICK m \in 0 .. L : m = k - L
    BY <1>1, <1>7
  <2>2. MaskHi(k) = m /\ MaskLo(k) = L /\ k = L + m
    BY <1>1, <1>7, <2>1 DEF MaskHi, MaskLo
  <2>3. PICK u \in Nat \ {0} : u = 2^m
    BY <1>1, PowerProduct
  <2>4. 2^k = b * u
    BY <1>2, <2>2, <2>3, WordFacts
  <2>5. l % b = l
    BY SmallRemainder
  <2>6. ASSUME l = 0, h % u = 0 PROVE v % (b * u) = 0
    <3>1. PICK c \in Nat : h = c * u
      BY <2>6, AlignedIs
    <3>2. v = c * (b * u) /\ b * u \in Nat \ {0}
      BY <1>5, <2>6, <3>1
    <3> QED
      BY <3>2, AlignedIs
  <2>7. ASSUME v % (b * u) = 0 PROVE l = 0 /\ h % u = 0
    <3>0. b * u \in Nat \ {0}
      OBVIOUS
    <3>1. PICK c \in Nat : v = c * (b * u)
      BY <2>7, <3>0, AlignedIs
    <3>2. PICK t \in Nat : t = c * u
      OBVIOUS
    <3>3. v = t * b + 0 /\ 0 \in 0 .. b - 1
      BY <3>1, <3>2
    <3>4. v \div b = t /\ v % b = 0
      BY <3>3, DivisionIs
    <3>5. v \div b = h /\ v % b = l
      BY <1>5, DivisionIs
    <3>6. h % u = 0
      BY <3>2, <3>4, <3>5, AlignedIs
    <3> QED
      BY <3>4, <3>5, <3>6
  <2> QED
    BY <1>2, <1>3, <1>4, <1>5, <2>2, <2>3, <2>4, <2>5, <2>6, <2>7
<1> QED
  BY <1>6, <1>7

(* In both words: or with lowMask(k) adds it to a multiple of 2^k, and no carry
   is needed. *)
LEMMA OrIs ==
  ASSUME NEW x \in u128, NEW k \in 0 .. 2 * L, Value(x) % 2^k = 0
  PROVE  LET y == or(x, lowMask(k))
         IN y \in u128 /\ Value(y) = Value(x) + (2^k - 1)
<1>1. L \in Nat \ {0} /\ Powers(2 * L) /\ L \in 0 .. 2 * L
  BY WordFacts
<1>2. PICK i \in 0 .. L : i = MaskHi(k)
  BY MaskIs
<1>3. PICK j \in 0 .. L : j = MaskLo(k)
  BY MaskIs
<1>4. /\ lowMask(k) = U(2^i - 1, 2^j - 1)
      /\ (2^i - 1) * 2^L + (2^j - 1) = 2^k - 1
      /\ 2^i - 1 \in 0 .. 2^L - 1 /\ 2^j - 1 \in 0 .. 2^L - 1
  BY <1>2, <1>3, MaskIs
<1>5. x.hi % 2^i = 0 /\ x.lo % 2^j = 0
  BY AlignedWords, <1>2, <1>3
<1>6. /\ wordOr(x.hi, 2^i - 1) = x.hi + (2^i - 1) /\ x.hi + (2^i - 1) \in 0 .. 2^L - 1
      /\ wordOr(x.lo, 2^j - 1) = x.lo + (2^j - 1) /\ x.lo + (2^j - 1) \in 0 .. 2^L - 1
  BY <1>5, ValueIs, WordOrIs
<1>7. or(x, lowMask(k)) = U(x.hi + (2^i - 1), x.lo + (2^j - 1))
  BY <1>4, <1>6, MakeWords DEF or
<1>8. PICK b \in Nat \ {0} : b = 2^L
  BY WordFacts
<1>9. PICK p \in Nat : p = 2^i - 1
  BY <1>4, <1>8
<1>10. PICK q \in Nat : q = 2^j - 1
  BY <1>4, <1>8
<1>11. PICK h \in Nat : h = x.hi
  BY ValueIs
<1>12. PICK l \in Nat : l = x.lo
  BY ValueIs
<1>13. (h + p) * b + (l + q) = (h * b + l) + (p * b + q)
  OBVIOUS
<1>14. p * b + q = 2^k - 1 /\ Value(x) = h * b + l
  BY <1>4, <1>8, <1>9, <1>10, <1>11, <1>12 DEF Value
<1>15. U(h + p, l + q) \in u128 /\ Value(U(h + p, l + q)) = (h + p) * b + (l + q)
  BY <1>6, <1>8, <1>9, <1>10, <1>11, <1>12, MakeWords
<1> QED
  BY <1>7, <1>9, <1>10, <1>11, <1>12, <1>13, <1>14, <1>15

(* trailingZeros(x): how far the number is aligned. *)
LEMMA ZerosIs ==
  ASSUME NEW x \in u128
  PROVE  ZerosAre(Value(x), trailingZeros(x), 2 * L)
<1>1. /\ L \in Nat \ {0} /\ Powers(2 * L) /\ L \in 0 .. 2 * L
      /\ Powers(L) /\ 2^0 = 1 /\ 2^L \in Nat \ {0}
  BY WordFacts DEF Powers
<1>2. ASSUME NEW w \in Nat PROVE ZerosAre(w, TrailingZeros64(w), L)
  <2>1. \E n \in 0 .. L : w % 2^n = 0 /\ (n = L \/ w % 2^(n + 1) # 0)
    BY <1>1, ZerosExist
  <2>2. PICK n \in 0 .. L :
          n = TrailingZeros64(w) /\ w % 2^n = 0 /\ (n = L \/ w % 2^(n + 1) # 0)
    BY <2>1 DEF TrailingZeros64
  <2> QED
    BY <1>1, <2>2, LastZero
<1>3. /\ x.lo \in 0 .. 2^L - 1 /\ x.hi \in 0 .. 2^L - 1 /\ x.lo \in Nat /\ x.hi \in Nat
      /\ Value(x) \in Nat
  BY ValueIs
<1>4. \A w \in 0 .. 2^L - 1 : w % 2^L = 0 <=> w = 0
  BY <1>1, SmallRemainder
<1>5. \A w \in Nat : w % 2^0 = 0
  <2>1. \A w \in Nat : w % 1 = 0
    OBVIOUS
  <2> QED
    BY <1>1, <2>1
<1>6. CASE x.lo # 0
  <2>1. PICK n : n = TrailingZeros64(x.lo)
    OBVIOUS
  <2>2. n \in 0 .. L /\ \A k \in 0 .. L : x.lo % 2^k = 0 <=> k <= n
    BY <1>2, <1>3, <2>1 DEF ZerosAre
  <2>3. n # L
    BY <1>1, <1>3, <1>4, <1>6, <2>2
  <2>4. ASSUME NEW k \in 0 .. 2 * L PROVE Value(x) % 2^k = 0 <=> k <= n
    <3>1. Value(x) % 2^k = 0 <=> x.lo % 2^MaskLo(k) = 0 /\ x.hi % 2^MaskHi(k) = 0
      BY AlignedWords
    <3>2. CASE k <= L
      <4>1. MaskHi(k) = 0 /\ MaskLo(k) = k /\ k \in 0 .. L
        BY <1>1, <3>2 DEF MaskHi, MaskLo
      <4> QED
        BY <1>3, <1>5, <2>2, <3>1, <4>1
    <3>3. CASE ~(k <= L)
      <4>1. MaskLo(k) = L /\ ~(k <= n)
        BY <1>1, <2>2, <3>3 DEF MaskLo
      <4>2. x.lo % 2^L # 0
        BY <1>3, <1>4, <1>6
      <4> QED
        BY <3>1, <4>1, <4>2
    <3> QED
      BY <3>2, <3>3
  <2>5. trailingZeros(x) = n
    BY <1>6, <2>1 DEF trailingZeros
  <2>6. n \in 0 .. 2 * L
    BY <1>1, <2>2
  <2> QED
    BY <2>4, <2>5, <2>6 DEF ZerosAre
<1>7. CASE x.lo = 0 /\ x.hi # 0
  <2>1. PICK n : n = TrailingZeros64(x.hi)
    OBVIOUS
  <2>2. n \in 0 .. L /\ \A k \in 0 .. L : x.hi % 2^k = 0 <=> k <= n
    BY <1>2, <1>3, <2>1 DEF ZerosAre
  <2>4. ASSUME NEW k \in 0 .. 2 * L PROVE Value(x) % 2^k = 0 <=> k <= L + n
    <3>0. MaskHi(k) \in 0 .. L /\ MaskLo(k) \in 0 .. L
      BY MaskIs
    <3>1. Value(x) % 2^k = 0 <=> x.lo % 2^MaskLo(k) = 0 /\ x.hi % 2^MaskHi(k) = 0
      BY AlignedWords
    <3>2. x.lo % 2^MaskLo(k) = 0
      <4>1. 2^MaskLo(k) \in Nat \ {0}
        BY <1>1, <3>0 DEF Powers
      <4> QED
        BY <1>7, <4>1, SmallRemainder
    <3>3. x.hi % 2^MaskHi(k) = 0 <=> MaskHi(k) <= n
      BY <2>2, <3>0
    <3>4. MaskHi(k) <= n <=> k <= L + n
      BY <1>1, <2>2 DEF MaskHi
    <3> QED
      BY <3>1, <3>2, <3>3, <3>4
  <2>5. trailingZeros(x) = L + n
    BY <1>7, <2>1 DEF trailingZeros
  <2>6. L + n \in 0 .. 2 * L
    BY <1>1, <2>2
  <2> QED
    BY <2>4, <2>5, <2>6 DEF ZerosAre
<1>8. CASE x.lo = 0 /\ x.hi = 0
  <2>1. Value(x) = 0
    BY <1>1, <1>8 DEF Value
  <2>2. trailingZeros(x) = 2 * L
    BY <1>8 DEF trailingZeros
  <2>3. \A k \in 0 .. 2 * L : 0 % 2^k = 0 /\ k <= 2 * L
    <3>1. \A k \in 0 .. 2 * L : 2^k \in Nat \ {0}
      BY <1>1 DEF Powers
    <3>2. \A u \in Nat \ {0} : 0 % u = 0
      BY SmallRemainder
    <3> QED
      BY <1>1, <3>1, <3>2
  <2> QED
    BY <1>1, <2>1, <2>2, <2>3 DEF ZerosAre
<1> QED
  BY <1>6, <1>7, <1>8

(* highBit(x): the index of the highest bit of the number. *)
LEMMA HighIs ==
  ASSUME NEW x \in u128, Value(x) # 0
  PROVE  LET n == highBit(x)
         IN n \in 0 .. 2 * L - 1 /\ 2^n <= Value(x) /\ Value(x) < 2^(n + 1)
<1>1. L \in Nat \ {0} /\ Powers(L)
  BY WordFacts
<1>2. PICK b \in Nat \ {0} : b = 2^L
  BY WordFacts
<1>3. PICK h \in 0 .. b - 1 : h = x.hi
  BY <1>2, ValueIs
<1>4. PICK l \in 0 .. b - 1 : l = x.lo
  BY <1>2, ValueIs
<1>5. PICK v \in Nat : v = Value(x) /\ v = h * b + l
  BY <1>2, <1>3, <1>4, ValueIs DEF Value
<1>6. ASSUME NEW w \in 1 .. b - 1
      PROVE  LET k == TopBit(w) IN k \in 0 .. L - 1 /\ 2^k <= w /\ w < 2^(k + 1)
  <2>1. \E k \in 0 .. L - 1 : 2^k <= w /\ w < 2^(k + 1)
    BY <1>1, <1>2, TopExists
  <2> QED
    BY <2>1 DEF TopBit
<1>7. CASE h # 0
  <2>1. PICK t \in 0 .. L - 1 : t = TopBit(h) /\ 2^t <= h /\ h < 2^(t + 1)
    BY <1>6, <1>7
  <2>2. PICK n : n = L + t
    OBVIOUS
  <2>3. highBit(x) = n
    BY <1>3, <1>7, <2>1, <2>2 DEF highBit
  <2>4. n \in 0 .. 2 * L - 1 /\ n + 1 = L + (t + 1) /\ t \in 0 .. L /\ t + 1 \in 0 .. L
    BY <1>1, <2>1, <2>2
  <2>5. PICK p \in Nat : p = 2^t
    BY <1>1, <2>4 DEF Powers
  <2>6. PICK q \in Nat : q = 2^(t + 1)
    BY <1>1, <2>4 DEF Powers
  <2>7. 2^n = b * p /\ 2^(n + 1) = b * q
    BY <1>2, <2>2, <2>4, <2>5, <2>6, WordFacts
  <2>8. b * p <= v
    <3>1. p <= h
      BY <2>1, <2>5
    <3>2. p * b <= h * b
      <4>1. CASE p = h
        BY <4>1
      <4>2. CASE p < h
        <5>1. p * b + b <= h * b
          BY <4>2, NextMultiple
        <5>2. p * b \in Nat /\ h * b \in Nat
          OBVIOUS
        <5> QED
          BY <5>1, <5>2
      <4> QED
        BY <3>1, <4>1, <4>2
    <3>3. p * b = b * p /\ p * b \in Nat /\ h * b \in Nat
      OBVIOUS
    <3> QED
      BY <1>5, <3>2, <3>3
  <2>9. v < b * q
    <3>1. h < q
      BY <2>1, <2>6
    <3>2. h * b + b <= q * b
      BY <3>1, NextMultiple
    <3>3. q * b = b * q /\ q * b \in Nat /\ h * b \in Nat
      OBVIOUS
    <3> QED
      BY <1>5, <3>2, <3>3
  <2> QED
    BY <1>5, <2>3, <2>4, <2>7, <2>8, <2>9
<1>8. CASE h = 0
  <2>1. v = l /\ l # 0 /\ l \in 1 .. b - 1
    BY <1>5, <1>8
  <2>2. PICK t \in 0 .. L - 1 : t = TopBit(l) /\ 2^t <= l /\ l < 2^(t + 1)
    BY <1>6, <2>1
  <2>3. highBit(x) = t
    BY <1>3, <1>4, <1>8, <2>1, <2>2 DEF highBit
  <2>4. t \in 0 .. 2 * L - 1
    BY <1>1, <2>2
  <2> QED
    BY <1>5, <2>1, <2>2, <2>3, <2>4
<1> QED
  BY <1>7, <1>8

-----------------------------------------------------------------------------
LEMMA FamilyIs ==
  /\ Width \in 1 .. 2 * L /\ Powers(Width)
  /\ 2^Width \in Nat \ {0} /\ 2^Width <= 2^(2 * L)
  /\ \A x \in Addr : x \in Nat /\ x < 2^Width /\ x \in 0 .. 2^(2 * L) - 1
<1>1. Width \in 1 .. 2 * L /\ Powers(Width)
  BY WordFacts DEF Width
<1>2. Width \in 0 .. 2 * L /\ 2 * L \in 0 .. 2 * L /\ Powers(2 * L)
  BY <1>1, WordFacts
<1>3. 2^Width \in Nat \ {0} /\ 2^Width <= 2^(2 * L) /\ 2^(2 * L) \in Nat
  BY <1>2, PowerProduct
<1> QED
  BY <1>1, <1>3 DEF Addr

(* The cursor is in the range. *)
InRange ==
  /\ v4 \in BOOLEAN /\ lo \in Addr /\ hi \in Addr
  /\ a \in u128 /\ lo <= Value(a) /\ Value(a) <= hi

(* fitK: the powers of two up to it fit into what is left, the whole family
   included, whose size is one more than two words of IPv6 can hold. *)
LEMMA FitIs ==
  ASSUME InRange
  PROVE  FitK \in 0 .. Width
         /\ \A n \in 0 .. Width : 2^n <= hi - Value(a) + 1 <=> n <= FitK
<1>1. PICK w \in 1 .. 2 * L : w = Width
  BY FamilyIs
<1>2. PICK f \in Nat \ {0} : f = 2^w
  BY <1>1, FamilyIs
<1>3. /\ Powers(w) /\ Powers(2 * L) /\ w \in 0 .. 2 * L
      /\ f <= 2^(2 * L) /\ 2^(2 * L) \in Nat /\ L \in Nat
  BY <1>1, <1>2, FamilyIs, WordFacts
<1>4. PICK x \in Nat : x = Value(a)
  BY ValueIs DEF InRange
<1>5. hi \in Nat /\ x <= hi /\ hi < f
  BY <1>1, <1>2, <1>4, FamilyIs DEF InRange
<1>6. PICK d : d = sub(From(hi), a)
  OBVIOUS
<1>7. d \in u128 /\ Value(d) = hi - x
  <2>1. From(hi) \in u128 /\ Value(From(hi)) = hi
    BY FromIs, FamilyIs DEF InRange
  <2>2. a \in u128
    BY DEF InRange
  <2> QED
    BY <1>4, <1>5, <1>6, <2>1, <2>2, SubIs
<1>8. lowMask(w) \in u128 /\ Value(lowMask(w)) = f - 1
  <2>1. PICK i : i = 2^MaskHi(w) - 1
    OBVIOUS
  <2>2. PICK j : j = 2^MaskLo(w) - 1
    OBVIOUS
  <2>3. /\ lowMask(w) = U(i, j) /\ i \in 0 .. 2^L - 1 /\ j \in 0 .. 2^L - 1
        /\ i * 2^L + j = f - 1
    BY <1>2, <1>3, <2>1, <2>2, MaskIs
  <2> QED
    BY <2>3, MakeWords
<1>9. CASE d = lowMask(w)
  <2>1. FitK = w
    BY <1>1, <1>6, <1>9 DEF FitK
  <2>2. hi - x + 1 = f
    BY <1>2, <1>5, <1>7, <1>8, <1>9
  <2>3. ASSUME NEW n \in 0 .. w PROVE 2^n <= hi - x + 1 /\ n <= w
    <3>1. w \in 0 .. w
      BY <1>1
    <3>2. 2^n <= 2^w
      BY <1>3, <3>1, PowerProduct
    <3> QED
      BY <1>2, <2>2, <3>2
  <2> QED
    BY <1>1, <1>3, <1>4, <2>1, <2>3
<1>10. CASE d # lowMask(w)
  <2>1. hi - x # f - 1
    BY <1>7, <1>8, <1>10, LessIs
  <2>2. PICK s \in Nat : s = hi - x + 1
    BY <1>5
  <2>3. s # 0 /\ s < f /\ s < 2^(2 * L)
    BY <1>3, <1>5, <2>1, <2>2
  <2>4. PICK y : y = add(d, U(0, 1))
    OBVIOUS
  <2>5. y \in u128 /\ Value(y) = s
    BY <1>5, <1>7, <2>2, <2>3, <2>4, IncIs
  <2>6. PICK n : n = highBit(y)
    OBVIOUS
  <2>7. n \in 0 .. 2 * L - 1 /\ 2^n <= s /\ s < 2^(n + 1)
    BY <2>3, <2>5, <2>6, HighIs
  <2>8. ASSUME NEW k \in 0 .. 2 * L PROVE 2^k <= s <=> k <= n
    BY <1>3, <2>7, TopBounds
  <2>9. FitK = n
    BY <1>1, <1>6, <1>10, <2>4, <2>6 DEF FitK
  <2>10. n < w
    BY <1>2, <1>3, <2>3, <2>7, <2>8
  <2>11. \A k \in 0 .. w : k \in 0 .. 2 * L
    BY <1>3
  <2> QED
    BY <1>1, <1>4, <2>2, <2>7, <2>8, <2>9, <2>10, <2>11
<1> QED
  BY <1>9, <1>10

(* alignK: the powers of two up to it divide the cursor. *)
LEMMA AlignIs ==
  ASSUME InRange
  PROVE  AlignK \in 0 .. Width
         /\ \A n \in 0 .. Width : Value(a) % 2^n = 0 <=> n <= AlignK
<1>1. PICK w \in 1 .. 2 * L : w = Width
  BY FamilyIs
<1>2. PICK t : t = trailingZeros(a)
  OBVIOUS
<1>3. t \in 0 .. 2 * L /\ \A n \in 0 .. 2 * L : Value(a) % 2^n = 0 <=> n <= t
  BY <1>2, ZerosIs DEF InRange, ZerosAre
<1>4. L \in Nat
  BY WordFacts
<1>5. AlignK = IF t > w THEN w ELSE t
  BY <1>1, <1>2 DEF AlignK
<1>6. 0 .. w \subseteq 0 .. 2 * L
  BY <1>1, <1>4
<1> QED
  BY <1>1, <1>3, <1>4, <1>5, <1>6

(* An iteration takes the largest block of the family that starts at the
   cursor and stays in the range, and the last block of a family ends it. *)
LEMMA IterateIs ==
  ASSUME InRange, Iterate
  PROVE  \E k \in 0 .. Width :
           /\ 2^k \in Nat \ {0} /\ Value(a) % 2^k = 0 /\ Value(a) + (2^k - 1) <= hi
           /\ \A n \in 0 .. Width : Value(a) % 2^n = 0 /\ Value(a) + (2^n - 1) <= hi => n <= k
           /\ dst' = Append(dst, [base |-> Value(a), bits |-> Width - k])
           /\ Value(a) + (2^k - 1) >= hi => pc' = "done" /\ a' = a
           /\ Value(a) + (2^k - 1) < hi =>
                pc' = "split" /\ a' \in u128 /\ Value(a') = Value(a) + 2^k
           /\ UNCHANGED <<v4, lo, hi>>
<1>1. PICK w \in 1 .. 2 * L : w = Width
  BY FamilyIs
<1>2. Powers(w) /\ w \in Nat /\ L \in Nat
  BY <1>1, FamilyIs, WordFacts
<1>3. PICK x \in Nat : x = Value(a)
  BY ValueIs DEF InRange
<1>4. hi \in Nat /\ x <= hi /\ hi < 2^w /\ 2^w \in Nat /\ 2^w <= 2^(2 * L) /\ 2^(2 * L) \in Nat
  <2>1. hi \in Nat /\ hi < 2^w
    BY <1>1, FamilyIs DEF InRange
  <2>2. 2^w \in Nat /\ 2^w <= 2^(2 * L)
    BY <1>1, FamilyIs
  <2> QED
    BY <1>3, <2>1, <2>2, WordFacts DEF InRange
<1>5. PICK k : k = BlockK
  OBVIOUS
<1>6. /\ k \in 0 .. w
      /\ \A n \in 0 .. w : n <= k <=> x % 2^n = 0 /\ 2^n <= hi - x + 1
  <2>1. PICK f \in 0 .. w : f = FitK /\ \A n \in 0 .. w : 2^n <= hi - x + 1 <=> n <= f
    BY <1>1, <1>3, FitIs
  <2>2. PICK g \in 0 .. w : g = AlignK /\ \A n \in 0 .. w : x % 2^n = 0 <=> n <= g
    BY <1>1, <1>3, AlignIs
  <2>3. k = IF f < g THEN f ELSE g
    BY <1>5, <2>1, <2>2 DEF BlockK
  <2>4. \A n \in 0 .. w : n <= k <=> n <= f /\ n <= g
    BY <1>2, <2>3
  <2> QED
    BY <2>1, <2>2, <2>3, <2>4
<1>7. \A n \in 0 .. w : 2^n \in Nat \ {0}
  BY <1>2 DEF Powers
<1>8. PICK u \in Nat \ {0} : u = 2^k
  BY <1>6, <1>7
<1>9. x % u = 0 /\ u <= hi - x + 1
  BY <1>2, <1>6, <1>8
<1>10. ASSUME NEW n \in 0 .. w, x % 2^n = 0, x + (2^n - 1) <= hi PROVE n <= k
  <2>1. 2^n <= hi - x + 1
    BY <1>3, <1>4, <1>7, <1>10
  <2> QED
    BY <1>6, <1>10, <2>1
<1>11. PICK b : b = or(a, lowMask(k))
  OBVIOUS
<1>12. b \in u128 /\ Value(b) = x + (u - 1)
  <2>1. k \in 0 .. 2 * L /\ a \in u128 /\ Value(a) % 2^k = 0
    BY <1>2, <1>3, <1>6, <1>8, <1>9 DEF InRange
  <2> QED
    BY <1>3, <1>8, <1>11, <2>1, OrIs
<1>13. less(b, From(hi)) <=> x + (u - 1) < hi
  <2>1. From(hi) \in u128 /\ Value(From(hi)) = hi
    BY FromIs, FamilyIs DEF InRange
  <2> QED
    BY <1>12, <2>1, LessIs
<1>14. to(a) = x
  <2>1. x \in 0 .. 2^w - 1 /\ 2^w \in Nat \ {0}
    BY <1>4, <1>7, <1>2
  <2>2. x % 2^w = x
    BY <2>1, SmallRemainder
  <2> QED
    BY <1>1, <1>3, <2>2 DEF to, Value
<1>15. /\ dst' = Append(dst, [base |-> x, bits |-> w - k])
       /\ UNCHANGED <<v4, lo, hi>>
       /\ \/ ~less(b, From(hi)) /\ pc' = "done" /\ a' = a
          \/ less(b, From(hi)) /\ pc' = "split" /\ a' = add(b, U(0, 1))
  BY <1>1, <1>5, <1>11, <1>14 DEF Iterate
<1>16. ASSUME x + (u - 1) < hi
       PROVE  LET y == add(b, U(0, 1)) IN y \in u128 /\ Value(y) = x + u
  <2>1. Value(b) + 1 < 2^(2 * L)
    BY <1>4, <1>12, <1>16
  <2> QED
    BY <1>12, <2>1, IncIs
<1>17. /\ x + (u - 1) >= hi => pc' = "done" /\ a' = a
       /\ x + (u - 1) < hi => pc' = "split" /\ a' \in u128 /\ Value(a') = x + u
  BY <1>4, <1>13, <1>15, <1>16
<1>18. x + (u - 1) <= hi
  BY <1>4, <1>9
<1> QED
  BY <1>1, <1>3, <1>6, <1>8, <1>9, <1>10, <1>15, <1>17, <1>18
-----------------------------------------------------------------------------
(* How many blocks there can be.  While the blocks grow, each is aligned
   further than the one before; once one was cut short, what is left is less
   than it, and they shrink. *)
Most(w) == IF w = 1 THEN 1 ELSE 2 * w - 2
Growing(n, x, w) == n \in 0 .. w /\ x % 2^n = 0 /\ (n > 0 => x # 0)
Shrinking(n, x, h, w) == \E m \in 1 .. w : x % 2^m = 0 /\ h - x + 1 < 2^m /\ n + m <= Most(w)

LEMMA CountStep ==
  ASSUME NEW w \in Nat \ {0}, Powers(w), NEW h \in Nat, h < 2^w, NEW x \in Nat, NEW n \in Nat,
         NEW k \in 0 .. w, x % 2^k = 0, x + (2^k - 1) <= h,
         \A j \in 0 .. w : x % 2^j = 0 /\ x + (2^j - 1) <= h => j <= k,
         Growing(n, x, w) \/ Shrinking(n, x, h, w)
  PROVE  /\ n + 1 <= Most(w)
         /\ x + (2^k - 1) < h => Growing(n + 1, x + 2^k, w) \/ Shrinking(n + 1, x + 2^k, h, w)
<1>0. \A j \in 0 .. w : 2^j \in Nat \ {0}
  BY DEF Powers
<1>1. PICK u \in Nat \ {0} : u = 2^k
  BY <1>0
<1>2. PICK f \in Nat \ {0} : f = 2^w
  <2>1. w \in 0 .. w
    OBVIOUS
  <2> QED
    BY <1>0, <2>1
<1>3. x % u = 0 /\ x + (u - 1) <= h /\ h < f
  BY <1>1, <1>2
<1>4. PICK c \in Nat : x = c * u
  BY <1>3, AlignedIs
<1>5. PICK y \in Nat : y = x + u
  OBVIOUS
<1>6. y = (c + 1) * u /\ y % u = 0
  <2>1. y = (c + 1) * u /\ c + 1 \in Nat
    BY <1>4, <1>5
  <2> QED
    BY <2>1, AlignedIs
<1>7. ASSUME k < w PROVE 2^(k + 1) = 2 * u
  <2>1. PICK m \in 0 .. w : m = k + 1
    BY <1>7
  <2>2. 1 \in 0 .. m /\ m - 1 = k
    BY <2>1
  <2>3. 2^m = 2^1 * 2^(m - 1)
    BY <2>2, PowerProduct
  <2>4. 2^1 = 2
    BY DEF Powers
  <2> QED
    BY <1>1, <2>1, <2>2, <2>3, <2>4
(* A block that was cut short leaves less than its size. *)
<1>8. ASSUME k < w, x % 2^(k + 1) = 0, x + (u - 1) < h
      PROVE  k \in 1 .. w /\ h - y + 1 < u
  <2>1. k + 1 \in 0 .. w /\ ~(k + 1 <= k)
    BY <1>8
  <2>2. ~(x + (2 * u - 1) <= h)
    BY <1>7, <1>8, <2>1
  <2>3. h - y + 1 < u
    BY <1>5, <2>2
  <2>4. u # 1
    BY <1>5, <1>8, <2>3
  <2>5. k # 0
    <3>1. 2^0 = 1
      BY DEF Powers
    <3> QED
      BY <1>1, <2>4, <3>1
  <2> QED
    BY <2>3, <2>5
<1>9. CASE Shrinking(n, x, h, w)
  <2>1. PICK m \in 1 .. w : x % 2^m = 0 /\ h - x + 1 < 2^m /\ n + m <= Most(w)
    BY <1>9 DEF Shrinking
  <2>2. k < m
    <3>1. ASSUME m <= k PROVE FALSE
      <4>1. m \in 0 .. k /\ 2^m \in Nat
        BY <1>0, <2>1, <3>1
      <4>2. 2^m <= u
        BY <1>1, <4>1, PowerProduct
      <4> QED
        BY <1>3, <2>1, <4>1, <4>2
    <3> QED
      BY <2>1, <3>1
  <2>3. Most(w) \in Int
    BY DEF Most
  <2>4. ASSUME x + (u - 1) < h PROVE Shrinking(n + 1, y, h, w)
    <3>1. k < w /\ k + 1 \in 0 .. m /\ m \in 0 .. w
      BY <2>1, <2>2
    <3>2. x % 2^(k + 1) = 0
      BY <2>1, <3>1, AlignedDown
    <3>3. k \in 1 .. w /\ h - y + 1 < u
      BY <1>8, <2>4, <3>1, <3>2
    <3>4. n + 1 + k <= Most(w)
      BY <2>1, <2>2, <2>3
    <3> QED
      BY <1>1, <1>6, <3>3, <3>4 DEF Shrinking
  <2>5. n + 1 <= Most(w)
    BY <2>1, <2>3
  <2> QED
    BY <1>1, <1>5, <2>4, <2>5
<1>10. CASE Growing(n, x, w)
  <2>1. n \in 0 .. w /\ x % 2^n = 0 /\ (n > 0 => x # 0)
    BY <1>10 DEF Growing
  <2>2. n < w
    <3>1. ASSUME n = w PROVE FALSE
      <4>1. x % f = 0 /\ x # 0
        BY <1>2, <2>1, <3>1
      <4>2. x \in 0 .. f - 1
        BY <1>3
      <4> QED
        BY <4>1, <4>2, SmallRemainder
    <3> QED
      BY <2>1, <3>1
  <2>3. n + 1 <= Most(w)
    BY <2>2 DEF Most
  <2>4. ASSUME x + (u - 1) < h PROVE Growing(n + 1, y, w) \/ Shrinking(n + 1, y, h, w)
    <3>1. k < w
      <4>1. k = w => u = f
        BY <1>1, <1>2
      <4> QED
        BY <1>3, <2>4, <4>1
    <3>2. CASE x % 2^(k + 1) # 0
      <4>1. n <= k
        <5>1. ASSUME k < n PROVE FALSE
          <6>1. k + 1 \in 0 .. n
            BY <5>1
          <6> QED
            BY <2>1, <3>2, <6>1, AlignedDown
        <5> QED
          BY <2>1, <5>1
      <4>2. y % 2^(k + 1) = 0
        <5>1. PICK v \in Nat \ {0} : v = 2 * u /\ v = 2^(k + 1)
          BY <1>7, <3>1
        <5>2. PICK e \in Nat : c = 2 * e \/ c = 2 * e + 1
          <6>1. c = (c \div 2) * 2 + (c % 2) /\ c % 2 \in 0 .. 1 /\ c \div 2 \in Nat
            BY Division
          <6> QED
            BY <6>1
        <5>3. c # 2 * e
          <6>1. ASSUME c = 2 * e PROVE FALSE
            <7>1. x = e * v
              BY <1>4, <5>1, <6>1
            <7>2. x % v = 0
              BY <7>1, AlignedIs
            <7> QED
              BY <3>2, <5>1, <7>2
          <6> QED
            BY <6>1
        <5>4. y = (e + 1) * v /\ e + 1 \in Nat
          BY <1>6, <5>1, <5>2, <5>3
        <5>5. y % v = 0
          BY <5>4, AlignedIs
        <5> QED
          BY <5>1, <5>5
      <4>3. n + 1 \in 0 .. k + 1 /\ k + 1 \in 0 .. w
        BY <3>1, <4>1
      <4>4. y % 2^(n + 1) = 0
        BY <4>2, <4>3, AlignedDown
      <4>5. y # 0 /\ n + 1 \in 0 .. w
        BY <1>5, <2>1, <2>2
      <4> QED
        BY <4>4, <4>5 DEF Growing
    <3>3. CASE x % 2^(k + 1) = 0
      <4>1. k \in 1 .. w /\ h - y + 1 < u
        BY <1>8, <2>4, <3>1, <3>3
      <4>2. w # 1
        BY <3>1, <4>1
      <4>3. ~(n = w - 1 /\ k = w - 1)
        <5> SUFFICES ASSUME n = w - 1, k = w - 1 PROVE FALSE
          OBVIOUS
        <5>1. f = 2 * u
          BY <1>2, <1>7, <3>1
        <5>2. x # 0
          BY <2>1, <4>2
        <5>3. c # 0
          BY <1>4, <5>2
        <5>4. x >= u
          BY <1>4, <5>3
        <5> QED
          BY <1>3, <2>4, <5>1, <5>4
      <4>4. n + 1 + k <= Most(w)
        BY <2>2, <3>1, <4>2, <4>3 DEF Most
      <4> QED
        BY <1>1, <1>6, <4>1, <4>4 DEF Shrinking
    <3> QED
      BY <3>2, <3>3
  <2> QED
    BY <1>1, <1>5, <2>3, <2>4
<1> QED
  BY <1>9, <1>10
-----------------------------------------------------------------------------
(* The prefixes of both families, and those taken so far. *)
BothFamilies == FamilyPrefixes(W4, 0) \cup FamilyPrefixes(2 * L, 2^W4)

Taken(p) == [lo |-> Lift(p.base), hi |-> Lift(End(p))]
TakenOf(s) == {Taken(s[i]) : i \in 1 .. Len(s)}

PrefixRecord == [base : Addr, bits : 0 .. Width]

(* The blocks taken fill the range up to the cursor, each is as large as the
   range allows, one follows on the other, and there are not too many. *)
CoverTypes ==
  /\ v4 \in BOOLEAN /\ lo \in Addr /\ hi \in Addr
  /\ a \in u128 /\ pc \in {"split", "done"}
  /\ dst \in Seq(PrefixRecord)
  /\ hi < lo => pc = "done" /\ dst = <<>>

Splitting ==
  /\ InRange
  /\ FilledUpTo(BothFamilies, Lift(lo), Lift(hi), TakenOf(dst), Lift(Value(a)))
  /\ Len(dst) > 0 => Value(a) = End(dst[Len(dst)]) + 1
  /\ \/ Growing(Len(dst), Value(a), Width)
     \/ Shrinking(Len(dst), Value(a), hi, Width)

Ended ==
  /\ lo <= hi =>
       FilledUpTo(BothFamilies, Lift(lo), Lift(hi), TakenOf(dst), Lift(hi) + 1)
  /\ Len(dst) <= Most(Width)
  /\ Value(a) < 2^Width

Chained == \A i \in 2 .. Len(dst) : dst[i].base = End(dst[i - 1]) + 1

CoverInv ==
  /\ CoverTypes
  /\ pc = "split" => Splitting
  /\ pc = "done" => Ended
  /\ Chained

LEMMA BothNested ==
  Nested(BothFamilies)
<1>1. Powers(2 * L) /\ Powers(W4)
  BY WordFacts
<1>2. BothFamilies = ShiftedBlocks(W4, 0) \cup ShiftedBlocks(2 * L, 2^W4)
  BY DEF BothFamilies, FamilyPrefixes, ShiftedBlocks
<1> QED
  BY <1>1, <1>2, FamiliesNested

(* An address of its own family, and where the family begins. *)
Offset == IF v4 THEN 0 ELSE 2^W4

LEMMA LiftIs ==
  Offset \in Nat /\ \A x \in Nat : Lift(x) = Offset + x
<1>1. 2^W4 \in Nat
  BY WordFacts DEF Powers
<1> QED
  BY <1>1 DEF Offset, Lift

(* The largest prefix at x that ends by h, among both families: the ones of
   the other family start elsewhere. *)
LEMMA LargestAt ==
  ASSUME NEW x \in Addr, NEW h \in Addr, NEW k \in 0 .. Width,
         x % 2^k = 0, x + (2^k - 1) <= h,
         \A n \in 0 .. Width : x % 2^n = 0 /\ x + (2^n - 1) <= h => n <= k
  PROVE  LET p == [lo |-> Offset + x, hi |-> Offset + x + (2^k - 1)]
         IN p \in BothFamilies /\ \A q \in BothFamilies : q.lo = Offset + x /\ q.hi <= Offset + h => q.hi <= p.hi
<1>1. PICK w \in 1 .. 2 * L : w = Width
  BY FamilyIs
<1>2. /\ Powers(w) /\ Powers(2 * L) /\ Powers(W4) /\ 2^w \in Nat \ {0} /\ 2^W4 \in Nat \ {0}
      /\ 0 \in Nat
  BY <1>1, FamilyIs, WordFacts DEF Powers
<1>3. x \in 0 .. 2^w - 1 /\ x \in Nat /\ h \in Nat
  BY <1>1, FamilyIs DEF Addr
<1>4. PICK s \in Nat : s = Offset
  BY LiftIs
<1>5. PICK u \in Nat \ {0} : u = 2^k
  BY <1>1, <1>2 DEF Powers
<1>6. BothFamilies = ShiftedBlocks(W4, 0) \cup ShiftedBlocks(2 * L, 2^W4)
  BY DEF BothFamilies, FamilyPrefixes, ShiftedBlocks
<1>7. /\ ShiftedBlocks(w, s) \subseteq BothFamilies
      /\ \A q \in BothFamilies : q \in ShiftedBlocks(w, s) \/ q.lo # s + x
  <2>1. CASE v4
    <3>1. w = W4 /\ s = 0
      BY <1>1, <1>4, <2>1 DEF Width, Offset
    <3>2. ASSUME NEW q \in ShiftedBlocks(2 * L, 2^W4) PROVE q.lo # s + x
      <4>1. q.lo \in Nat /\ 2^W4 <= q.lo
        BY <1>2, ShiftedNest
      <4> QED
        BY <1>2, <1>3, <3>1, <4>1
    <3> QED
      BY <1>6, <3>1, <3>2
  <2>2. CASE ~v4
    <3>1. w = 2 * L /\ s = 2^W4
      BY <1>1, <1>4, <2>2 DEF Width, Offset
    <3>2. ASSUME NEW q \in ShiftedBlocks(W4, 0) PROVE q.lo # s + x
      <4>1. q.lo \in Nat /\ q.hi \in Nat /\ q.lo <= q.hi /\ q.hi < 0 + 2^W4
        BY <1>2, ShiftedNest
      <4> QED
        BY <1>2, <1>3, <3>1, <4>1
    <3> QED
      BY <1>6, <3>1, <3>2
  <2> QED
    BY <2>1, <2>2
<1>8. [lo |-> s + x, hi |-> s + x + (u - 1)] \in BothFamilies
  <2>1. [lo |-> s + x, hi |-> s + x + (2^k - 1)] \in ShiftedBlocks(w, s)
    BY <1>1, <1>2, <1>3, ShiftedHas
  <2> QED
    BY <1>5, <1>7, <2>1
<1>9. ASSUME NEW q \in BothFamilies, q.lo = s + x, q.hi <= s + h PROVE q.hi <= s + x + (u - 1)
  <2>1. q \in ShiftedBlocks(w, s)
    BY <1>7, <1>9
  <2>2. PICK n \in 0 .. w, y \in 0 .. 2^w - 1 :
          /\ y % 2^n = 0 /\ 2^n \in Nat \ {0} /\ y + (2^n - 1) <= 2^w - 1
          /\ q = [lo |-> s + y, hi |-> s + y + (2^n - 1)]
    BY <1>2, <2>1, ShiftedIs
  <2>3. q.lo = s + y /\ q.hi = s + y + (2^n - 1) /\ y \in Nat
    BY <1>2, <2>2
  <2>4. y = x
    BY <1>3, <1>9, <2>3
  <2>5. x + (2^n - 1) <= h
    BY <1>3, <1>9, <2>2, <2>3, <2>4
  <2>6. n <= k
    BY <1>1, <2>2, <2>4, <2>5
  <2>7. n \in 0 .. k /\ k \in 0 .. w
    BY <1>1, <2>2, <2>6
  <2>8. 2^n <= 2^k
    BY <1>2, <2>7, PowerProduct
  <2> QED
    BY <1>3, <1>5, <2>2, <2>3, <2>4, <2>8
<1> QED
  BY <1>4, <1>5, <1>8, <1>9

LEMMA TakenAppend ==
  ASSUME NEW s \in Seq(PrefixRecord), NEW r \in PrefixRecord
  PROVE  TakenOf(Append(s, r)) = TakenOf(s) \cup {Taken(r)}
<1>1. /\ Len(Append(s, r)) = Len(s) + 1 /\ Append(s, r)[Len(s) + 1] = r
      /\ \A i \in 1 .. Len(s) : Append(s, r)[i] = s[i]
      /\ Len(s) \in Nat
  OBVIOUS
<1>2. \A i : i \in 1 .. Len(s) + 1 <=> i \in 1 .. Len(s) \/ i = Len(s) + 1
  BY <1>1
<1>3. \A t : t \in TakenOf(Append(s, r)) <=> t \in TakenOf(s) \/ t = Taken(r)
  <2>1. TakenOf(Append(s, r)) = {Taken(Append(s, r)[i]) : i \in 1 .. Len(s) + 1}
    BY <1>1 DEF TakenOf
  <2>2. TakenOf(s) = {Taken(s[i]) : i \in 1 .. Len(s)}
    BY DEF TakenOf
  <2> HIDE DEF TakenOf
  <2> QED
    BY <1>1, <1>2, <2>1, <2>2
<1> QED
  BY <1>3

LEMMA CoverInvInit ==
  ASSUME Init
  PROVE  CoverInv
<1>1. /\ v4 \in BOOLEAN /\ lo \in Addr /\ hi \in Addr
      /\ dst = <<>> /\ a = From(lo)
      /\ pc = IF hi < lo THEN "done" ELSE "split"
  BY DEF Init
<1>2. PICK w \in Nat \ {0} : w = Width
  BY FamilyIs
<1>3. lo \in Nat /\ hi \in Nat /\ lo < 2^w
  BY <1>1, <1>2, FamilyIs
<1>4. a \in u128 /\ Value(a) = lo
  <2>1. lo \in 0 .. 2^(2 * L) - 1
    BY <1>1, FamilyIs
  <2> QED
    BY <1>1, <2>1, FromIs
<1>5. Len(dst) = 0 /\ dst \in Seq(PrefixRecord)
  BY <1>1
<1>6. TakenOf(dst) = {}
  BY <1>5 DEF TakenOf
<1>7. FilledUpTo(BothFamilies, Lift(lo), Lift(hi), {}, Lift(lo))
  <2>1. Lift(lo) \in Nat
    BY <1>3, LiftIs
  <2>2. ASSUME NEW x \in Nat PROVE ~(Lift(lo) <= x /\ x < Lift(lo))
    BY <2>1
  <2> QED
    BY <2>2 DEF FilledUpTo
<1>8. Growing(0, lo, w)
  <2>1. 2^0 = 1
    BY <1>2, FamilyIs DEF Powers
  <2>2. lo % 1 = 0
    BY <1>3
  <2> QED
    BY <1>2, <2>1, <2>2 DEF Growing
<1>9. 0 <= Most(w)
  BY DEF Most
<1>10. lo <= hi => InRange
  BY <1>1, <1>3, <1>4 DEF InRange
<1>11. CoverTypes
  BY <1>1, <1>3, <1>4, <1>5 DEF CoverTypes
<1>12. pc = "split" => Splitting
  <2>1. pc = "split" => InRange
    BY <1>1, <1>3, <1>10
  <2>2. FilledUpTo(BothFamilies, Lift(lo), Lift(hi), TakenOf(dst), Lift(Value(a)))
    BY <1>4, <1>6, <1>7
  <2>3. Growing(Len(dst), Value(a), Width)
    BY <1>2, <1>4, <1>5, <1>8
  <2> QED
    BY <1>5, <2>1, <2>2, <2>3 DEF Splitting
<1>13. pc = "done" => Ended
  BY <1>1, <1>2, <1>3, <1>4, <1>5, <1>9 DEF Ended
<1>14. Chained
  BY <1>5 DEF Chained
<1> QED
  BY <1>11, <1>12, <1>13, <1>14 DEF CoverInv

LEMMA CoverInvStep ==
  ASSUME CoverInv, [Next]_vars
  PROVE  CoverInv'
<1>1. CASE Iterate
  <2>1. pc = "split" /\ InRange
    BY <1>1 DEF Iterate, CoverInv, Splitting
  <2>2. PICK w \in Nat \ {0} : w = Width
    BY FamilyIs
  <2>3. PICK x \in Nat : x = Value(a)
    BY ValueIs DEF CoverInv, CoverTypes
  <2>4. PICK k \in 0 .. w :
          /\ 2^k \in Nat \ {0} /\ x % 2^k = 0 /\ x + (2^k - 1) <= hi
          /\ \A n \in 0 .. w : x % 2^n = 0 /\ x + (2^n - 1) <= hi => n <= k
          /\ dst' = Append(dst, [base |-> x, bits |-> w - k])
          /\ x + (2^k - 1) >= hi => pc' = "done" /\ a' = a
          /\ x + (2^k - 1) < hi => pc' = "split" /\ a' \in u128 /\ Value(a') = x + 2^k
          /\ UNCHANGED <<v4, lo, hi>>
    BY <1>1, <2>1, <2>2, <2>3, IterateIs
  <2>5. PICK u \in Nat \ {0} : u = 2^k
    BY <2>4
  <2>6. /\ lo \in Nat /\ hi \in Nat /\ lo <= x /\ x <= hi /\ hi < 2^w /\ 2^w \in Nat
        /\ Powers(w) /\ x + (u - 1) <= hi
        /\ Addr = 0 .. 2^w - 1 /\ lo \in Addr /\ hi \in Addr /\ a \in u128
        /\ v4 \in BOOLEAN
    BY <2>1, <2>2, <2>3, <2>4, <2>5, FamilyIs DEF InRange, Addr
  <2>7. PICK r : r = [base |-> x, bits |-> w - k]
    OBVIOUS
  <2>8. x \in Addr /\ w - k \in 0 .. w /\ r \in PrefixRecord
    BY <2>2, <2>4, <2>6, <2>7 DEF PrefixRecord
  <2>9. End(r) = x + (u - 1)
    <3>1. w - (w - k) = k
      BY <2>4
    <3>2. End(r) = x + 2^(w - (w - k)) - 1
      BY <2>2, <2>7 DEF End
    <3>3. End(r) = x + u - 1
      BY <2>5, <3>1, <3>2
    <3> QED
      BY <3>3
  <2>10. Lift(lo) = Offset + lo /\ Lift(hi) = Offset + hi /\ Lift(x) = Offset + x
         /\ Taken(r) = [lo |-> Offset + x, hi |-> Offset + x + (u - 1)] /\ Offset \in Nat
    <3>1. Offset \in Nat /\ \A y \in Nat : Lift(y) = Offset + y
      BY LiftIs
    <3>2. r.base = x /\ x + (u - 1) \in Nat
      BY <2>7
    <3> QED
      BY <2>6, <2>9, <3>1, <3>2 DEF Taken
  <2>11. FilledUpTo(BothFamilies, Offset + lo, Offset + hi, TakenOf(dst) \cup {Taken(r)}, Offset + x + u)
    <3>1. FilledUpTo(BothFamilies, Offset + lo, Offset + hi, TakenOf(dst), Offset + x)
      BY <2>1, <2>3, <2>10 DEF CoverInv, Splitting
    <3>2. Taken(r) \in BothFamilies
          /\ \A q \in BothFamilies : q.lo = Offset + x /\ q.hi <= Offset + hi => q.hi <= Taken(r).hi
      <4>1. LET p == [lo |-> Offset + x, hi |-> Offset + x + (2^k - 1)]
            IN p \in BothFamilies
               /\ \A q \in BothFamilies : q.lo = Offset + x /\ q.hi <= Offset + hi => q.hi <= p.hi
        <5>1. k \in 0 .. Width /\ hi \in Addr /\ x \in Addr
          BY <2>2, <2>6, <2>8
        <5> QED
          BY <2>2, <2>4, <5>1, LargestAt
      <4> QED
        BY <2>5, <2>10, <4>1
    <3>3. /\ Offset + lo \in Nat /\ Offset + hi \in Nat /\ Offset + x \in Nat /\ Offset + lo <= Offset + x
          /\ Taken(r).lo = Offset + x /\ Taken(r).hi = Offset + x + (u - 1) /\ Taken(r).hi <= Offset + hi
          /\ Taken(r).hi + 1 = Offset + x + u
      BY <2>6, <2>10
    <3>4. FilledUpTo(BothFamilies, Offset + lo, Offset + hi, TakenOf(dst) \cup {Taken(r)}, Taken(r).hi + 1)
      BY <3>1, <3>2, <3>3, BothNested, GreedyStep
    <3> QED
      BY <3>3, <3>4
  <2>12. dst \in Seq(PrefixRecord) /\ Len(dst) \in Nat
    BY DEF CoverInv, CoverTypes
  <2>13. /\ dst' = Append(dst, r) /\ dst' \in Seq(PrefixRecord)
         /\ Len(dst') = Len(dst) + 1 /\ dst'[Len(dst) + 1] = r
         /\ \A i \in 1 .. Len(dst) : dst'[i] = dst[i]
    BY <2>4, <2>7, <2>8, <2>12
  <2>14. /\ (\A p : End(p)' = End(p)) /\ Width' = Width /\ Addr' = Addr
         /\ (\A y : Lift(y)' = Lift(y)) /\ PrefixRecord' = PrefixRecord
    BY <2>4 DEF End, Width, Addr, Lift, PrefixRecord
  <2>15. TakenOf(dst)' = TakenOf(dst) \cup {Taken(r)}
    <3>3. TakenOf(dst)' = TakenOf(dst')
      BY <2>4 DEF TakenOf, Taken, Lift, End, Width
    <3> QED
      BY <2>8, <2>12, <2>13, <3>3, TakenAppend
  <2>16. \A i \in 2 .. Len(dst') : dst'[i].base = End(dst'[i - 1]) + 1
    <3> TAKE i \in 2 .. Len(dst')
    <3>1. CASE i <= Len(dst)
      <4>1. i \in 2 .. Len(dst) /\ i \in 1 .. Len(dst) /\ i - 1 \in 1 .. Len(dst)
        BY <2>12, <2>13, <3>1
      <4>2. dst[i].base = End(dst[i - 1]) + 1
        BY <4>1 DEF CoverInv, Chained
      <4> QED
        BY <2>13, <4>1, <4>2
    <3>2. CASE i = Len(dst) + 1
      <4>1. Len(dst) \in 1 .. Len(dst) /\ i - 1 = Len(dst) /\ Len(dst) > 0
        BY <2>12, <2>13, <3>2
      <4>2. x = End(dst[Len(dst)]) + 1
        BY <2>1, <2>3, <4>1 DEF CoverInv, Splitting
      <4>3. dst'[i].base = x /\ dst'[i - 1] = dst[Len(dst)]
        BY <2>7, <2>13, <3>2, <4>1
      <4> QED
        BY <4>2, <4>3
    <3> QED
      BY <2>12, <2>13, <3>1, <3>2
  <2>17. /\ Len(dst') <= Most(w)
         /\ x + (u - 1) < hi => \/ Growing(Len(dst'), x + u, w)
                                  \/ Shrinking(Len(dst'), x + u, hi, w)
    <3>1. PICK n \in Nat : n = Len(dst)
      BY <2>12
    <3>2. Growing(n, x, w) \/ Shrinking(n, x, hi, w)
      BY <2>1, <2>2, <2>3, <3>1 DEF CoverInv, Splitting
    <3>3. /\ n + 1 <= Most(w)
          /\ x + (2^k - 1) < hi => Growing(n + 1, x + 2^k, w) \/ Shrinking(n + 1, x + 2^k, hi, w)
      BY <2>4, <2>6, <3>2, CountStep
    <3> QED
      BY <2>5, <2>13, <3>1, <3>3
  <2>17a. CoverTypes' /\ Chained'
    <3>1. v4' \in BOOLEAN /\ lo' \in Addr /\ hi' \in Addr /\ ~(hi' < lo')
      BY <2>4, <2>6
    <3>2. a' \in u128 /\ pc' \in {"split", "done"}
      <4>1. x + (u - 1) < hi \/ x + (u - 1) >= hi
        BY <2>6
      <4> QED
        BY <2>4, <2>5, <2>6, <4>1
    <3>3. u128' = u128
      BY DEF u128, Word
    <3>4. CoverTypes'
      BY <2>13, <2>14, <3>1, <3>2, <3>3 DEF CoverTypes
    <3>5. Chained'
      BY <2>14, <2>16 DEF Chained
    <3> QED
      BY <3>4, <3>5
  <2>18. CASE x + (u - 1) < hi
    <3>1. pc' = "split" /\ a' \in u128 /\ Value(a') = x + u
      BY <2>4, <2>5, <2>18
    <3>2. Value(a)' = x + u
      BY <3>1 DEF Value
    <3>3. InRange'
      BY <2>4, <2>6, <2>14, <2>18, <3>1, <3>2 DEF InRange, u128, Word
    <3>4. FilledUpTo(BothFamilies, Lift(lo), Lift(hi), TakenOf(dst), Lift(Value(a)))'
      <4>1. Lift(lo)' = Offset + lo /\ Lift(hi)' = Offset + hi
        BY <2>4, <2>10 DEF Lift
      <4>2. Lift(Value(a))' = Offset + x + u
        <5>1. Lift(Value(a))' = Lift(x + u)
          BY <2>4, <3>2 DEF Lift
        <5> QED
          BY <2>10, <5>1, LiftIs
      <4>3. BothFamilies' = BothFamilies
        BY DEF BothFamilies, FamilyPrefixes
      <4> QED
        BY <2>11, <2>15, <4>1, <4>2, <4>3 DEF FilledUpTo, LargestBetween
    <3>5. (Value(a) = End(dst[Len(dst)]) + 1)'
      <4>1. End(dst[Len(dst)])' = End(r)
        BY <2>13, <2>4 DEF End, Width
      <4> QED
        BY <2>9, <3>2, <4>1
    <3>6. (Growing(Len(dst), Value(a), Width) \/ Shrinking(Len(dst), Value(a), hi, Width))'
      BY <2>2, <2>4, <2>14, <2>17, <2>18, <3>2 DEF Growing, Shrinking
    <3>7. Splitting'
      BY <3>3, <3>4, <3>5, <3>6 DEF Splitting
    <3> QED
      BY <2>17a, <3>1, <3>7 DEF CoverInv
  <2>19. CASE ~(x + (u - 1) < hi)
    <3>1. pc' = "done" /\ a' = a /\ x + (u - 1) = hi
      BY <2>4, <2>5, <2>6, <2>19
    <3>2. FilledUpTo(BothFamilies, Lift(lo), Lift(hi), TakenOf(dst), Lift(hi) + 1)'
      <4>1. Lift(lo)' = Offset + lo /\ Lift(hi)' = Offset + hi
        BY <2>4, <2>10 DEF Lift
      <4>2. Offset + x + u = Offset + hi + 1
        BY <2>6, <2>10, <3>1
      <4>3. BothFamilies' = BothFamilies
        BY DEF BothFamilies, FamilyPrefixes
      <4> QED
        BY <2>11, <2>15, <4>1, <4>2, <4>3 DEF FilledUpTo, LargestBetween
    <3>3. (Len(dst) <= Most(Width))'
      BY <2>2, <2>14, <2>17
    <3>4. (Value(a) < 2^Width)'
      <4>1. Value(a)' = x
        BY <2>3, <3>1 DEF Value
      <4> QED
        BY <2>2, <2>6, <2>14, <4>1
    <3>5. Ended'
      BY <3>2, <3>3, <3>4 DEF Ended
    <3> QED
      BY <2>17a, <3>1, <3>5 DEF CoverInv
  <2> QED
    BY <2>18, <2>19
<1>2. CASE UNCHANGED vars
  <2>1. UNCHANGED <<v4, lo, hi, dst, a, pc>>
    BY <1>2 DEF vars
  <2>2. /\ Width' = Width /\ Addr' = Addr /\ Value(a)' = Value(a)
        /\ u128' = u128 /\ PrefixRecord' = PrefixRecord /\ BothFamilies' = BothFamilies
        /\ TakenOf(dst)' = TakenOf(dst)
        /\ Lift(lo)' = Lift(lo) /\ Lift(hi)' = Lift(hi)
        /\ Lift(Value(a))' = Lift(Value(a)) /\ Chained' = Chained
    BY <2>1 DEF Width, Addr, Value, u128, Word, PrefixRecord, BothFamilies,
                FamilyPrefixes, TakenOf, Taken, Lift, End, Chained
  <2>3. CoverTypes'
    BY <2>1, <2>2 DEF CoverInv, CoverTypes
  <2>4. pc = "split" => Splitting'
    BY <2>1, <2>2 DEF CoverInv, Splitting, InRange, FilledUpTo, LargestBetween, Growing, Shrinking, End
  <2>5. pc = "done" => Ended'
    BY <2>1, <2>2 DEF CoverInv, Ended, FilledUpTo, LargestBetween
  <2> QED
    BY <2>1, <2>2, <2>3, <2>4, <2>5 DEF CoverInv
<1> QED
  BY <1>1, <1>2 DEF Next

LEMMA CoverIsMinimal ==
  ASSUME CoverInv
  PROVE  Minimal
<1>1. PICK w \in 1 .. 2 * L : w = Width
  BY FamilyIs
<1>2. CoverTypes /\ Chained /\ (pc = "split" => Splitting) /\ (pc = "done" => Ended)
  BY DEF CoverInv
<1>3. TypeOK
  BY <1>2 DEF CoverTypes, TypeOK, PrefixRecord
<1>4. \A i \in 1 .. Len(dst) : dst[i].bits <= Width
  <2> TAKE i \in 1 .. Len(dst)
  <2>1. dst[i] \in PrefixRecord
    BY <1>2 DEF CoverTypes
  <2>2. dst[i].bits \in 0 .. w
    BY <1>1, <2>1 DEF PrefixRecord
  <2> QED
    BY <1>1, <2>2
<1>5. /\ lo \in Nat /\ hi \in Nat
      /\ Lift(lo) \in Nat /\ Lift(hi) \in Nat /\ (Lift(lo) <= Lift(hi) <=> lo <= hi)
  <2>1. lo \in Nat /\ hi \in Nat
    BY <1>2, FamilyIs DEF CoverTypes
  <2>2. PICK s \in Nat : s = Offset
    BY LiftIs
  <2>3. Lift(lo) = s + lo /\ Lift(hi) = s + hi
    BY <2>1, <2>2, LiftIs
  <2> QED
    BY <2>1, <2>3
<1>6. ASSUME pc = "done"
      PROVE  TakenOf(dst) = LargestBetween(BothFamilies, Lift(lo), Lift(hi))
  <2>1. CASE lo <= hi
    BY <1>2, <1>5, <1>6, <2>1, BothNested, GreedyDone DEF Ended
  <2>2. CASE ~(lo <= hi)
    <3>1. TakenOf(dst) = {}
      BY <1>2, <1>5, <2>2 DEF CoverTypes, TakenOf
    <3>2. ASSUME NEW p \in LargestBetween(BothFamilies, Lift(lo), Lift(hi)) PROVE FALSE
      <4>1. p \in BothFamilies /\ Lift(lo) <= p.lo /\ p.hi <= Lift(hi)
        BY DEF LargestBetween
      <4>2. p.lo \in Nat /\ p.hi \in Nat /\ p.lo <= p.hi
        BY <4>1, BothNested DEF Nested
      <4> QED
        BY <1>5, <2>2, <4>1, <4>2
    <3> QED
      BY <3>1, <3>2
  <2> QED
    BY <2>1, <2>2
<1>7. Split!MinimalCover
  <2>1. {[lo |-> Lift(dst[i].base), hi |-> Lift(End(dst[i]))] : i \in 1 .. Len(dst)}
          = TakenOf(dst)
    BY DEF TakenOf, Taken
  <2>2. LargestBetween(BothFamilies, Lift(lo), Lift(hi)) = {p \in BothFamilies : Split!Maximal(p)}
    BY DEF LargestBetween, Split!Maximal, Split!Inside, Split!Around, BothFamilies
  <2> QED
    BY <1>6, <2>1, <2>2 DEF Split!MinimalCover, BothFamilies
<1>8. \A i \in 2 .. Len(dst) : dst[i].base = End(dst[i - 1]) + 1
  BY <1>2 DEF Chained
<1>9. Len(dst) <= Most(Width)
  <2>1. CASE pc = "done"
    BY <1>2, <2>1 DEF Ended
  <2>2. CASE pc = "split"
    <3>1. PICK n \in Nat : n = Len(dst)
      BY <1>2 DEF CoverTypes
    <3>2. PICK x \in Nat : x = Value(a)
      BY <1>2, ValueIs DEF CoverTypes
    <3>3. Growing(n, x, w) \/ Shrinking(n, x, hi, w)
      BY <1>1, <1>2, <2>2, <3>1, <3>2 DEF Splitting
    <3>4. ASSUME Shrinking(n, x, hi, w) PROVE n <= Most(w)
      BY <1>1, <3>4 DEF Shrinking, Most
    <3>5. ASSUME Growing(n, x, w) PROVE n <= Most(w)
      <4>1. x \in 0 .. 2^w - 1 /\ 2^w \in Nat \ {0}
        <5>1. InRange
          BY <1>2, <2>2 DEF Splitting
        <5>2. x <= hi /\ hi < 2^w /\ 2^w \in Nat \ {0}
          BY <1>1, <3>2, <5>1, FamilyIs DEF InRange
        <5> QED
          BY <1>5, <5>2
      <4>2. n # w
        <5>1. ASSUME n = w PROVE FALSE
          <6>1. x % 2^w = 0 /\ x # 0
            BY <1>1, <3>5, <5>1 DEF Growing
          <6> QED
            BY <4>1, <6>1, SmallRemainder
        <5> QED
          BY <5>1
      <4>3. n \in 0 .. w - 1
        BY <1>1, <3>5, <4>2 DEF Growing
      <4> QED
        BY <1>1, <4>3 DEF Most
    <3> QED
      BY <1>1, <3>1, <3>3, <3>4, <3>5
  <2> QED
    BY <1>2, <2>1, <2>2 DEF CoverTypes
<1> QED
  BY <1>3, <1>4, <1>7, <1>8, <1>9 DEF Minimal, Most

(* AppendRangePrefixes, for every word size and every range of both families:
   the prefixes it appends are valid, in order and without a gap, they are in
   the end the maximal ones inside the range, and there are at most
   2 * Width - 2 of them. *)
THEOREM CoverCorrect == Spec => []Minimal
<1>1. Init => CoverInv
  BY CoverInvInit
<1>2. CoverInv /\ [Next]_vars => CoverInv'
  BY CoverInvStep
<1>3. CoverInv => Minimal
  BY CoverIsMinimal
<1> QED
  BY <1>1, <1>2, <1>3, PTL DEF Spec

-----------------------------------------------------------------------------
(* The cursor as an address: the two words of it that the family uses. *)
LEMMA ToIs ==
  ASSUME a \in u128, Value(a) < 2^Width
  PROVE  to(a) = Value(a)
<1>1. 2^Width \in Nat \ {0} /\ Value(a) \in Nat
  BY FamilyIs, ValueIs
<1>2. Value(a) \in 0 .. 2^Width - 1
  BY <1>1
<1>3. Value(a) % 2^Width = Value(a)
  BY <1>1, <1>2, SmallRemainder
<1> QED
  BY <1>3 DEF to, Value

LEMMA SplitStarts ==
  ASSUME Init
  PROVE  Split!Init
<1>1. CoverInv /\ dst = <<>> /\ a = From(lo) /\ pc = IF hi < lo THEN "done" ELSE "split"
  BY CoverInvInit DEF Init
<1>2. lo \in Addr /\ hi \in Addr /\ a \in u128 /\ v4 \in BOOLEAN
  BY <1>1 DEF CoverInv, CoverTypes
<1>3. lo \in Nat /\ hi \in Nat /\ lo < 2^Width /\ hi < 2^Width
  BY <1>2, FamilyIs
<1>4. Value(a) = lo
  BY <1>1, <1>2, FamilyIs, FromIs
<1>5. to(a) = lo
  BY <1>2, <1>3, <1>4, ToIs
<1>6. 2^W4 \in Nat \ {0} /\ 2^(2 * L) \in Nat \ {0}
  BY WordFacts DEF Powers
<1>7. Lift(lo) \in Split!Addr /\ Lift(hi) \in Split!Addr
  <2>1. CASE v4
    BY <1>3, <1>6, <2>1 DEF Lift, Split!Addr, Width
  <2>2. CASE ~v4
    BY <1>3, <1>6, <2>2 DEF Lift, Split!Addr, Width
  <2> QED
    BY <2>1, <2>2
<1>8. (pc = "done") = (Lift(hi) < Lift(lo))
  BY <1>1, <1>3, LiftIs
<1>9. {[lo |-> Lift(dst[i].base), hi |-> Lift(End(dst[i]))] : i \in 1 .. Len(dst)} = {}
  BY <1>1
<1> QED
  BY <1>5, <1>7, <1>8, <1>9 DEF Split!Init

LEMMA SplitSteps ==
  ASSUME CoverInv, [Next]_vars
  PROVE  [Split!Next]_Split!vars
<1>1. CASE Iterate
  <2>1. pc = "split" /\ InRange
    BY <1>1 DEF Iterate, CoverInv, Splitting
  <2>2. PICK w \in Nat \ {0} : w = Width
    BY FamilyIs
  <2>3. PICK x \in Nat : x = Value(a)
    BY ValueIs DEF CoverInv, CoverTypes
  <2>4. PICK k \in 0 .. w :
          /\ 2^k \in Nat \ {0} /\ x % 2^k = 0 /\ x + (2^k - 1) <= hi
          /\ \A n \in 0 .. w : x % 2^n = 0 /\ x + (2^n - 1) <= hi => n <= k
          /\ dst' = Append(dst, [base |-> x, bits |-> w - k])
          /\ x + (2^k - 1) >= hi => pc' = "done" /\ a' = a
          /\ x + (2^k - 1) < hi => pc' = "split" /\ a' \in u128 /\ Value(a') = x + 2^k
          /\ UNCHANGED <<v4, lo, hi>>
    BY <1>1, <2>1, <2>2, <2>3, IterateIs
  <2>5. PICK u \in Nat \ {0} : u = 2^k
    BY <2>4
  <2>6. /\ lo \in Nat /\ hi \in Nat /\ lo <= x /\ x <= hi /\ hi < 2^w /\ 2^w \in Nat
        /\ x + (u - 1) <= hi
        /\ Addr = 0 .. 2^w - 1 /\ lo \in Addr /\ hi \in Addr /\ a \in u128
    BY <2>1, <2>2, <2>3, <2>4, <2>5, FamilyIs DEF InRange, Addr
  <2>7. PICK r : r = [base |-> x, bits |-> w - k]
    OBVIOUS
  <2>8. x \in Addr /\ w - k \in 0 .. w /\ r \in PrefixRecord
    BY <2>2, <2>4, <2>6, <2>7 DEF PrefixRecord
  <2>9. End(r) = x + (u - 1)
    <3>1. w - (w - k) = k
      BY <2>4
    <3>2. End(r) = x + 2^(w - (w - k)) - 1
      BY <2>2, <2>7 DEF End
    <3>3. End(r) = x + u - 1
      BY <2>5, <3>1, <3>2
    <3> QED
      BY <3>3
  <2>10. Offset \in Nat /\ \A y \in Nat : Lift(y) = Offset + y
    BY LiftIs
  <2>11. PICK p : p = [lo |-> Offset + x, hi |-> Offset + x + (u - 1)]
    OBVIOUS
  <2>12. /\ p \in BothFamilies
         /\ \A q \in BothFamilies : q.lo = Offset + x /\ q.hi <= Offset + hi => q.hi <= p.hi
    <3>1. k \in 0 .. Width /\ hi \in Addr /\ x \in Addr
      BY <2>2, <2>6, <2>8
    <3>2. LET t == [lo |-> Offset + x, hi |-> Offset + x + (2^k - 1)]
          IN t \in BothFamilies
             /\ \A q \in BothFamilies : q.lo = Offset + x /\ q.hi <= Offset + hi => q.hi <= t.hi
      BY <2>2, <2>4, <3>1, LargestAt
    <3> QED
      BY <2>5, <2>11, <3>2
  <2>13. Taken(r) = p /\ p.lo = Offset + x /\ p.hi = Offset + x + (u - 1)
    <3>1. r.base = x /\ x + (u - 1) \in Nat
      BY <2>7
    <3> QED
      BY <2>9, <2>10, <2>11, <3>1 DEF Taken
  <2>14. to(a) = x
    BY <2>2, <2>3, <2>6, ToIs
  <2>15. Split!Largest(p)
    <3>1. /\ Lift(to(a)) = Offset + x /\ Lift(hi) = Offset + hi
          /\ p.hi <= Offset + hi
      BY <2>6, <2>10, <2>13, <2>14
    <3> QED
      BY <2>12, <2>13, <3>1 DEF Split!Largest, BothFamilies
  <2>16. {[lo |-> Lift(dst[i].base), hi |-> Lift(End(dst[i]))] : i \in 1 .. Len(dst)}'
           = {[lo |-> Lift(dst[i].base), hi |-> Lift(End(dst[i]))] : i \in 1 .. Len(dst)}
               \cup {p}
    <3>1. dst \in Seq(PrefixRecord)
      BY DEF CoverInv, CoverTypes
    <3>2. TakenOf(dst') = TakenOf(dst) \cup {p}
      BY <2>4, <2>7, <2>8, <2>13, <3>1, TakenAppend
    <3>3. TakenOf(dst)' = TakenOf(dst')
      BY <2>4 DEF TakenOf, Taken, Lift, End, Width
    <3>4. TakenOf(dst)
            = {[lo |-> Lift(dst[i].base), hi |-> Lift(End(dst[i]))] : i \in 1 .. Len(dst)}
      BY DEF TakenOf, Taken
    <3>5. TakenOf(dst)'
            = {[lo |-> Lift(dst[i].base), hi |-> Lift(End(dst[i]))] : i \in 1 .. Len(dst)}'
      BY DEF TakenOf, Taken
    <3> QED
      BY <3>2, <3>3, <3>4, <3>5
  <2>17. /\ (pc = "done")' = (p.hi >= Lift(hi))
         /\ Lift(to(a))' = IF p.hi >= Lift(hi) THEN Lift(to(a)) ELSE p.hi + 1
    <3>1. Lift(hi) = Offset + hi
      BY <2>6, <2>10
    <3>2. CASE x + (u - 1) >= hi
      <4>1. pc' = "done" /\ a' = a /\ p.hi >= Lift(hi)
        BY <2>4, <2>5, <2>6, <2>10, <2>13, <3>1, <3>2
      <4>2. Lift(to(a))' = Lift(to(a))
        BY <2>4, <4>1 DEF Lift, to, Width
      <4> QED
        BY <4>1, <4>2
    <3>3. CASE x + (u - 1) < hi
      <4>1. pc' = "split" /\ a' \in u128 /\ Value(a') = x + u /\ ~(p.hi >= Lift(hi))
        BY <2>4, <2>5, <2>6, <2>10, <2>13, <3>1, <3>3
      <4>2. to(a') = x + u
        <5>1. x + u \in 0 .. 2^w - 1 /\ 2^w \in Nat \ {0}
          BY <2>6, <3>3
        <5>2. (x + u) % 2^w = x + u
          BY <5>1, SmallRemainder
        <5> QED
          BY <2>2, <4>1, <5>2 DEF to, Value
      <4>3. Lift(to(a))' = Lift(x + u)
        BY <2>4, <4>2 DEF Lift, to, Width
      <4>4. Lift(x + u) = p.hi + 1
        BY <2>6, <2>10, <2>13
      <4> QED
        BY <4>1, <4>3, <4>4
    <3> QED
      BY <2>6, <3>2, <3>3
  <2>18. UNCHANGED <<Lift(lo), Lift(hi)>>
    BY <2>4 DEF Lift
  <2>19. Split!Take
    <3>1. ~(pc = "done")
      BY <2>1
    <3> QED
      BY <2>12, <2>15, <2>16, <2>17, <2>18, <3>1 DEF Split!Take, BothFamilies
  <2> QED
    BY <2>19 DEF Split!Next
<1>2. CASE UNCHANGED vars
  BY <1>2 DEF vars, Split!vars, Lift, to, Width, End
<1> QED
  BY <1>1, <1>2 DEF Next

(* The two-word arithmetic computes the greedy split over numbers, whatever the
   words: every iteration takes the block that module RangeSplit takes. *)
THEOREM CoverSplits == Spec => ImplementsSplit
<1>1. Init => CoverInv /\ Split!Init
  BY CoverInvInit, SplitStarts
<1>2. CoverInv /\ [Next]_vars => CoverInv' /\ [Split!Next]_Split!vars
  BY CoverInvStep, SplitSteps
<1> QED
  BY <1>1, <1>2, PTL DEF Spec, ImplementsSplit, Split!Spec
=============================================================================
