----------------------------- MODULE DataLemmas -----------------------------
(***************************************************************************)
(* What the proofs need of numbers, sequences and prefixes: the least      *)
(* element of a set, induction for a set of numbers, division and the bits *)
(* of a number, what flattening or filtering a sequence gives when it      *)
(* grows, the elements of a set in an order, the prefixes of a family as   *)
(* aligned blocks of addresses, and what taking the largest block again    *)
(* and again covers.                                                       *)
(***************************************************************************)
EXTENDS Filters, FiniteSetsExt, FiniteSetTheorems, SequenceTheorems, WellFoundedInduction, TLAPS

(* A set of numbers has a least one: what induction over data rests on. *)
LEMMA LeastExists ==
  ASSUME NEW S \in SUBSET Nat, S # {}
  PROVE  \E x \in S : \A y \in S : x <= y
<1> DEFINE Less == {ss \in Nat \X Nat : ss[1] < ss[2]}
<1>1. IsWellFoundedOn(Less, Nat)
  BY NatLessThanWellFounded, Zenon DEF OpToRel
<1>2. \E x \in S : \A y \in S : ~(<<y, x>> \in Less)
  <2> HIDE DEF Less
  <2> QED
    BY <1>1, WFMin
<1>3. PICK x \in S : \A y \in S : ~(<<y, x>> \in Less)
  BY <1>2
<1>4. ASSUME NEW y \in S, ~(x <= y) PROVE FALSE
  <2>1. <<y, x>> \in Less
    BY <1>4
  <2> QED
    BY <1>3, <2>1
<1> QED
  BY <1>4

(* A set of numbers up to a bound has a greatest one. *)
LEMMA GreatestExists ==
  ASSUME NEW n \in Nat, NEW S \in SUBSET (0 .. n), S # {}
  PROVE  \E x \in S : \A y \in S : x >= y
<1> DEFINE T == {n - x : x \in S}
<1>1. T \in SUBSET Nat /\ T # {}
  OBVIOUS
<1>2. PICK t \in T : \A u \in T : t <= u
  <2> HIDE DEF T
  <2> QED
    BY <1>1, LeastExists
<1>3. PICK x \in S : t = n - x
  OBVIOUS
<1>4. \A y \in S : n - y \in T
  OBVIOUS
<1>5. \A y \in S : x >= y
  BY <1>2, <1>3, <1>4
<1> QED
  BY <1>5

(* The greatest element is the one no other exceeds. *)
LEMMA MaxIs ==
  ASSUME NEW S \in SUBSET Int, NEW x \in S, \A y \in S : x >= y
  PROVE  Max(S) = x
<1>1. Max(S) \in S /\ \A y \in S : Max(S) >= y
  BY DEF Max
<1>2. \A m \in S : (\A y \in S : m >= y) => m = x
  OBVIOUS
<1> QED
  BY <1>1, <1>2

(* The least element is the one no other is below. *)
LEMMA MinIs ==
  ASSUME NEW S \in SUBSET Int, NEW x \in S, \A y \in S : x <= y
  PROVE  Min(S) = x
<1>1. Min(S) \in S /\ \A y \in S : Min(S) <= y
  BY DEF Min
<1>2. \A m \in S : (\A y \in S : m <= y) => m = x
  OBVIOUS
<1> QED
  BY <1>1, <1>2

(* Induction, for the set of the numbers that have a property. *)
LEMMA SetInduction ==
  ASSUME NEW S, 0 \in S, \A n \in Nat : n \in S => n + 1 \in S
  PROVE  \A n \in Nat : n \in S
<1> DEFINE Bad == {n \in Nat : n \notin S}
<1> SUFFICES ASSUME Bad # {} PROVE FALSE
  OBVIOUS
<1>1. PICK n \in Bad : \A m \in Bad : n <= m
  <2> Bad \in SUBSET Nat
    OBVIOUS
  <2> HIDE DEF Bad
  <2> QED
    BY LeastExists
<1>2. n \in Nat /\ n # 0 /\ n - 1 \in Nat
  OBVIOUS
<1>3. n - 1 \notin Bad
  BY <1>1, <1>2
<1> QED
  BY <1>2, <1>3

-----------------------------------------------------------------------------
(* Quotient and remainder. *)
LEMMA Division ==
  ASSUME NEW a \in Nat, NEW u \in Nat \ {0}
  PROVE  a \div u \in Nat /\ a % u \in 0 .. u - 1 /\ a = ((a \div u) * u) + (a % u)
OBVIOUS

(* Rounding down to a multiple. *)
LEMMA BlockStart ==
  ASSUME NEW a \in Nat, NEW u \in Nat \ {0}
  PROVE  a - (a % u) \in 0 .. a
<1> PICK m \in Nat : m = (a \div u) * u
  BY Division
<1>1. a = m + (a % u) /\ a % u \in 0 .. u - 1
  BY Division
<1> QED
  BY <1>1

(* Multiples are a unit apart. *)
LEMMA NextMultiple ==
  ASSUME NEW p \in Nat, NEW q \in Nat, NEW u \in Nat \ {0}, p < q
  PROVE  p * u + u <= q * u
OBVIOUS

(* To lie between the ends of the block of a number is to have its quotient. *)
LEMMA SameBlock ==
  ASSUME NEW a \in Nat, NEW x \in Nat, NEW u \in Nat \ {0}
  PROVE  (a - (a % u) <= x /\ x <= a - (a % u) + (u - 1)) <=> a \div u = x \div u
<1> PICK p \in Nat : p = a \div u
  BY Division
<1> PICK q \in Nat : q = x \div u
  BY Division
<1> PICK r \in Nat : r = p * u
  OBVIOUS
<1> PICK s \in Nat : s = q * u
  OBVIOUS
<1>0. /\ a = ((a \div u) * u) + (a % u) /\ x = ((x \div u) * u) + (x % u)
      /\ a % u \in Int /\ x % u \in 0 .. u - 1
  BY Division
<1>1. a - (a % u) = r /\ x = s + (x % u) /\ x % u \in 0 .. u - 1
  BY <1>0
<1>2. /\ p < q => r + u <= s
      /\ q < p => s + u <= r
  BY NextMultiple
<1>3. p = q => r = s
  OBVIOUS
<1>4. (r <= x /\ x <= r + (u - 1)) <=> p = q
  BY <1>1, <1>2, <1>3
<1> QED
  BY <1>1, <1>4
-----------------------------------------------------------------------------
(* A sequence over a set is one over a larger set. *)
LEMMA SeqWider ==
  ASSUME NEW T, NEW U, T \subseteq U, NEW s \in Seq(T)
  PROVE  s \in Seq(U)
<1>1. Len(s) \in Nat /\ s \in [1 .. Len(s) -> T]
  OBVIOUS
<1>2. s \in [1 .. Len(s) -> U]
  BY <1>1
<1> QED
  BY <1>1, <1>2

(* A function on an initial segment is a sequence. *)
LEMMA MakeSeq ==
  ASSUME NEW T, NEW m \in Nat, NEW f \in [1 .. m -> T]
  PROVE  f \in Seq(T) /\ Len(f) = m
OBVIOUS

(* The elements of a concatenation. *)
LEMMA Concat ==
  ASSUME NEW T, NEW s \in Seq(T), NEW t \in Seq(T)
  PROVE  /\ s \o t \in Seq(T) /\ Len(s \o t) = Len(s) + Len(t)
         /\ \A i \in 1 .. Len(s) : (s \o t)[i] = s[i]
         /\ \A i \in 1 .. Len(t) : (s \o t)[Len(s) + i] = t[i]
<1>1. s \o t \in Seq(T) /\ Len(s \o t) = Len(s) + Len(t) /\ Len(s) \in Nat /\ Len(t) \in Nat
  OBVIOUS
<1>2. \A i \in 1 .. Len(s) : (s \o t)[i] = s[i]
  OBVIOUS
<1>3. \A i \in 1 .. Len(t) : (s \o t)[Len(s) + i] = t[i]
  OBVIOUS
<1> QED
  BY <1>1, <1>2, <1>3

LEMMA ConcatAssoc ==
  ASSUME NEW T, NEW s \in Seq(T), NEW t \in Seq(T), NEW u \in Seq(T)
  PROVE  (s \o t) \o u = s \o (t \o u) /\ s \o t \in Seq(T)
OBVIOUS

(* Cutting a sequence in two. *)
LEMMA CutInTwo ==
  ASSUME NEW T, NEW s \in Seq(T), NEW k \in 0 .. Len(s)
  PROVE  /\ SubSeq(s, 1, k) \in Seq(T) /\ SubSeq(s, k + 1, Len(s)) \in Seq(T)
         /\ SubSeq(s, 1, k) \o SubSeq(s, k + 1, Len(s)) = s
<1> DEFINE u == SubSeq(s, 1, k)
           v == SubSeq(s, k + 1, Len(s))
<1>1. Len(s) \in Nat /\ k \in Nat
  OBVIOUS
<1>2. u \in Seq(T) /\ Len(u) = k /\ \A j \in 1 .. k : u[j] = s[j]
  BY <1>1
<1>3. v \in Seq(T) /\ Len(v) = Len(s) - k /\ \A j \in 1 .. Len(s) - k : v[j] = s[k + j]
  BY <1>1
<1> HIDE DEF u, v
<1>4. u \o v \in Seq(T) /\ Len(u \o v) = Len(s)
  BY <1>1, <1>2, <1>3
<1>5. ASSUME NEW j \in 1 .. Len(s)
      PROVE  (u \o v)[j] = s[j]
  <2>1. CASE j <= k
    <3>1. j \in 1 .. Len(u)
      BY <1>1, <1>2, <2>1
    <3> QED
      BY <1>2, <1>3, <3>1, Concat
  <2>2. CASE ~(j <= k)
    <3>1. PICK m \in 1 .. Len(v) : j = Len(u) + m
      <4>1. j - k \in 1 .. Len(v) /\ j = Len(u) + (j - k)
        BY <1>1, <1>2, <1>3, <2>2
      <4> QED
        BY <4>1
    <3>2. (u \o v)[Len(u) + m] = v[m]
      BY <1>2, <1>3, <3>1, Concat
    <3> QED
      BY <1>2, <1>3, <3>1, <3>2
  <2> QED
    BY <2>1, <2>2
<1>6. u \o v = s
  BY <1>4, <1>5, SeqEqual
<1> QED
  BY <1>2, <1>3, <1>6 DEF u, v

(* The partial results of flattening the first n sequences of s. *)
Partial(f, s, n) == f = [i \in 1 .. n |-> IF i = 1 THEN s[i] ELSE f[i - 1] \o s[i]]

LEMMA PartialExists ==
  ASSUME NEW s
  PROVE  \A n \in Nat : \E f : Partial(f, s, n)
<1> DEFINE S == {n \in Nat : \E f : Partial(f, s, n)}
<1>1. 0 \in S
  <2>1. Partial(<<>>, s, 0)
    BY DEF Partial
  <2> QED
    BY <2>1
<1>2. ASSUME NEW n \in Nat, n \in S
      PROVE  n + 1 \in S
  <2>1. PICK f : Partial(f, s, n)
    BY <1>2
  <2> DEFINE g == [i \in 1 .. n + 1 |->
                     IF i = n + 1 THEN IF i = 1 THEN s[i] ELSE f[i - 1] \o s[i] ELSE f[i]]
  <2>2. ASSUME NEW i \in 1 .. n + 1
        PROVE  g[i] = IF i = 1 THEN s[i] ELSE g[i - 1] \o s[i]
    <3>1. CASE i = n + 1
      <4>1. i # 1 => i - 1 \in 1 .. n /\ i - 1 # n + 1 /\ i - 1 \in 1 .. n + 1
        BY <3>1
      <4>2. i # 1 => g[i - 1] = f[i - 1]
        BY <4>1
      <4> QED
        BY <3>1, <4>2
    <3>2. CASE i # n + 1
      <4>1. i \in 1 .. n /\ g[i] = f[i]
        BY <3>2
      <4>2. f[i] = IF i = 1 THEN s[i] ELSE f[i - 1] \o s[i]
        BY <2>1, <4>1 DEF Partial
      <4>3. i # 1 => i - 1 \in 1 .. n + 1 /\ i - 1 # n + 1
        BY <4>1
      <4>4. i # 1 => g[i - 1] = f[i - 1]
        BY <4>3
      <4> QED
        BY <4>1, <4>2, <4>4
    <3> QED
      BY <3>1, <3>2
  <2>3. Partial(g, s, n + 1)
    <3>1. g = [i \in 1 .. n + 1 |-> g[i]]
      OBVIOUS
    <3> HIDE DEF g
    <3> QED
      BY <2>2, <3>1, Zenon DEF Partial
  <2> QED
    BY <2>3
<1> HIDE DEF S
<1>3. \A n \in Nat : n \in S
  BY <1>1, <1>2, SetInduction
<1> QED
  BY <1>3 DEF S

(* They are the same for a sequence and a longer one that begins with it. *)
LEMMA PartialAgrees ==
  ASSUME NEW s, NEW t, NEW n \in Nat, \A i \in 1 .. n : s[i] = t[i],
         NEW f, NEW g, Partial(f, s, n), Partial(g, t, n + 1)
  PROVE  \A i \in 1 .. n : f[i] = g[i]
<1> DEFINE S == {i \in Nat : i \in 1 .. n => f[i] = g[i]}
<1>1. 0 \in S
  OBVIOUS
<1>2. ASSUME NEW i \in Nat, i \in S
      PROVE  i + 1 \in S
  <2>1. SUFFICES ASSUME i + 1 \in 1 .. n
                 PROVE  f[i + 1] = g[i + 1]
    OBVIOUS
  <2>2. i + 1 \in 1 .. n /\ i + 1 \in 1 .. n + 1
    BY <2>1
  <2>3. /\ f[i + 1] = IF i + 1 = 1 THEN s[i + 1] ELSE f[(i + 1) - 1] \o s[i + 1]
        /\ g[i + 1] = IF i + 1 = 1 THEN t[i + 1] ELSE g[(i + 1) - 1] \o t[i + 1]
    BY <2>2, Zenon DEF Partial
  <2>4. s[i + 1] = t[i + 1] /\ (i + 1) - 1 = i
    BY <2>1
  <2>5. i # 0 => f[i] = g[i]
    BY <1>2, <2>1
  <2>6. i + 1 = 1 <=> i = 0
    OBVIOUS
  <2> QED
    BY <2>3, <2>4, <2>5, <2>6
<1> HIDE DEF S
<1>3. \A i \in Nat : i \in S
  BY <1>1, <1>2, SetInduction
<1> QED
  BY <1>3 DEF S

(* FlattenSeq is the last of the partial results. *)
LEMMA FlattenIs ==
  ASSUME NEW s, NEW n \in Nat, Len(s) = n, n # 0
  PROVE  \E f : Partial(f, s, n) /\ SeqExt!FlattenSeq(s) = f[n]
<1> DEFINE f == CHOOSE f : Partial(f, s, n)
<1>1. Partial(f, s, n)
  BY PartialExists
<1>2. SeqExt!FlattenSeq(s) = f[n]
  BY Zenon DEF SeqExt!FlattenSeq, Partial
<1> QED
  BY <1>1, <1>2

(* One sequence more. *)
LEMMA FlattenLonger ==
  ASSUME NEW s, NEW t, NEW n \in Nat \ {0}, Len(s) = n, Len(t) = n + 1,
         \A i \in 1 .. n : s[i] = t[i]
  PROVE  SeqExt!FlattenSeq(t) = SeqExt!FlattenSeq(s) \o t[n + 1]
<1>1. PICK f : Partial(f, s, n) /\ SeqExt!FlattenSeq(s) = f[n]
  BY FlattenIs
<1>2. PICK g : Partial(g, t, n + 1) /\ SeqExt!FlattenSeq(t) = g[n + 1]
  <2>1. n + 1 \in Nat /\ n + 1 # 0
    OBVIOUS
  <2> QED
    BY <2>1, FlattenIs
<1>3. f[n] = g[n]
  <2>1. \A i \in 1 .. n : f[i] = g[i]
    BY <1>1, <1>2, PartialAgrees
  <2> QED
    BY <2>1
<1>4. g[n + 1] = IF n + 1 = 1 THEN t[n + 1] ELSE g[(n + 1) - 1] \o t[n + 1]
  <2>1. n + 1 \in 1 .. n + 1
    OBVIOUS
  <2> QED
    BY <1>2, <2>1, Zenon DEF Partial
<1>5. (n + 1) - 1 = n /\ ~(n + 1 = 1)
  OBVIOUS
<1> QED
  BY <1>1, <1>2, <1>3, <1>4, <1>5

(* Flattening one sequence more appends it. *)
LEMMA FlattenAppend ==
  ASSUME NEW S, NEW s \in Seq(Seq(S)), NEW x \in Seq(S)
  PROVE  SeqExt!FlattenSeq(Append(s, x)) = SeqExt!FlattenSeq(s) \o x
<1>1. CASE s = <<>>
  <2>1. Append(s, x) = <<x>> /\ <<>> \o x = x
    BY <1>1
  <2> QED
    BY <1>1, <2>1 DEF SeqExt!FlattenSeq
<1>2. CASE s # <<>>
  <2>1. PICK n \in Nat \ {0} : Len(s) = n
    BY <1>2
  <2>2. PICK t : t = Append(s, x)
    OBVIOUS
  <2>3. Len(t) = n + 1 /\ t[n + 1] = x /\ \A i \in 1 .. n : s[i] = t[i]
    BY <2>1, <2>2
  <2>4. SeqExt!FlattenSeq(t) = SeqExt!FlattenSeq(s) \o t[n + 1]
    BY <2>1, <2>3, FlattenLonger
  <2> QED
    BY <2>2, <2>3, <2>4
<1> QED
  BY <1>1, <1>2

(* The flattened sequence is over the same set. *)
LEMMA FlattenType ==
  ASSUME NEW S, NEW s \in Seq(Seq(S))
  PROVE  SeqExt!FlattenSeq(s) \in Seq(S)
<1> DEFINE n == Len(s)
<1>1. n \in Nat /\ \A i \in 1 .. n : s[i] \in Seq(S)
  OBVIOUS
<1>2. n = 0 => s = <<>>
  OBVIOUS
<1> HIDE DEF n
<1>3. CASE n = 0
  BY <1>2, <1>3 DEF SeqExt!FlattenSeq
<1>4. CASE n # 0
  <2>1. PICK f : Partial(f, s, n) /\ SeqExt!FlattenSeq(s) = f[n]
    BY <1>1, <1>4, FlattenIs DEF n
  <2> DEFINE T == {i \in Nat : i \in 1 .. n => f[i] \in Seq(S)}
  <2>2. 0 \in T
    OBVIOUS
  <2>3. ASSUME NEW i \in Nat, i \in T
        PROVE  i + 1 \in T
    <3>1. SUFFICES ASSUME i + 1 \in 1 .. n
                   PROVE  f[i + 1] \in Seq(S)
      OBVIOUS
    <3>2. f[i + 1] = IF i + 1 = 1 THEN s[i + 1] ELSE f[(i + 1) - 1] \o s[i + 1]
      BY <2>1, <3>1, Zenon DEF Partial
    <3>3. s[i + 1] \in Seq(S) /\ (i + 1) - 1 = i /\ (i + 1 # 1 => f[i] \in Seq(S))
      BY <1>1, <2>3, <3>1
    <3> QED
      BY <3>2, <3>3
  <2> HIDE DEF T
  <2>4. \A i \in Nat : i \in T
    BY <2>2, <2>3, SetInduction
  <2> QED
    BY <1>1, <1>4, <2>1, <2>4 DEF T
<1> QED
  BY <1>3, <1>4

(* What the first n sequences of s flatten to. *)
FlattenTo(s, n) == SeqExt!FlattenSeq([j \in 1 .. n |-> s[j]])

(* It grows by one sequence at a time, to the whole. *)
LEMMA FlattenStep ==
  ASSUME NEW S, NEW s \in Seq(Seq(S)), NEW n \in Nat, n <= Len(s)
  PROVE  /\ FlattenTo(s, n) \in Seq(S)
         /\ n = 0 => FlattenTo(s, n) = <<>>
         /\ n < Len(s) => FlattenTo(s, n + 1) = FlattenTo(s, n) \o s[n + 1]
         /\ n = Len(s) => FlattenTo(s, n) = SeqExt!FlattenSeq(s)
<1> DEFINE t == [j \in 1 .. n |-> s[j]]
           u == [j \in 1 .. n + 1 |-> s[j]]
<1>1. \A j \in 1 .. Len(s) : s[j] \in Seq(S)
  OBVIOUS
<1>2. t \in [1 .. n -> Seq(S)]
  BY <1>1
<1>3. t \in Seq(Seq(S)) /\ Len(t) = n
  <2> HIDE DEF t
  <2> QED
    BY <1>2, MakeSeq
<1>4. SeqExt!FlattenSeq(t) \in Seq(S)
  BY <1>3, FlattenType
<1>5. n = 0 => SeqExt!FlattenSeq(t) = <<>>
  <2>1. n = 0 => Len(t) = 0 /\ t = <<>>
    BY <1>3
  <2> QED
    BY <2>1 DEF SeqExt!FlattenSeq
<1>6. ASSUME n < Len(s)
      PROVE  SeqExt!FlattenSeq(u) = SeqExt!FlattenSeq(t) \o s[n + 1]
  <2>1. n + 1 \in Nat /\ n + 1 \in 1 .. Len(s) /\ s[n + 1] \in Seq(S)
    BY <1>1, <1>6
  <2>2. u \in [1 .. n + 1 -> Seq(S)]
    BY <1>1, <1>6
  <2>3. u \in Seq(Seq(S)) /\ Len(u) = n + 1
    <3> HIDE DEF u
    <3> QED
      BY <2>1, <2>2, MakeSeq
  <2>4. /\ Append(t, s[n + 1]) \in Seq(Seq(S)) /\ Len(Append(t, s[n + 1])) = n + 1
        /\ \A j \in 1 .. n + 1 : Append(t, s[n + 1])[j] = u[j]
    BY <1>3, <2>1
  <2>5. u = Append(t, s[n + 1])
    <3> HIDE DEF t, u
    <3> QED
      BY <2>3, <2>4, SeqEqual
  <2> HIDE DEF t, u
  <2> QED
    BY <1>3, <2>1, <2>5, FlattenAppend
<1>7. n = Len(s) => t = s
  OBVIOUS
<1> QED
  BY <1>4, <1>5, <1>6, <1>7 DEF FlattenTo

(* A sequence that another one begins with. *)
Begins(b, s, S) == \E c \in Seq(S) : s = b \o c

LEMMA BeginsTrans ==
  ASSUME NEW S, NEW a \in Seq(S), NEW b \in Seq(S), NEW s \in Seq(S), Begins(a, b, S), Begins(b, s, S)
  PROVE  Begins(a, s, S)
<1>1. PICK c \in Seq(S) : b = a \o c
  BY DEF Begins
<1>2. PICK d \in Seq(S) : s = b \o d
  BY DEF Begins
<1>3. s = a \o (c \o d) /\ c \o d \in Seq(S)
  BY <1>1, <1>2, SMTT(30)
<1> QED
  BY <1>3 DEF Begins

(* The whole begins with what the first of its sequences flatten to. *)
LEMMA FlattenBegins ==
  ASSUME NEW S, NEW s \in Seq(Seq(S)), NEW n \in Nat, n <= Len(s)
  PROVE  Begins(FlattenTo(s, n), SeqExt!FlattenSeq(s), S)
<1> DEFINE M == {m \in Nat : n + m <= Len(s) => Begins(FlattenTo(s, n), FlattenTo(s, n + m), S)}
<1>1. 0 \in M
  <2>1. FlattenTo(s, n) \in Seq(S) /\ <<>> \in Seq(S)
    BY FlattenStep
  <2>2. FlattenTo(s, n) = FlattenTo(s, n) \o <<>> /\ n + 0 = n
    BY <2>1
  <2> QED
    BY <2>1, <2>2 DEF Begins
<1>2. ASSUME NEW m \in Nat, m \in M
      PROVE  m + 1 \in M
  <2> SUFFICES ASSUME n + (m + 1) <= Len(s)
               PROVE  Begins(FlattenTo(s, n), FlattenTo(s, n + (m + 1)), S)
    OBVIOUS
  <2>1. PICK k \in Nat : k = n + m
    OBVIOUS
  <2>2. n + (m + 1) = k + 1 /\ k < Len(s) /\ k <= Len(s) /\ k + 1 <= Len(s) /\ k + 1 \in Nat /\ k + 1 \in 1 .. Len(s)
    BY <2>1
  <2>3. Begins(FlattenTo(s, n), FlattenTo(s, k), S)
    BY <1>2, <2>1, <2>2
  <2>4. FlattenTo(s, k + 1) = FlattenTo(s, k) \o s[k + 1] /\ s[k + 1] \in Seq(S)
    <3>1. s[k + 1] \in Seq(S)
      BY <2>2
    <3>2. k \in Nat /\ k < Len(s)
      BY <2>2
    <3> QED
      BY <3>1, <3>2, FlattenStep, SMTT(30)
  <2>5. Begins(FlattenTo(s, k), FlattenTo(s, k + 1), S)
    BY <2>4 DEF Begins
  <2>6. FlattenTo(s, n) \in Seq(S) /\ FlattenTo(s, k) \in Seq(S) /\ FlattenTo(s, k + 1) \in Seq(S)
    BY <2>2, FlattenStep
  <2> QED
    BY <2>2, <2>3, <2>5, <2>6, BeginsTrans
<1> HIDE DEF M
<1>3. \A m \in Nat : m \in M
  BY <1>1, <1>2, SetInduction
<1>4. Len(s) \in Nat /\ Len(s) - n \in Nat /\ n + (Len(s) - n) = Len(s)
  OBVIOUS
<1>5. Begins(FlattenTo(s, n), FlattenTo(s, Len(s)), S)
  <2>1. PICK m \in Nat : m = Len(s) - n
    BY <1>4
  <2>2. n + m = Len(s) /\ n + m <= Len(s)
    BY <1>4, <2>1
  <2>3. Begins(FlattenTo(s, n), FlattenTo(s, n + m), S)
    BY <1>3, <2>2 DEF M
  <2> QED
    BY <2>2, <2>3
<1>6. FlattenTo(s, Len(s)) = SeqExt!FlattenSeq(s)
  BY <1>4, FlattenStep
<1> QED
  BY <1>5, <1>6

(* Beginning with a sequence is having it as a prefix. *)
LEMMA BeginsIsPrefix ==
  ASSUME NEW S, NEW b \in Seq(S), NEW s \in Seq(S), Begins(b, s, S)
  PROVE  SeqExt!IsPrefix(b, s)
<1>1. PICK c \in Seq(S) : s = b \o c
  BY DEF Begins
<1>2. Len(s) = Len(b) + Len(c) /\ Len(b) \in Nat /\ Len(c) \in Nat /\ \A j \in 1 .. Len(b) : s[j] = b[j]
  BY <1>1, Concat
<1>3. Len(b) <= Len(s)
  BY <1>2
<1>4. SubSeq(b, 1, Len(b)) = SubSeq(s, 1, Len(b))
  BY <1>2
<1> QED
  BY <1>3, <1>4 DEF SeqExt!IsPrefix
-----------------------------------------------------------------------------
LEMMA WithoutEmpty ==
  ASSUME NEW T
  PROVE  Without(<<>>, T) = <<>>
BY DEF Without, SeqExt!FlattenSeq

(* Without goes element by element. *)
LEMMA WithoutAppend ==
  ASSUME NEW S, NEW s \in Seq(S), NEW x \in S, NEW T
  PROVE  /\ Without(s, T) \in Seq(S \ T)
         /\ Without(Append(s, x), T) = IF x \in T THEN Without(s, T) ELSE Append(Without(s, T), x)
<1> DEFINE Cut(r) == [i \in 1 .. Len(r) |-> IF r[i] \in T THEN <<>> ELSE <<r[i]>>]
           e == IF x \in T THEN <<>> ELSE <<x>>
<1>1. Len(s) \in Nat /\ \A i \in 1 .. Len(s) : s[i] \in S
  OBVIOUS
<1>2. Cut(s) \in Seq(Seq(S \ T)) /\ Len(Cut(s)) = Len(s) /\ e \in Seq(S \ T)
  <2>1. <<>> \in Seq(S \ T) /\ \A y \in S : y \notin T => <<y>> \in Seq(S \ T)
    OBVIOUS
  <2>2. e \in Seq(S \ T)
    BY <2>1
  <2>3. \A i \in 1 .. Len(s) : (IF s[i] \in T THEN <<>> ELSE <<s[i]>>) \in Seq(S \ T)
    BY <1>1, <2>1
  <2>4. Cut(s) \in [1 .. Len(s) -> Seq(S \ T)]
    BY <2>3
  <2> HIDE DEF Cut
  <2> QED
    BY <1>1, <2>2, <2>4, MakeSeq
<1>3. Cut(Append(s, x)) = Append(Cut(s), e)
  <2>1. Len(Append(s, x)) = Len(s) + 1
    OBVIOUS
  <2>2. \A i \in 1 .. Len(s) + 1 : Cut(Append(s, x))[i] = Append(Cut(s), e)[i]
    BY <1>1, <1>2, <2>1
  <2>3. /\ Cut(Append(s, x)) \in Seq(Seq(S \ T)) /\ Append(Cut(s), e) \in Seq(Seq(S \ T))
        /\ Len(Cut(Append(s, x))) = Len(s) + 1 /\ Len(Append(Cut(s), e)) = Len(s) + 1
    BY <1>1, <1>2, <2>1
  <2> QED
    BY <2>2, <2>3, SeqEqual
<1>4. Without(s, T) = SeqExt!FlattenSeq(Cut(s)) /\ Without(Append(s, x), T) = SeqExt!FlattenSeq(Cut(Append(s, x)))
  BY DEF Without
<1> HIDE DEF Cut, e
<1>5. Without(s, T) \in Seq(S \ T)
  BY <1>2, <1>4, FlattenType
<1>6. Without(Append(s, x), T) = Without(s, T) \o e
  BY <1>2, <1>3, <1>4, FlattenAppend
<1>7. Without(s, T) \o <<>> = Without(s, T) /\ Without(s, T) \o <<x>> = Append(Without(s, T), x)
  BY <1>5
<1> QED
  BY <1>5, <1>6, <1>7 DEF e

(* What is left is not in the set. *)
LEMMA WithoutType ==
  ASSUME NEW S, NEW s \in Seq(S), NEW T
  PROVE  Without(s, T) \in Seq(S \ T)
<1>1. CASE s = <<>>
  <2>1. Without(s, T) = <<>> /\ <<>> \in Seq(S \ T)
    BY <1>1, WithoutEmpty
  <2> QED
    BY <2>1
<1>2. CASE s # <<>>
  <2>1. s[1] \in S
    BY <1>2
  <2> QED
    BY <2>1, WithoutAppend
<1> QED
  BY <1>1, <1>2
-----------------------------------------------------------------------------
(* A sequence of anything. *)
IsSeq(s) == \E T : s \in Seq(T)

(* A sequence of anything with one element more. *)
LEMMA SeqAppend ==
  ASSUME NEW s, IsSeq(s), NEW x
  PROVE  /\ IsSeq(Append(s, x)) /\ s \o <<x>> = Append(s, x) /\ s \o <<>> = s
         /\ Len(s) \in Nat /\ Len(Append(s, x)) = Len(s) + 1
         /\ DOMAIN s = 1 .. Len(s) /\ DOMAIN Append(s, x) = 1 .. Len(s) + 1
         /\ \A i \in 1 .. Len(s) : Append(s, x)[i] = s[i]
         /\ Append(s, x)[Len(s) + 1] = x
<1>1. PICK T : s \in Seq(T)
  BY DEF IsSeq
<1>2. s \in Seq(T \cup {x}) /\ x \in T \cup {x}
  BY <1>1, SeqWider
<1>3. Append(s, x) \in Seq(T \cup {x})
  BY <1>2
<1> QED
  BY <1>2, <1>3 DEF IsSeq

(* The empty sequence and a sequence of one. *)
LEMMA ShortSeqs ==
  ASSUME NEW x
  PROVE  /\ IsSeq(<<>>) /\ Len(<<>>) = 0 /\ DOMAIN <<>> = {}
         /\ IsSeq(<<x>>) /\ Len(<<x>>) = 1 /\ DOMAIN <<x>> = {1} /\ <<x>>[1] = x
<1>1. <<>> \in Seq({x}) /\ <<x>> \in Seq({x})
  OBVIOUS
<1>2. IsSeq(<<>>) /\ IsSeq(<<x>>)
  BY <1>1 DEF IsSeq
<1>3. Len(<<>>) = 0 /\ Len(<<x>>) = 1 /\ <<x>>[1] = x
  OBVIOUS
<1>4. DOMAIN <<>> = 1 .. 0 /\ DOMAIN <<x>> = 1 .. 1
  BY <1>1, <1>3, LenProperties
<1> QED
  BY <1>2, <1>3, <1>4
-----------------------------------------------------------------------------
(* The image of a finite set. *)
LEMMA ImageFinite ==
  ASSUME NEW S, IsFiniteSet(S), NEW f
  PROVE  IsFiniteSet({f[x] : x \in S})
<1> DEFINE T == {f[x] : x \in S}
           g == [x \in S |-> f[x]]
<1>1. g \in Surjection(S, T)
  BY DEF Surjection
<1>2. IsFiniteSet(T)
  <2> HIDE DEF T, g
  <2> QED
    BY <1>1, FS_Surjection
<1> QED
  BY <1>2

(* Sets that a function pairs off are equally large. *)
LEMMA SameCount ==
  ASSUME NEW S, NEW T, IsFiniteSet(S), NEW f \in [S -> T],
         \A x, y \in S : f[x] = f[y] => x = y, \A t \in T : \E x \in S : f[x] = t
  PROVE  IsFiniteSet(T) /\ Cardinality(T) = Cardinality(S)
<1>1. f \in Bijection(S, T)
  BY DEF Bijection, Injection, Surjection, IsInjective
<1> QED
  BY <1>1, FS_Bijection DEF ExistsBijection

(* How many elements of a sequence are in a set, for a concatenation. *)
HowMany(s, B) == Cardinality({i \in 1 .. Len(s) : s[i] \in B})

LEMMA CountConcat ==
  ASSUME NEW T, NEW s \in Seq(T), NEW t \in Seq(T), NEW B
  PROVE  /\ HowMany(s \o t, B) = HowMany(s, B) + HowMany(t, B)
         /\ HowMany(s, B) \in Nat
<1> DEFINE n == Len(s)
           X == {i \in 1 .. Len(s) : s[i] \in B}
           Y == {i \in 1 .. Len(t) : t[i] \in B}
           Z == {n + i : i \in Y}
           f == [i \in Y |-> n + i]
<1>1. n \in Nat /\ Len(t) \in Nat
  OBVIOUS
<1>2. IsFiniteSet(X) /\ IsFiniteSet(Y)
  <2>1. IsFiniteSet(1 .. Len(s)) /\ IsFiniteSet(1 .. Len(t))
    BY <1>1, FS_Interval
  <2> QED
    BY <2>1, FS_Subset
<1>3. IsFiniteSet(Z) /\ Cardinality(Z) = Cardinality(Y)
  <2>1. f \in [Y -> Z] /\ \A z \in Z : \E i \in Y : f[i] = z
    OBVIOUS
  <2>2. \A i, j \in Y : f[i] = f[j] => i = j
    BY <1>1
  <2> HIDE DEF f, Y, Z
  <2> QED
    BY <1>2, <2>1, <2>2, SameCount
<1>4. X \cap Z = {}
  BY <1>1
<1>5. {i \in 1 .. Len(s \o t) : (s \o t)[i] \in B} = X \cup Z
  <2>1. /\ Len(s \o t) = n + Len(t)
        /\ \A i \in 1 .. n : (s \o t)[i] = s[i]
        /\ \A i \in 1 .. Len(t) : (s \o t)[n + i] = t[i]
    BY Concat
  <2>2. ASSUME NEW i \in 1 .. n + Len(t), i \notin 1 .. n
        PROVE  i - n \in 1 .. Len(t) /\ i = n + (i - n)
    BY <1>1, <2>2
  <2>3. ASSUME NEW i
        PROVE  (i \in 1 .. n + Len(t) /\ (s \o t)[i] \in B) <=> i \in X \cup Z
    <3>1. CASE i \in 1 .. n
      <4>1. i \in 1 .. n + Len(t) /\ i \notin Z
        BY <1>1, <3>1
      <4> QED
        BY <2>1, <3>1, <4>1
    <3>2. CASE i \notin 1 .. n
      <4>1. ASSUME i \in 1 .. n + Len(t), (s \o t)[i] \in B
            PROVE  i \in Z
        <5>1. PICK j \in 1 .. Len(t) : i = n + j
          BY <2>2, <3>2, <4>1
        <5> QED
          BY <2>1, <4>1, <5>1
      <4>2. ASSUME i \in Z
            PROVE  i \in 1 .. n + Len(t) /\ (s \o t)[i] \in B
        <5>1. PICK j \in Y : i = n + j
          BY <4>2
        <5> QED
          BY <1>1, <2>1, <5>1
      <4> QED
        BY <3>2, <4>1, <4>2
    <3> QED
      BY <3>1, <3>2
  <2> HIDE DEF X, Z
  <2> QED
    BY <2>1, <2>3
<1>6. Cardinality(X \cup Z) = Cardinality(X) + Cardinality(Y) /\ Cardinality(X) \in Nat
  <2>1. Cardinality(X \cap Z) = 0
    BY <1>4, FS_EmptySet
  <2>2. Cardinality(X \cup Z) = Cardinality(X) + Cardinality(Z) - Cardinality(X \cap Z)
    <3> HIDE DEF X, Z
    <3> QED
      BY <1>2, <1>3, FS_Union
  <2>3. Cardinality(X) \in Nat /\ Cardinality(Z) \in Nat
    BY <1>2, <1>3, FS_CardinalityType
  <2> QED
    BY <1>3, <2>1, <2>2, <2>3
<1> QED
  BY <1>5, <1>6 DEF HowMany
-----------------------------------------------------------------------------
(* The elements of a finite set in the order of R: each once, ascending. *)
LEMMA OrderedIs ==
  ASSUME NEW S, IsFiniteSet(S), NEW R,
         \A x, y \in S : <<x, y>> \in R \/ <<y, x>> \in R,
         \A x, y \in S : <<x, y>> \in R /\ <<y, x>> \in R => x = y,
         \A x, y, z \in S : <<x, y>> \in R /\ <<y, z>> \in R => <<x, z>> \in R
  PROVE  /\ Ordered(S, R) \in Seq(S) /\ Len(Ordered(S, R)) = Cardinality(S) /\ Cardinality(S) \in Nat
         /\ \A x \in S : \E k \in 1 .. Cardinality(S) : Ordered(S, R)[k] = x
         /\ \A i, j \in 1 .. Cardinality(S) :
              i < j => <<Ordered(S, R)[i], Ordered(S, R)[j]>> \in R /\ Ordered(S, R)[i] # Ordered(S, R)[j]
<1> DEFINE n == Cardinality(S)
           upTo == [x \in S |-> {y \in S : <<y, x>> \in R}]
           rank == [x \in S |-> Cardinality(upTo[x])]
           o == Ordered(S, R)
<1>1. n \in Nat
  BY FS_CardinalityType
<1>2. \A x \in S : upTo[x] = {y \in S : <<y, x>> \in R}
  OBVIOUS
<1>3. \A x \in S : x \in upTo[x] /\ upTo[x] \subseteq S
  BY <1>2
<1>4. \A x, y \in S : <<x, y>> \in R => upTo[x] \subseteq upTo[y]
  BY <1>2
<1>5. \A x, y \in S : <<x, y>> \in R /\ x # y => y \notin upTo[x]
  BY <1>2
<1> HIDE DEF upTo
<1>6. \A x \in S : IsFiniteSet(upTo[x]) /\ Cardinality(upTo[x]) \in 1 .. n
  <2> TAKE x \in S
  <2>1. upTo[x] \in SUBSET S
    BY <1>3
  <2>2. IsFiniteSet(upTo[x]) /\ Cardinality(upTo[x]) <= n
    BY <2>1, FS_Subset
  <2>3. Cardinality(upTo[x]) \in Nat /\ Cardinality(upTo[x]) # 0
    <3>1. upTo[x] # {}
      BY <1>3
    <3> QED
      BY <2>2, <3>1, FS_CardinalityType, FS_EmptySet
  <2> QED
    BY <1>1, <2>2, <2>3
<1>7. \A x, y \in S : <<x, y>> \in R /\ x # y => Cardinality(upTo[x]) < Cardinality(upTo[y])
  <2> SUFFICES ASSUME NEW x \in S, NEW y \in S, <<x, y>> \in R, x # y
               PROVE  Cardinality(upTo[x]) < Cardinality(upTo[y])
    OBVIOUS
  <2>1. upTo[x] \subseteq upTo[y] /\ upTo[x] # upTo[y]
    BY <1>3, <1>4, <1>5
  <2>2. IsFiniteSet(upTo[y]) /\ Cardinality(upTo[x]) \in Nat /\ Cardinality(upTo[y]) \in Nat
    BY <1>6
  <2>3. Cardinality(upTo[x]) <= Cardinality(upTo[y]) /\ (Cardinality(upTo[x]) = Cardinality(upTo[y]) => upTo[x] = upTo[y])
    BY <2>1, <2>2, FS_Subset
  <2> QED
    BY <2>1, <2>2, <2>3
<1>8. rank \in Injection(S, 1 .. n)
  <2>1. rank \in [S -> 1 .. n]
    BY <1>6
  <2>2. ASSUME NEW x \in S, NEW y \in S, x # y
        PROVE  rank[x] # rank[y]
    <3>1. rank[x] = Cardinality(upTo[x]) /\ rank[y] = Cardinality(upTo[y])
      OBVIOUS
    <3>2. PICK a \in Nat, b \in Nat : a = Cardinality(upTo[x]) /\ b = Cardinality(upTo[y])
      BY <1>6
    <3>3. a < b \/ b < a
      BY <1>7, <2>2, <3>2
    <3> QED
      BY <3>1, <3>2, <3>3
  <2> HIDE DEF rank
  <2> QED
    BY <2>1, <2>2 DEF Injection, IsInjective
<1>9. \A k \in 1 .. n : \E x \in S : Cardinality(upTo[x]) = k
  <2>1. IsFiniteSet(1 .. n) /\ Cardinality(1 .. n) = n
    BY <1>1, FS_Interval
  <2>2. rank \in Surjection(S, 1 .. n)
    <3> HIDE DEF rank
    <3> QED
      BY <1>8, <2>1, FS_Injection
  <2> QED
    BY <2>2 DEF Surjection
<1>10. /\ o = [k \in 1 .. n |-> o[k]]
       /\ \A k \in 1 .. n : o[k] = CHOOSE x \in S : Cardinality(upTo[x]) = k
  <2>1. \A k \in 1 .. n : (CHOOSE x \in S : Cardinality({y \in S : <<y, x>> \in R}) = k) =
                          (CHOOSE x \in S : Cardinality(upTo[x]) = k)
    BY <1>2, ZenonT(30)
  <2>2. o = [k \in 1 .. n |-> o[k]]
    BY DEF Ordered
  <2>3. \A k \in 1 .. n : o[k] = CHOOSE x \in S : Cardinality({y \in S : <<y, x>> \in R}) = k
    BY Zenon DEF Ordered, AtPlace
  <2> HIDE DEF o, n
  <2> QED
    BY <2>1, <2>2, <2>3, Zenon
<1>11. \A k \in 1 .. n : o[k] \in S /\ Cardinality(upTo[o[k]]) = k
  <2> TAKE k \in 1 .. n
  <2>1. o[k] = CHOOSE x \in S : Cardinality(upTo[x]) = k
    BY <1>10, Zenon
  <2> QED
    BY <1>9, <2>1
<1>12. o \in [1 .. n -> S]
  <2> HIDE DEF n
  <2>1. o = [k \in 1 .. n |-> o[k]]
    BY <1>10, Zenon
  <2> HIDE DEF o
  <2> QED
    BY <1>11, <2>1
<1> HIDE DEF n, o, rank
<1>13. o \in Seq(S) /\ Len(o) = n
  BY <1>1, <1>12, MakeSeq
<1>14. \A x \in S : \E k \in 1 .. n : o[k] = x
  <2> TAKE x \in S
  <2>1. PICK k \in 1 .. n : k = Cardinality(upTo[x])
    BY <1>6
  <2>2. o[k] \in S /\ Cardinality(upTo[o[k]]) = k
    BY <1>11
  <2>3. o[k] = x
    <3> SUFFICES ASSUME o[k] # x PROVE FALSE
      OBVIOUS
    <3>1. <<o[k], x>> \in R \/ <<x, o[k]>> \in R
      BY <2>2
    <3>2. k < k
      BY <1>7, <2>1, <2>2, <3>1
    <3> QED
      BY <3>2
  <2> QED
    BY <2>3
<1>15. \A i, j \in 1 .. n : i < j => <<o[i], o[j]>> \in R /\ o[i] # o[j]
  <2> SUFFICES ASSUME NEW i \in 1 .. n, NEW j \in 1 .. n, i < j
               PROVE  <<o[i], o[j]>> \in R /\ o[i] # o[j]
    OBVIOUS
  <2>1. /\ o[i] \in S /\ Cardinality(upTo[o[i]]) = i
        /\ o[j] \in S /\ Cardinality(upTo[o[j]]) = j
    BY <1>11
  <2>2. o[i] # o[j]
    BY <2>1
  <2>3. <<o[j], o[i]>> \notin R
    BY <1>7, <2>1, <2>2
  <2> QED
    BY <2>1, <2>2, <2>3
<1> QED
  BY <1>1, <1>13, <1>14, <1>15 DEF n, o
-----------------------------------------------------------------------------
(* The prefixes of a family that is w bits wide, as blocks. *)
Powers(w) ==
  /\ w \in Nat /\ 2^0 = 1 /\ 2^1 = 2
  /\ \A j \in 0 .. w : 2^j \in Nat \ {0}
  /\ \A j \in 0 .. w : \A k \in 0 .. j : 2^j = 2^k * 2^(j - k)

Block(a, b, w) ==
  [lo |-> a - (a % 2^(w - b)), hi |-> a - (a % 2^(w - b)) + (2^(w - b) - 1), length |-> b]

Blocks(w) == {Block(a, b, w) : a \in 0 .. 2^w - 1, b \in 0 .. w}

(* Those inside s with no larger one inside s around them. *)
LargestIn(s, w) ==
  {p \in Blocks(w) :
     /\ p.lo .. p.hi \subseteq s
     /\ \A q \in Blocks(w) : q.lo .. q.hi \subseteq s /\ q.lo <= p.lo /\ p.hi <= q.hi => q = p}

LEMMA PowerOf ==
  ASSUME NEW w, Powers(w), NEW k \in 0 .. w
  PROVE  2^k \in Nat \ {0} /\ w - k \in 0 .. w /\ 2^(w - k) \in Nat \ {0}
<1>1. w - k \in 0 .. w
  BY DEF Powers
<1> QED
  BY <1>1 DEF Powers

(* An aligned block of an address lies within the family. *)
LEMMA BlockWithin ==
  ASSUME NEW w, Powers(w), NEW a \in 0 .. 2^w - 1, NEW k \in 0 .. w, NEW u, u = 2^k
  PROVE  /\ u \in Nat \ {0} /\ a - (a % u) \in 0 .. a /\ a - (a % u) + (u - 1) \in 0 .. 2^w - 1
         /\ a - (a % u) \in 0 .. 2^w - 1 /\ a \in Nat /\ a <= a - (a % u) + (u - 1)
<1>1. u \in Nat \ {0} /\ 2^(w - k) \in Nat \ {0} /\ 2^w = u * 2^(w - k) /\ 2^w \in Nat \ {0}
  <2>1. w \in 0 .. w
    BY DEF Powers
  <2>2. \A j \in 0 .. w : \A i \in 0 .. j : 2^j = 2^i * 2^(j - i)
    BY DEF Powers
  <2>3. 2^w = 2^k * 2^(w - k)
    BY <2>1, <2>2
  <2> QED
    BY <2>1, <2>3, PowerOf
<1>2. PICK m \in Nat \ {0} : 2^w = m * u
  BY <1>1
<1>3. a \in Nat /\ a < 2^w
  BY <1>1
<1>4. PICK p \in Nat : p = a \div u
  BY <1>1, <1>3, Division
<1>5. PICK y : y = p * u
  OBVIOUS
<1>6. PICK r : r = a % u
  OBVIOUS
<1>7. y \in Nat /\ r \in 0 .. u - 1 /\ a = y + r
  <2>1. a = ((a \div u) * u) + (a % u) /\ a % u \in 0 .. u - 1
    BY <1>1, <1>3, Division
  <2>2. y \in Nat
    BY <1>1, <1>4, <1>5
  <2> QED
    BY <1>4, <1>5, <1>6, <2>1, <2>2
<1>8. p < m
  <2> SUFFICES ASSUME ~(p < m) PROVE FALSE
    OBVIOUS
  <2>1. CASE p = m
    BY <1>2, <1>3, <1>5, <1>7, <2>1
  <2>2. CASE m < p
    <3>1. m * u + u <= p * u
      BY <1>1, <2>2, NextMultiple
    <3> QED
      BY <1>1, <1>2, <1>3, <1>5, <1>7, <3>1
  <2> QED
    BY <2>1, <2>2
<1>9. y + u <= 2^w
  <2>1. p * u + u <= m * u
    BY <1>1, <1>8, NextMultiple
  <2> QED
    BY <1>2, <1>5, <2>1
<1> QED
  <2>1. /\ y \in 0 .. a /\ y + (u - 1) \in 0 .. 2^w - 1 /\ y \in 0 .. 2^w - 1
        /\ a <= y + (u - 1) /\ a - r = y
    BY <1>1, <1>7, <1>9
  <2> QED
    BY <1>1, <1>3, <1>6, <2>1

(* A block has its size, and is the block of each of its addresses. *)
LEMMA BlockOf ==
  ASSUME NEW w, Powers(w), NEW p \in Blocks(w)
  PROVE  /\ p.lo \in 0 .. 2^w - 1 /\ p.hi \in 0 .. 2^w - 1 /\ p.length \in 0 .. w
         /\ p.lo \in Nat /\ p.hi \in Nat
         /\ p.lo <= p.hi /\ p.hi - p.lo + 1 = 2^(w - p.length)
         /\ \A x \in 0 .. 2^w - 1 : p.lo <= x /\ x <= p.hi => p = Block(x, p.length, w)
<1>1. PICK a \in 0 .. 2^w - 1, b \in 0 .. w : p = Block(a, b, w)
  BY DEF Blocks
<1>2. PICK u : u = 2^(w - b)
  OBVIOUS
<1>3. w - b \in 0 .. w
  BY PowerOf
<1>4. /\ u \in Nat \ {0} /\ a - (a % u) \in 0 .. a /\ a - (a % u) + (u - 1) \in 0 .. 2^w - 1
      /\ a \in Nat
  BY <1>2, <1>3, BlockWithin
<1>5. \A x : Block(x, b, w) = [lo |-> x - (x % u), hi |-> x - (x % u) + (u - 1), length |-> b]
  BY <1>2 DEF Block
<1>6. p.lo = a - (a % u) /\ p.hi = a - (a % u) + (u - 1) /\ p.length = b
  BY <1>1, <1>5
<1>7. PICK m \in Nat : m = a - (a % u) /\ m \in 0 .. a /\ m + (u - 1) \in 0 .. 2^w - 1
  BY <1>4
<1>8. /\ p.lo <= p.hi /\ p.hi - p.lo + 1 = u /\ p.lo \in Nat /\ p.hi \in Nat
      /\ p.lo \in 0 .. 2^w - 1 /\ p.hi \in 0 .. 2^w - 1
  <2>1. p.lo = m /\ p.hi = m + (u - 1)
    BY <1>6, <1>7
  <2>2. m \in 0 .. 2^w - 1
    <3>1. w \in 0 .. w
      BY DEF Powers
    <3>2. 2^w \in Nat
      BY <3>1, PowerOf
    <3> QED
      BY <1>4, <1>7, <3>2
  <2> QED
    BY <1>4, <1>7, <2>1, <2>2
<1>9. ASSUME NEW x \in 0 .. 2^w - 1, p.lo <= x, x <= p.hi
      PROVE  p = Block(x, b, w)
  <2>1. a \in Nat /\ x \in Nat /\ u \in Nat \ {0}
    BY <1>4
  <2>2. a \div u = x \div u
    <3>1. a - (a % u) <= x /\ x <= a - (a % u) + (u - 1)
      BY <1>6, <1>9
    <3> QED
      BY <2>1, <3>1, SameBlock
  <2>3. PICK y : y = (a \div u) * u /\ y = (x \div u) * u
    BY <2>2
  <2>4. a = y + (a % u) /\ x = y + (x % u) /\ a % u \in 0 .. u - 1 /\ x % u \in 0 .. u - 1
    BY <2>1, <2>3, Division
  <2>5. PICK r \in Nat, t \in Nat : r = a % u /\ t = x % u
    BY <2>4
  <2>6. a - r = x - t
    <3>1. a = y + r /\ x = y + t
      BY <2>4, <2>5
    <3>2. y \in Int
      BY <2>1, <2>3, Division
    <3> QED
      BY <3>1, <3>2
  <2>7. a - (a % u) = x - (x % u)
    BY <2>5, <2>6
  <2>8. Block(a, b, w) = Block(x, b, w)
    BY <1>5, <2>7
  <2> QED
    BY <1>1, <2>8
<1> QED
  BY <1>2, <1>6, <1>8, <1>9

(* A longer prefix is a smaller block. *)
LEMMA LongerIsSmaller ==
  ASSUME NEW w, Powers(w), NEW b \in 0 .. w, NEW d \in 0 .. w, b < d
  PROVE  /\ 2^(w - b) \in Nat /\ 2^(w - d) \in Nat
         /\ 2^(w - d) < 2^(w - b)
         /\ \E v \in Nat \ {0} : 2^(w - b) = v * 2^(w - d)
<1>0. w \in Nat
  BY DEF Powers
<1>1. /\ w - b \in 0 .. w /\ w - d \in 0 .. w - b /\ w - d \in 0 .. w
      /\ (w - b) - (w - d) = d - b /\ d - b \in 1 .. w
  BY <1>0
<1>2. PICK n \in 1 .. w : n = d - b
  BY <1>1
<1>3. 2^(w - b) = 2^(w - d) * 2^n
  <2>1. 2^(w - b) = 2^(w - d) * 2^((w - b) - (w - d))
    BY <1>1 DEF Powers
  <2> QED
    BY <1>1, <1>2, <2>1
<1>4. 2^n = 2 * 2^(n - 1) /\ 2^(n - 1) \in Nat \ {0}
  <2>1. n \in 0 .. w /\ 1 \in 0 .. n /\ n - 1 \in 0 .. w
    BY <1>0, <1>2
  <2>2. 2^n = 2^1 * 2^(n - 1)
    BY <2>1 DEF Powers
  <2>3. 2^1 = 2
    BY DEF Powers
  <2> QED
    BY <2>1, <2>2, <2>3, PowerOf
<1>5. 2^(w - d) \in Nat \ {0}
  BY <1>1, PowerOf
<1>6. PICK x \in Nat \ {0} : x = 2^(w - d)
  BY <1>5
<1>7. PICK y \in Nat \ {0} : 2^n = 2 * y
  BY <1>4
<1>8. 2^(w - b) = x * (2 * y)
  BY <1>3, <1>6, <1>7
<1>9. x < x * (2 * y) /\ x * (2 * y) \in Nat /\ x * (2 * y) = (2 * y) * x
  <2>1. PICK z : z = x * y
    OBVIOUS
  <2>2. z \in Nat /\ x <= z
    BY <2>1
  <2>3. x * (2 * y) = z + z
    BY <2>1
  <2> QED
    BY <2>2, <2>3
<1>10. 2 * y \in Nat \ {0}
  OBVIOUS
<1> QED
  BY <1>6, <1>8, <1>9, <1>10

(* The largest blocks in a set of addresses hold its addresses and no others. *)
LEMMA LargestFill ==
  ASSUME NEW w, Powers(w), NEW s \in SUBSET (0 .. 2^w - 1)
  PROVE  /\ \A p \in LargestIn(s, w) : p \in Blocks(w) /\ p.lo .. p.hi \subseteq s
         /\ \A x \in s : \E p \in LargestIn(s, w) : p.lo <= x /\ x <= p.hi
<1> DEFINE inside == {p \in Blocks(w) : p.lo .. p.hi \subseteq s}
<1>1. LargestIn(s, w) = {p \in inside : \A q \in inside : q.lo <= p.lo /\ p.hi <= q.hi => q = p}
  BY DEF LargestIn
<1>2. ASSUME NEW x \in s
      PROVE  \E p \in LargestIn(s, w) : p.lo <= x /\ x <= p.hi
  <2>0. w \in Nat
    BY DEF Powers
  <2>1. x \in 0 .. 2^w - 1 /\ x \in Nat
    OBVIOUS
  <2> DEFINE fits == {b \in 0 .. w : Block(x, b, w) \in inside}
  <2>2. fits \in SUBSET Nat /\ w \in fits
    <3>1. w \in 0 .. w /\ w - w = 0 /\ 2^0 = 1 /\ fits \in SUBSET Nat
      BY <2>0 DEF Powers
    <3>2. x % 1 = 0
      BY <2>1
    <3>3. Block(x, w, w).lo = x /\ Block(x, w, w).hi = x
      <4>1. PICK u : u = 2^(w - w)
        OBVIOUS
      <4>2. Block(x, w, w) = [lo |-> x - (x % u), hi |-> x - (x % u) + (u - 1), length |-> w]
        BY <4>1 DEF Block
      <4>3. u = 1
        BY <3>1, <4>1
      <4>4. x - (x % u) = x /\ x - (x % u) + (u - 1) = x
        BY <2>1, <3>2, <4>3
      <4> QED
        BY <4>2, <4>4
    <3>4. Block(x, w, w) \in Blocks(w)
      BY <2>1, <3>1 DEF Blocks
    <3>5. x .. x \subseteq s
      BY <2>1
    <3> QED
      BY <3>1, <3>3, <3>4, <3>5
  <2>3. PICK b \in fits : \A d \in fits : b <= d
    <3> HIDE DEF fits
    <3> QED
      BY <2>2, LeastExists
  <2> DEFINE p == Block(x, b, w)
  <2>4. p \in inside /\ b \in 0 .. w /\ p.length = b
    BY <2>3 DEF Block
  <2>5. p.lo <= x /\ x <= p.hi
    <3>1. PICK u : u = 2^(w - b)
      OBVIOUS
    <3>2. w - b \in 0 .. w
      BY <2>4, PowerOf
    <3>3. x - (x % u) <= x /\ x <= x - (x % u) + (u - 1)
      BY <2>1, <3>1, <3>2, BlockWithin
    <3>4. p.lo = x - (x % u) /\ p.hi = x - (x % u) + (u - 1)
      BY <3>1 DEF Block
    <3> QED
      BY <3>3, <3>4
  <2>6. ASSUME NEW q \in inside, q.lo <= p.lo, p.hi <= q.hi
        PROVE  q = p
    <3> HIDE DEF p
    <3>1. q \in Blocks(w) /\ p \in Blocks(w)
      BY <2>4
    <3>2. /\ q.lo \in Int /\ q.hi \in Int /\ p.lo \in Int /\ p.hi \in Int
          /\ q.length \in 0 .. w /\ q.hi - q.lo + 1 = 2^(w - q.length)
          /\ p.hi - p.lo + 1 = 2^(w - b)
      BY <2>4, <3>1, BlockOf
    <3>3. q.lo <= x /\ x <= q.hi
      BY <2>1, <2>5, <2>6, <3>2
    <3>4. q = Block(x, q.length, w)
      BY <2>1, <3>1, <3>3, BlockOf
    <3>5. q.length \in fits
      BY <3>2, <3>4
    <3>6. b <= q.length
      BY <2>3, <3>5
    <3>7. ~(b < q.length)
      <4> SUFFICES ASSUME b < q.length PROVE FALSE
        OBVIOUS
      <4>1. 2^(w - b) \in Nat /\ 2^(w - q.length) \in Nat /\ 2^(w - q.length) < 2^(w - b)
        BY <2>4, <3>2, LongerIsSmaller
      <4> QED
        BY <2>6, <3>2, <4>1
    <3>8. q.length = b
      BY <2>0, <2>4, <3>2, <3>6, <3>7
    <3> QED
      BY <3>4, <3>8 DEF p
  <2>7. p \in LargestIn(s, w)
    BY <1>1, <2>4, <2>6
  <2> QED
    BY <2>5, <2>7
<1> QED
  BY <1>1, <1>2


(* Two blocks that share an address are one around the other. *)
LEMMA BlocksNest ==
  ASSUME NEW w, Powers(w), NEW p \in Blocks(w), NEW q \in Blocks(w), NEW x,
         p.lo <= x, x <= p.hi, q.lo <= x, x <= q.hi, x \in 0 .. 2^w - 1, q.length < p.length
  PROVE  q.lo <= p.lo /\ p.hi <= q.hi
<1>1. /\ p.length \in 0 .. w /\ q.length \in 0 .. w /\ x \in Nat
      /\ p = Block(x, p.length, w) /\ q = Block(x, q.length, w)
  BY BlockOf
<1>2. PICK u \in Nat \ {0}, v \in Nat \ {0} : u = 2^(w - p.length) /\ 2^(w - q.length) = v * u
  <2>1. 2^(w - p.length) \in Nat \ {0}
    BY <1>1, PowerOf
  <2>2. \E v \in Nat \ {0} : 2^(w - q.length) = v * 2^(w - p.length)
    BY <1>1, LongerIsSmaller
  <2> QED
    BY <2>1, <2>2
<1>3. PICK m \in Nat \ {0} : m = v * u
  OBVIOUS
<1>4. PICK i \in Nat, j \in Nat : i = x \div u /\ j = x \div m
  BY <1>1, Division
<1>5. PICK a \in Nat, b \in Nat : a = i * u /\ b = j * m
  OBVIOUS
<1>6. x - (x % u) = a /\ x - (x % m) = b /\ a <= x /\ x <= a + (u - 1) /\ b <= x /\ x <= b + (m - 1)
  <2>1. x = ((x \div u) * u) + (x % u) /\ x % u \in 0 .. u - 1
    BY <1>1, Division
  <2>2. x = ((x \div m) * m) + (x % m) /\ x % m \in 0 .. m - 1
    BY <1>1, Division
  <2>3. x = a + (x % u) /\ x = b + (x % m)
    BY <1>4, <1>5, <2>1, <2>2
  <2> QED
    BY <1>1, <2>1, <2>2, <2>3
<1>7. PICK n \in Nat : n = j * v /\ n * u = b /\ (n + v) * u = b + m
  <2>1. PICK n \in Nat : n = j * v
    OBVIOUS
  <2>2. n * u = j * (v * u)
    BY <2>1
  <2>3. (n + v) * u = n * u + v * u
    OBVIOUS
  <2> QED
    BY <1>3, <1>5, <2>1, <2>2, <2>3
<1>8. b <= a
  <2>1. CASE n <= i
    <3>1. n = i => a = b
      BY <1>5, <1>7
    <3>2. n < i => n * u + u <= i * u
      BY NextMultiple
    <3> QED
      BY <1>5, <1>7, <2>1, <3>1, <3>2
  <2>2. CASE i < n
    <3>1. i * u + u <= n * u
      BY <2>2, NextMultiple
    <3> QED
      BY <1>1, <1>5, <1>6, <1>7, <3>1
  <2> QED
    BY <2>1, <2>2
<1>9. a + (u - 1) <= b + (m - 1)
  <2>1. CASE i < n + v
    <3>1. i * u + u <= (n + v) * u
      BY <2>1, NextMultiple
    <3> QED
      BY <1>5, <1>7, <3>1
  <2>2. CASE n + v <= i
    <3>1. n + v = i => (n + v) * u = a
      BY <1>5
    <3>2. n + v < i => (n + v) * u + u <= i * u
      BY NextMultiple
    <3> QED
      BY <1>1, <1>5, <1>6, <1>7, <2>2, <3>1, <3>2
  <2> QED
    BY <2>1, <2>2
<1>10. p.lo = a /\ p.hi = a + (u - 1) /\ q.lo = b /\ q.hi = b + (m - 1)
  <2>1. 2^(w - q.length) = m
    BY <1>2, <1>3
  <2>2. Block(x, p.length, w) = [lo |-> x - (x % u), hi |-> x - (x % u) + (u - 1), length |-> p.length]
    BY <1>2 DEF Block
  <2>3. Block(x, q.length, w) = [lo |-> x - (x % m), hi |-> x - (x % m) + (m - 1), length |-> q.length]
    BY <2>1 DEF Block
  <2>4. /\ p.lo = x - (x % u) /\ p.hi = x - (x % u) + (u - 1)
        /\ q.lo = x - (x % m) /\ q.hi = x - (x % m) + (m - 1)
    BY <1>1, <2>2, <2>3
  <2> QED
    BY <1>6, <2>4
<1> QED
  BY <1>8, <1>9, <1>10

(* The largest blocks are apart. *)
LEMMA LargestApart ==
  ASSUME NEW w, Powers(w), NEW s \in SUBSET (0 .. 2^w - 1),
         NEW p \in LargestIn(s, w), NEW q \in LargestIn(s, w), p.lo <= q.lo, p # q
  PROVE  p.hi < q.lo
<1> SUFFICES ASSUME ~(p.hi < q.lo) PROVE FALSE
  OBVIOUS
<1>1. p \in Blocks(w) /\ q \in Blocks(w) /\ p.lo .. p.hi \subseteq s /\ q.lo .. q.hi \subseteq s
  BY DEF LargestIn
<1>2. /\ p.lo \in Nat /\ p.hi \in Nat /\ q.lo \in Nat /\ q.hi \in Nat
      /\ p.lo <= p.hi /\ q.lo <= q.hi /\ p.length \in 0 .. w /\ q.length \in 0 .. w
      /\ q.lo \in 0 .. 2^w - 1
  BY <1>1, BlockOf
<1>3. p.lo <= q.lo /\ q.lo <= p.hi /\ q.lo <= q.lo /\ q.lo <= q.hi
  BY <1>2
<1>4. CASE p.length = q.length
  <2>1. p = Block(q.lo, p.length, w) /\ q = Block(q.lo, q.length, w)
    BY <1>1, <1>2, <1>3, BlockOf
  <2> QED
    BY <1>4, <2>1
<1>5. CASE q.length < p.length
  <2>1. q.lo <= p.lo /\ p.hi <= q.hi
    BY <1>1, <1>2, <1>3, <1>5, BlocksNest
  <2> QED
    BY <1>1, <2>1 DEF LargestIn
<1>6. CASE p.length < q.length
  <2>1. p.lo <= q.lo /\ q.hi <= p.hi
    BY <1>1, <1>2, <1>3, <1>6, BlocksNest
  <2> QED
    BY <1>1, <2>1 DEF LargestIn
<1> QED
  BY <1>2, <1>4, <1>5, <1>6

(* Sets of addresses with a gap between them are covered one by one. *)
LEMMA LargestOfBoth ==
  ASSUME NEW w, Powers(w), NEW s \in SUBSET (0 .. 2^w - 1), NEW t \in SUBSET (0 .. 2^w - 1),
         NEW e \in Int, \A x \in s : x < e, \A x \in t : e < x
  PROVE  LargestIn(s \cup t, w) = LargestIn(s, w) \cup LargestIn(t, w)
<1>1. ASSUME NEW p \in Blocks(w), p.lo .. p.hi \subseteq s \cup t
      PROVE  p.lo .. p.hi \subseteq s \/ p.lo .. p.hi \subseteq t
  <2>1. p.lo \in Nat /\ p.hi \in Nat /\ p.lo <= p.hi
    BY BlockOf
  <2>2. ~(p.lo <= e /\ e <= p.hi)
    BY <1>1, <2>1
  <2>3. CASE p.hi < e
    BY <1>1, <2>1, <2>3
  <2>4. CASE e < p.lo
    BY <1>1, <2>1, <2>4
  <2> QED
    BY <2>1, <2>2, <2>3, <2>4
<1>2. ASSUME NEW p \in Blocks(w), NEW q \in Blocks(w), q.lo <= p.lo, p.hi <= q.hi
      PROVE  /\ p.lo .. p.hi \subseteq s /\ q.lo .. q.hi \subseteq t => FALSE
             /\ p.lo .. p.hi \subseteq t /\ q.lo .. q.hi \subseteq s => FALSE
  <2>1. p.lo \in Nat /\ p.hi \in Nat /\ p.lo <= p.hi /\ q.lo \in Nat /\ q.hi \in Nat
    BY BlockOf
  <2>2. p.lo \in p.lo .. p.hi /\ p.lo \in q.lo .. q.hi
    BY <1>2, <2>1
  <2>3. \A x \in s : x \notin t
    OBVIOUS
  <2> QED
    BY <2>2, <2>3
<1>3. ASSUME NEW p \in LargestIn(s \cup t, w)
      PROVE  p \in LargestIn(s, w) \cup LargestIn(t, w)
  <2>1. /\ p \in Blocks(w) /\ p.lo .. p.hi \subseteq s \cup t
        /\ \A q \in Blocks(w) : q.lo .. q.hi \subseteq s \cup t /\ q.lo <= p.lo /\ p.hi <= q.hi => q = p
    BY <1>3 DEF LargestIn
  <2> QED
    BY <1>1, <2>1 DEF LargestIn
<1>4. ASSUME NEW p \in LargestIn(s, w) \cup LargestIn(t, w)
      PROVE  p \in LargestIn(s \cup t, w)
  <2>1. p \in Blocks(w) /\ (p.lo .. p.hi \subseteq s \/ p.lo .. p.hi \subseteq t)
    BY <1>4 DEF LargestIn
  <2>2. ASSUME NEW q \in Blocks(w), q.lo .. q.hi \subseteq s \cup t, q.lo <= p.lo, p.hi <= q.hi
        PROVE  q = p
    <3>1. q.lo .. q.hi \subseteq s \/ q.lo .. q.hi \subseteq t
      BY <1>1, <2>2
    <3>2. CASE p \in LargestIn(s, w)
      <4>1. p.lo .. p.hi \subseteq s
        BY <3>2 DEF LargestIn
      <4>2. q.lo .. q.hi \subseteq s
        BY <1>2, <2>1, <2>2, <3>1, <4>1
      <4> QED
        BY <2>2, <3>2, <4>2 DEF LargestIn
    <3>3. CASE p \in LargestIn(t, w)
      <4>1. p.lo .. p.hi \subseteq t
        BY <3>3 DEF LargestIn
      <4>2. q.lo .. q.hi \subseteq t
        BY <1>2, <2>1, <2>2, <3>1, <4>1
      <4> QED
        BY <2>2, <3>3, <4>2 DEF LargestIn
    <3> QED
      BY <1>4, <3>2, <3>3
  <2>3. p.lo .. p.hi \subseteq s \cup t
    BY <2>1
  <2> QED
    BY <2>1, <2>2, <2>3 DEF LargestIn
<1> QED
  BY <1>3, <1>4

LEMMA BlocksFinite ==
  ASSUME NEW w, Powers(w)
  PROVE  IsFiniteSet(Blocks(w))
<1> DEFINE D == (0 .. 2^w - 1) \X (0 .. w)
           f == [x \in D |-> Block(x[1], x[2], w)]
<1>1. IsFiniteSet(D)
  <2>1. w \in 0 .. w /\ w \in Nat
    BY DEF Powers
  <2>2. 2^w - 1 \in Int
    BY <2>1, PowerOf
  <2>3. IsFiniteSet(0 .. 2^w - 1) /\ IsFiniteSet(0 .. w)
    BY <2>1, <2>2, FS_Interval
  <2> QED
    BY <2>3, FS_Product
<1>2. Blocks(w) \subseteq {f[x] : x \in D}
  <2> SUFFICES ASSUME NEW p \in Blocks(w)
               PROVE  \E x \in D : p = f[x]
    OBVIOUS
  <2>1. PICK a \in 0 .. 2^w - 1, b \in 0 .. w : p = Block(a, b, w)
    BY DEF Blocks
  <2>2. <<a, b>> \in D /\ f[<<a, b>>] = Block(a, b, w)
    OBVIOUS
  <2> QED
    BY <2>1, <2>2
<1> HIDE DEF f, D
<1>3. IsFiniteSet({f[x] : x \in D})
  BY <1>1, ImageFinite
<1> QED
  BY <1>2, <1>3, FS_Subset
-----------------------------------------------------------------------------
(* Quotient and remainder are unique. *)
LEMMA DivisionIs ==
  ASSUME NEW u \in Nat \ {0}, NEW q \in Nat, NEW r \in 0 .. u - 1, NEW x, x = q * u + r
  PROVE  x \in Nat /\ x \div u = q /\ x % u = r
<1>1. x \in Nat
  <2>1. PICK m \in Nat : m = q * u
    OBVIOUS
  <2> QED
    BY <2>1
<1>2. PICK p \in Nat : p = x \div u
  BY <1>1, Division
<1>3. PICK t : t = x % u
  OBVIOUS
<1>4. x = p * u + t /\ t \in 0 .. u - 1
  BY <1>1, <1>2, <1>3, Division
<1>5. p = q
  <2>1. PICK m \in Nat : m = q * u
    OBVIOUS
  <2>2. PICK n \in Nat : n = p * u
    OBVIOUS
  <2>3. p < q => n + u <= m
    BY <2>1, <2>2, NextMultiple
  <2>4. q < p => m + u <= n
    BY <2>1, <2>2, NextMultiple
  <2>5. m + r = n + t
    BY <1>4, <2>1, <2>2
  <2> QED
    BY <1>4, <2>1, <2>2, <2>3, <2>4, <2>5
<1>6. t = r
  BY <1>4, <1>5
<1> QED
  BY <1>1, <1>2, <1>3, <1>5, <1>6

LEMMA SmallRemainder ==
  ASSUME NEW u \in Nat \ {0}, NEW x \in 0 .. u - 1
  PROVE  x % u = x /\ x \div u = 0
<1>1. x = 0 * u + x
  OBVIOUS
<1> QED
  BY <1>1, DivisionIs

(* To be aligned is to be a multiple. *)
LEMMA AlignedIs ==
  ASSUME NEW x \in Nat, NEW u \in Nat \ {0}
  PROVE  x % u = 0 <=> \E c \in Nat : x = c * u
<1>1. ASSUME x % u = 0 PROVE x = (x \div u) * u /\ x \div u \in Nat
  BY <1>1, Division
<1>2. ASSUME NEW c \in Nat, x = c * u PROVE x % u = 0
  <2>1. x = c * u + 0
    BY <1>2
  <2> QED
    BY <2>1, DivisionIs
<1> QED
  BY <1>1, <1>2

(* A smaller power of two divides a larger one. *)
LEMMA PowerProduct ==
  ASSUME NEW w, Powers(w), NEW k \in 0 .. w, NEW j \in 0 .. k
  PROVE  /\ 2^k \in Nat \ {0} /\ 2^j \in Nat \ {0} /\ 2^(k - j) \in Nat \ {0} /\ 2^k = 2^j * 2^(k - j)
         /\ 2^j <= 2^k
         /\ j < k => 2 * 2^j <= 2^k /\ \E h \in Nat \ {0} : 2^(k - j) = 2 * h
<1>1. w \in Nat /\ k - j \in 0 .. w /\ j \in 0 .. w
  BY DEF Powers
<1>2. 2^k \in Nat \ {0} /\ 2^j \in Nat \ {0} /\ 2^(k - j) \in Nat \ {0} /\ 2^k = 2^j * 2^(k - j)
  BY <1>1 DEF Powers
<1>3. 2^j <= 2^k
  <2>1. PICK m \in Nat \ {0} : m = 2^j
    BY <1>2
  <2>2. PICK n \in Nat \ {0} : n = 2^(k - j)
    BY <1>2
  <2>3. m <= m * n
    OBVIOUS
  <2> QED
    BY <1>2, <2>1, <2>2, <2>3
<1>4. ASSUME j < k PROVE 2 * 2^j <= 2^k /\ \E h \in Nat \ {0} : 2^(k - j) = 2 * h
  <2>1. 1 \in 0 .. k - j /\ k - j \in 0 .. w /\ k - j - 1 \in 0 .. w
    BY <1>1, <1>4
  <2>2. 2^(k - j) = 2^1 * 2^(k - j - 1) /\ 2^1 = 2 /\ 2^(k - j - 1) \in Nat \ {0}
    BY <2>1 DEF Powers
  <2>3. PICK m \in Nat \ {0} : m = 2^j
    BY <1>2
  <2>4. PICK h \in Nat \ {0} : h = 2^(k - j - 1)
    BY <2>2
  <2>5. 2 * m <= m * (2 * h)
    OBVIOUS
  <2> QED
    BY <1>2, <2>2, <2>3, <2>4, <2>5
<1> QED
  BY <1>2, <1>3, <1>4

(* What is aligned to a power of two is aligned to the smaller ones. *)
LEMMA AlignedDown ==
  ASSUME NEW w, Powers(w), NEW k \in 0 .. w, NEW j \in 0 .. k, NEW x \in Nat, x % 2^k = 0
  PROVE  x % 2^j = 0
<1>1. /\ 2^k \in Nat \ {0} /\ 2^j \in Nat \ {0} /\ 2^(k - j) \in Nat \ {0} /\ 2^k = 2^j * 2^(k - j)
  BY PowerProduct
<1>2. PICK c \in Nat : x = c * 2^k
  BY <1>1, AlignedIs
<1>3. PICK m \in Nat \ {0} : m = 2^j
  BY <1>1
<1>4. PICK n \in Nat \ {0} : n = 2^(k - j)
  BY <1>1
<1>5. x = c * (m * n) /\ c * (m * n) = (c * n) * m /\ c * n \in Nat
  BY <1>1, <1>2, <1>3, <1>4
<1>6. x = (c * n) * 2^j
  BY <1>3, <1>5
<1> QED
  BY <1>1, <1>5, <1>6, AlignedIs
-----------------------------------------------------------------------------
(* The remainder by the next power of two is that by this one and a bit. *)
LEMMA OneMoreBit ==
  ASSUME NEW u \in Nat \ {0}, NEW x \in Nat
  PROVE  x % (2 * u) = (x % u) + u * ((x \div u) % 2)
<1>1. PICK q \in Nat : q = x \div u
  BY Division
<1>2. PICK r : r = x % u
  OBVIOUS
<1>3. r \in 0 .. u - 1 /\ x = q * u + r
  BY <1>1, <1>2, Division
<1>4. PICK p \in Nat : p = q \div 2
  BY Division
<1>5. PICK b : b = q % 2
  OBVIOUS
<1>6. b \in 0 .. 1 /\ q = p * 2 + b
  BY <1>4, <1>5, Division
<1>7. x = p * (2 * u) + (r + u * b)
  <2>1. CASE b = 0
    BY <1>3, <1>6, <2>1
  <2>2. CASE b = 1
    BY <1>3, <1>6, <2>2
  <2> QED
    BY <1>6, <2>1, <2>2
<1>8. r + u * b \in 0 .. (2 * u) - 1
  <2>1. CASE b = 0
    BY <1>3, <1>6, <2>1
  <2>2. CASE b = 1
    BY <1>3, <1>6, <2>2
  <2> QED
    BY <1>6, <2>1, <2>2
<1>9. x % (2 * u) = r + u * b
  <2>1. PICK n \in Nat \ {0} : n = 2 * u
    OBVIOUS
  <2>2. PICK s : s = r + u * b
    OBVIOUS
  <2>3. x = p * n + s /\ s \in 0 .. n - 1
    BY <1>7, <1>8, <2>1, <2>2
  <2>4. x % n = s
    BY <2>3, DivisionIs
  <2> QED
    BY <2>1, <2>2, <2>4
<1> QED
  BY <1>1, <1>2, <1>5, <1>9

(* The bits of a number decide it. *)
LEMMA BitsDecide ==
  ASSUME NEW w, Powers(w), NEW x \in 0 .. 2^w - 1, NEW y \in 0 .. 2^w - 1,
         \A i \in 0 .. w - 1 : (x \div 2^i) % 2 = (y \div 2^i) % 2
  PROVE  x = y
<1> DEFINE S == {n \in Nat : n <= w => x % 2^n = y % 2^n}
<1>0. w \in Nat /\ 2^w \in Nat \ {0} /\ 2^0 = 1 /\ 2^1 = 2 /\ x \in Nat /\ y \in Nat
  BY DEF Powers
<1>1. 0 \in S
  <2>1. x = x * 1 + 0 /\ y = y * 1 + 0
    BY <1>0
  <2>2. x % 1 = 0 /\ y % 1 = 0
    BY <1>0, <2>1, DivisionIs
  <2> QED
    BY <1>0, <2>2
<1>2. ASSUME NEW n \in Nat, n \in S, n + 1 <= w PROVE x % 2^(n + 1) = y % 2^(n + 1)
  <2>1. n \in 0 .. w - 1 /\ n + 1 \in 0 .. w /\ 1 \in 0 .. n + 1 /\ n <= w /\ n + 1 - 1 = n
    BY <1>0, <1>2
  <2>2. 2^(n + 1) = 2 * 2^n /\ 2^n \in Nat \ {0}
    <3>0. PICK m \in 0 .. w : m = n + 1
      BY <2>1
    <3>1. 1 \in 0 .. m /\ m - 1 = n
      BY <2>1, <3>0
    <3>1a. 2^m = 2^1 * 2^(m - 1)
      BY <3>1, PowerProduct
    <3>2. 2^n \in Nat \ {0}
      BY <2>1 DEF Powers
    <3> QED
      BY <1>0, <3>0, <3>1, <3>1a, <3>2
  <2>3. x % 2^n = y % 2^n /\ (x \div 2^n) % 2 = (y \div 2^n) % 2
    BY <1>2, <2>1
  <2>4. /\ x % (2 * 2^n) = (x % 2^n) + 2^n * ((x \div 2^n) % 2)
        /\ y % (2 * 2^n) = (y % 2^n) + 2^n * ((y \div 2^n) % 2)
    BY <1>0, <2>2, OneMoreBit
  <2> QED
    BY <2>2, <2>3, <2>4
<1>3. \A n \in Nat : n \in S => n + 1 \in S
  BY <1>2
<1>4. w \in S
  <2> HIDE DEF S
  <2> QED
    BY <1>0, <1>1, <1>3, SetInduction
<1>5. x = 0 * 2^w + x /\ y = 0 * 2^w + y
  BY <1>0
<1>6. x % 2^w = x /\ y % 2^w = y
  BY <1>0, <1>5, DivisionIs
<1> QED
  BY <1>0, <1>4, <1>6

(* The quotient by a multiple of u does not see what is below u. *)
LEMMA CoarseQuotient ==
  ASSUME NEW u \in Nat \ {0}, NEW d \in Nat \ {0}, NEW c \in Nat, NEW x, x = c * u
  PROVE  x \div (u * d) = (x + (u - 1)) \div (u * d)
<1>1. PICK q \in Nat : q = c \div d
  BY Division
<1>2. PICK r \in 0 .. d - 1 : c = q * d + r
  BY <1>1, Division
<1>3. x = q * (u * d) + r * u
  BY <1>2
<1>4. r * u \in 0 .. (u * d) - u
  <2>1. r * u \in Nat /\ r < d
    BY <1>2
  <2>2. r * u + u <= d * u
    BY <2>1, NextMultiple
  <2> QED
    BY <2>1, <2>2
<1>5. PICK n \in Nat \ {0} : n = u * d
  OBVIOUS
<1>6. PICK s : s = r * u
  OBVIOUS
<1>7. PICK t : t = s + (u - 1)
  OBVIOUS
<1>8. PICK y : y = x + (u - 1)
  OBVIOUS
<1>9. x = q * n + s /\ s \in 0 .. n - 1 /\ y = q * n + t /\ t \in 0 .. n - 1
  <2>1. PICK p \in Nat : p = q * n
    BY <1>5
  <2>2. x = p + s /\ s \in 0 .. n - u
    BY <1>3, <1>4, <1>5, <1>6, <2>1
  <2> QED
    BY <1>7, <1>8, <2>1, <2>2
<1>10. x \div n = q
  BY <1>9, DivisionIs
<1>11. y \div n = q
  BY <1>9, DivisionIs
<1> QED
  BY <1>5, <1>8, <1>10, <1>11

(* All bits below position j, put into a number that has none of them. *)
LEMMA FilledBits ==
  ASSUME NEW w, Powers(w), NEW j \in 0 .. w, NEW x \in Nat, x % 2^j = 0,
         NEW y \in Nat, y = x + (2^j - 1), NEW i \in 0 .. w - 1
  PROVE  (y \div 2^i) % 2 = IF i < j THEN 1 ELSE (x \div 2^i) % 2
<1>0. w \in Nat /\ i \in 0 .. w /\ 2^i \in Nat \ {0} /\ 2^j \in Nat \ {0}
  BY DEF Powers
<1>a. PICK c \in Nat : x = c * 2^j
  BY <1>0, AlignedIs
<1>1. CASE i < j
  <2>1. i \in 0 .. j
    BY <1>0, <1>1
  <2>2. PICK h \in Nat \ {0} : 2^(j - i) = 2 * h
    BY <1>1, <2>1, PowerProduct
  <2>3. PICK u \in Nat \ {0} : u = 2^i
    BY <1>0
  <2>4. 2^j = u * (2 * h)
    BY <2>1, <2>2, <2>3, PowerProduct
  <2>5. PICK e \in Nat : (c + 1) * h = e + 1
    <3>1. (c + 1) * h \in Nat /\ (c + 1) * h # 0
      OBVIOUS
    <3> QED
      BY <3>1
  <2>6. x + (2^j - 1) = (2 * e + 1) * u + (u - 1)
    <3>1. x + 2^j = (c + 1) * (u * (2 * h))
      BY <1>a, <2>4
    <3>2. (c + 1) * (u * (2 * h)) = 2 * (((c + 1) * h) * u)
      OBVIOUS
    <3>3. ((c + 1) * h) * u = e * u + u
      BY <2>5
    <3>4. PICK m \in Nat : m = e * u
      OBVIOUS
    <3>5. (2 * e + 1) * u = 2 * m + u
      BY <3>4
    <3>6. x + 2^j = 2 * (m + u)
      BY <3>1, <3>2, <3>3, <3>4
    <3> QED
      BY <1>0, <1>a, <3>5, <3>6
  <2>7. y \div u = 2 * e + 1
    <3>1. PICK t \in Nat : t = 2 * e + 1
      OBVIOUS
    <3>2. PICK z : z = y
      OBVIOUS
    <3>3. PICK s \in 0 .. u - 1 : s = u - 1
      OBVIOUS
    <3>4. z = t * u + s
      BY <2>6, <3>1, <3>2, <3>3
    <3>5. z \div u = t
      BY <3>4, DivisionIs
    <3> QED
      BY <3>1, <3>2, <3>5
  <2>8. (2 * e + 1) % 2 = 1
    OBVIOUS
  <2> QED
    BY <1>1, <2>3, <2>7, <2>8
<1>2. CASE ~(i < j)
  <2>1. j \in 0 .. i
    BY <1>0, <1>2
  <2>2. PICK d \in Nat \ {0} : d = 2^(i - j)
    BY <1>0, <2>1, PowerProduct
  <2>3. PICK u \in Nat \ {0} : u = 2^j
    BY <1>0
  <2>4. 2^i = u * d
    BY <1>0, <2>1, <2>2, <2>3, PowerProduct
  <2>5. x = c * u /\ y = x + (u - 1)
    BY <1>a, <2>3
  <2>6. x \div (u * d) = y \div (u * d)
    BY <2>5, CoarseQuotient
  <2> QED
    BY <1>2, <2>4, <2>6
<1> QED
  BY <1>1, <1>2

-----------------------------------------------------------------------------
(* How far a number is aligned: there is a last power of two that divides it,
   and the ones that do are those up to it. *)
ZerosAre(x, n, w) == n \in 0 .. w /\ \A k \in 0 .. w : x % 2^k = 0 <=> k <= n

LEMMA LastZero ==
  ASSUME NEW w, Powers(w), NEW x \in Nat, NEW n \in 0 .. w,
         x % 2^n = 0, n = w \/ x % 2^(n + 1) # 0
  PROVE  ZerosAre(x, n, w)
<1>0. w \in Nat
  BY DEF Powers
<1>1. ASSUME NEW k \in 0 .. w, x % 2^k = 0, ~(k <= n) PROVE FALSE
  <2>1. n + 1 \in 0 .. k /\ n # w
    BY <1>0, <1>1
  <2>2. x % 2^(n + 1) = 0
    BY <1>1, <2>1, AlignedDown
  <2> QED
    BY <2>1, <2>2
<1>2. ASSUME NEW k \in 0 .. w, k <= n PROVE x % 2^k = 0
  <2>1. k \in 0 .. n
    BY <1>0, <1>2
  <2> QED
    BY <2>1, AlignedDown
<1> QED
  BY <1>1, <1>2 DEF ZerosAre

LEMMA ZerosExist ==
  ASSUME NEW w, Powers(w), NEW x \in Nat
  PROVE  \E n \in 0 .. w : x % 2^n = 0 /\ (n = w \/ x % 2^(n + 1) # 0)
<1> DEFINE S == {n \in 0 .. w : x % 2^n = 0}
<1>0. w \in Nat /\ 2^0 = 1
  BY DEF Powers
<1>1. 0 \in S
  <2>1. x = x * 1 + 0
    OBVIOUS
  <2>2. x % 1 = 0
    BY <2>1, DivisionIs
  <2> QED
    BY <1>0, <2>2
<1>2. PICK n \in S : \A k \in S : n >= k
  <2>1. S \in SUBSET (0 .. w) /\ S # {}
    BY <1>1
  <2> HIDE DEF S
  <2> QED
    BY <1>0, <2>1, GreatestExists
<1>3. n = w \/ x % 2^(n + 1) # 0
  <2> SUFFICES ASSUME n # w, x % 2^(n + 1) = 0 PROVE FALSE
    OBVIOUS
  <2>1. n + 1 \in S
    BY <1>0
  <2> QED
    BY <1>0, <1>2, <2>1
<1> QED
  BY <1>3

(* The highest bit of a number. *)
LEMMA TopExists ==
  ASSUME NEW w, Powers(w), NEW x \in 1 .. 2^w - 1
  PROVE  \E k \in 0 .. w - 1 : 2^k <= x /\ x < 2^(k + 1)
<1> DEFINE S == {n \in 0 .. w : 2^n <= x}
<1>0. w \in Nat /\ 2^0 = 1 /\ 2^w \in Nat \ {0} /\ x \in Nat
  BY DEF Powers
<1>1. 0 \in S
  BY <1>0
<1>2. PICK n \in S : \A k \in S : n >= k
  <2>1. S \in SUBSET (0 .. w) /\ S # {}
    BY <1>1
  <2> HIDE DEF S
  <2> QED
    BY <1>0, <2>1, GreatestExists
<1>3. n # w
  BY <1>0
<1>4. n \in 0 .. w - 1 /\ n + 1 \in 0 .. w /\ n + 1 \notin S
  BY <1>0, <1>2, <1>3
<1>5. 2^(n + 1) \in Nat
  BY <1>4 DEF Powers
<1> QED
  BY <1>0, <1>4, <1>5

(* It bounds the powers of two that are not above the number. *)
LEMMA TopBounds ==
  ASSUME NEW w, Powers(w), NEW x \in Nat, NEW n \in 0 .. w - 1, 2^n <= x, x < 2^(n + 1), NEW k \in 0 .. w
  PROVE  2^k <= x <=> k <= n
<1>0. w \in Nat /\ n \in 0 .. w /\ n + 1 \in 0 .. w
  BY DEF Powers
<1>1. 2^n \in Nat /\ 2^k \in Nat /\ 2^(n + 1) \in Nat
  BY <1>0 DEF Powers
<1>2. CASE k <= n
  <2>1. k \in 0 .. n
    BY <1>0, <1>2
  <2>2. 2^k <= 2^n
    BY <1>0, <2>1, PowerProduct
  <2> QED
    BY <1>1, <1>2, <2>2
<1>3. CASE ~(k <= n)
  <2>1. n + 1 \in 0 .. k
    BY <1>0, <1>3
  <2>2. 2^(n + 1) <= 2^k
    BY <2>1, PowerProduct
  <2> QED
    BY <1>1, <1>3, <2>2
<1> QED
  BY <1>2, <1>3

-----------------------------------------------------------------------------
(* Intervals that are nested or apart, and the largest of them in l .. h. *)
Nested(P) ==
  /\ \A p \in P : p.lo \in Nat /\ p.hi \in Nat /\ p.lo <= p.hi
  /\ \A p, q \in P : p.lo = q.lo /\ p.hi = q.hi => p = q
  /\ \A p, q \in P : \/ p.hi < q.lo \/ q.hi < p.lo
                     \/ p.lo <= q.lo /\ q.hi <= p.hi
                     \/ q.lo <= p.lo /\ p.hi <= q.hi

LargestBetween(P, l, h) ==
  {p \in P : /\ l <= p.lo /\ p.hi <= h
             /\ \A q \in P : (l <= q.lo /\ q.hi <= h) /\ (q.lo <= p.lo /\ p.hi <= q.hi) => q = p}

(* Some of them, which fill the numbers from l to n - 1. *)
FilledUpTo(P, l, h, c, n) ==
  /\ c \subseteq LargestBetween(P, l, h)
  /\ \A x \in Nat : (l <= x /\ x < n) <=> \E p \in c : p.lo <= x /\ x <= p.hi

(* The largest at n is one of them: a larger one would have to start before n,
   inside an interval that is already the largest there. *)
LEMMA GreedyIsLargest ==
  ASSUME NEW P, Nested(P), NEW l \in Nat, NEW h \in Nat, NEW c, NEW n \in Nat, l <= n,
         FilledUpTo(P, l, h, c, n),
         NEW p \in P, p.lo = n, p.hi <= h, \A q \in P : q.lo = n /\ q.hi <= h => q.hi <= p.hi
  PROVE  p \in LargestBetween(P, l, h)
<1>1. p.lo \in Nat /\ p.hi \in Nat /\ p.lo <= p.hi
  BY DEF Nested
<1>2. ASSUME NEW q \in P, l <= q.lo, q.hi <= h, q.lo <= p.lo, p.hi <= q.hi
      PROVE  q = p
  <2>1. q.lo \in Nat /\ q.hi \in Nat /\ q.lo <= q.hi
    BY DEF Nested
  <2>2. CASE q.lo = n
    <3>1. q.hi <= p.hi
      BY <1>2, <2>2
    <3>2. q.lo = p.lo /\ q.hi = p.hi
      BY <1>1, <1>2, <2>1, <2>2, <3>1
    <3> QED
      BY <3>2 DEF Nested
  <2>3. CASE q.lo < n
    <3>1. PICK b \in c : b.lo <= q.lo /\ q.lo <= b.hi
      BY <1>2, <2>1, <2>3 DEF FilledUpTo
    <3>2. /\ b \in P /\ l <= b.lo /\ b.hi <= h
          /\ \A r \in P : (l <= r.lo /\ r.hi <= h) /\ (r.lo <= b.lo /\ b.hi <= r.hi) => r = b
      BY <3>1 DEF FilledUpTo, LargestBetween
    <3>3. b.lo \in Nat /\ b.hi \in Nat /\ b.lo <= b.hi
      BY <3>2 DEF Nested
    <3>4. b.hi < n
      BY <3>1, <3>3 DEF FilledUpTo
    <3>5. q.lo <= b.lo /\ b.hi <= q.hi
      <4>1. b.hi < q.hi
        BY <1>1, <1>2, <2>1, <3>3, <3>4
      <4>2. \/ b.hi < q.lo \/ q.hi < b.lo
            \/ b.lo <= q.lo /\ q.hi <= b.hi
            \/ q.lo <= b.lo /\ b.hi <= q.hi
        BY <3>2 DEF Nested
      <4> QED
        BY <2>1, <3>1, <3>3, <4>1, <4>2
    <3>6. q = b
      BY <1>2, <3>2, <3>5
    <3> QED
      BY <1>1, <1>2, <2>1, <3>4, <3>6
  <2> QED
    BY <1>1, <1>2, <2>1, <2>2, <2>3
<1> QED
  BY <1>1, <1>2 DEF LargestBetween

LEMMA GreedyStep ==
  ASSUME NEW P, Nested(P), NEW l \in Nat, NEW h \in Nat, NEW c, NEW n \in Nat, l <= n,
         FilledUpTo(P, l, h, c, n),
         NEW p \in P, p.lo = n, p.hi <= h, \A q \in P : q.lo = n /\ q.hi <= h => q.hi <= p.hi
  PROVE  FilledUpTo(P, l, h, c \cup {p}, p.hi + 1)
<1>1. p.lo \in Nat /\ p.hi \in Nat /\ p.lo <= p.hi
  BY DEF Nested
<1>2. c \cup {p} \subseteq LargestBetween(P, l, h)
  <2>1. p \in LargestBetween(P, l, h)
    BY GreedyIsLargest
  <2>2. c \subseteq LargestBetween(P, l, h)
    BY DEF FilledUpTo
  <2> QED
    BY <2>1, <2>2
<1>3. ASSUME NEW x \in Nat
      PROVE  (l <= x /\ x < p.hi + 1) <=> \E q \in c \cup {p} : q.lo <= x /\ x <= q.hi
  <2>1. (\E q \in c \cup {p} : q.lo <= x /\ x <= q.hi)
          <=> (\E q \in c : q.lo <= x /\ x <= q.hi) \/ (p.lo <= x /\ x <= p.hi)
    OBVIOUS
  <2>2. (\E q \in c : q.lo <= x /\ x <= q.hi) <=> (l <= x /\ x < n)
    BY DEF FilledUpTo
  <2> QED
    BY <1>1, <2>1, <2>2
<1> QED
  BY <1>2, <1>3 DEF FilledUpTo

(* Filled to the end, they are all: one more would share its first number with
   one that is there, and the two are nested. *)
LEMMA GreedyDone ==
  ASSUME NEW P, Nested(P), NEW l \in Nat, NEW h \in Nat, NEW c, FilledUpTo(P, l, h, c, h + 1)
  PROVE  c = LargestBetween(P, l, h)
<1>1. ASSUME NEW q \in LargestBetween(P, l, h) PROVE q \in c
  <2>1. /\ q \in P /\ l <= q.lo /\ q.hi <= h
        /\ \A r \in P : (l <= r.lo /\ r.hi <= h) /\ (r.lo <= q.lo /\ q.hi <= r.hi) => r = q
    BY DEF LargestBetween
  <2>2. q.lo \in Nat /\ q.hi \in Nat /\ q.lo <= q.hi
    BY <2>1 DEF Nested
  <2>3. PICK b \in c : b.lo <= q.lo /\ q.lo <= b.hi
    BY <2>1, <2>2 DEF FilledUpTo
  <2>4. /\ b \in P /\ l <= b.lo /\ b.hi <= h
        /\ \A r \in P : (l <= r.lo /\ r.hi <= h) /\ (r.lo <= b.lo /\ b.hi <= r.hi) => r = b
    BY <2>3 DEF FilledUpTo, LargestBetween
  <2>5. \/ b.lo <= q.lo /\ q.hi <= b.hi
        \/ q.lo <= b.lo /\ b.hi <= q.hi
    <3>1. b.lo \in Nat /\ b.hi \in Nat
      BY <2>4 DEF Nested
    <3>2. \/ b.hi < q.lo \/ q.hi < b.lo
          \/ b.lo <= q.lo /\ q.hi <= b.hi
          \/ q.lo <= b.lo /\ b.hi <= q.hi
      BY <2>1, <2>4 DEF Nested
    <3> QED
      BY <2>2, <2>3, <3>1, <3>2
  <2>6. q = b
    BY <2>1, <2>4, <2>5
  <2> QED
    BY <2>3, <2>6
<1>2. c \subseteq LargestBetween(P, l, h)
  BY DEF FilledUpTo
<1> QED
  BY <1>1, <1>2
-----------------------------------------------------------------------------
(* The aligned blocks of w bits, moved up by s. *)
ShiftedBlocks(w, s) ==
  UNION {{[lo |-> s + k * 2^n, hi |-> s + (k + 1) * 2^n - 1] : k \in 0 .. 2^(w - n) - 1} : n \in 0 .. w}

LEMMA ShiftedIs ==
  ASSUME NEW w, Powers(w), NEW s \in Nat, NEW p \in ShiftedBlocks(w, s)
  PROVE  \E n \in 0 .. w, x \in 0 .. 2^w - 1 :
           /\ x % 2^n = 0 /\ 2^n \in Nat \ {0} /\ x + (2^n - 1) <= 2^w - 1
           /\ p = [lo |-> s + x, hi |-> s + x + (2^n - 1)]
<1>1. PICK n \in 0 .. w : \E k \in 0 .. 2^(w - n) - 1 : p = [lo |-> s + k * 2^n, hi |-> s + (k + 1) * 2^n - 1]
  BY DEF ShiftedBlocks
<1>2. PICK k \in 0 .. 2^(w - n) - 1 : p = [lo |-> s + k * 2^n, hi |-> s + (k + 1) * 2^n - 1]
  BY <1>1
<1>3. w \in 0 .. w /\ n \in 0 .. w
  BY DEF Powers
<1>4. /\ 2^w \in Nat \ {0} /\ 2^n \in Nat \ {0} /\ 2^(w - n) \in Nat \ {0} /\ 2^w = 2^n * 2^(w - n)
  BY <1>3, PowerProduct
<1>5. PICK u \in Nat \ {0} : u = 2^n
  BY <1>4
<1>6. PICK m \in Nat \ {0} : m = 2^(w - n)
  BY <1>4
<1>7. PICK x \in Nat : x = k * u
  <2>1. k \in Nat
    BY <1>6
  <2> QED
    BY <2>1
<1>8. x + u <= m * u /\ m * u = 2^w
  <2>1. k \in Nat /\ k < m
    BY <1>6
  <2>2. k * u + u <= m * u
    BY <2>1, NextMultiple
  <2>3. m * u = 2^w
    BY <1>4, <1>5, <1>6
  <2> QED
    BY <1>7, <2>2, <2>3
<1>9. x % u = 0
  <2>1. k \in Nat
    BY <1>6
  <2> QED
    BY <1>7, <2>1, AlignedIs
<1>10. p = [lo |-> s + x, hi |-> s + x + (u - 1)]
  <2>1. (k + 1) * u = x + u
    BY <1>6, <1>7
  <2>2. s + (k + 1) * u - 1 = s + x + (u - 1)
    BY <2>1
  <2> QED
    BY <1>2, <1>5, <1>7, <2>2
<1>11. x \in 0 .. 2^w - 1 /\ x + (u - 1) <= 2^w - 1
  BY <1>4, <1>8
<1> QED
  BY <1>5, <1>9, <1>10, <1>11

LEMMA ShiftedHas ==
  ASSUME NEW w, Powers(w), NEW s \in Nat, NEW x \in 0 .. 2^w - 1, NEW n \in 0 .. w, x % 2^n = 0
  PROVE  [lo |-> s + x, hi |-> s + x + (2^n - 1)] \in ShiftedBlocks(w, s)
<1>3. w \in 0 .. w
  BY DEF Powers
<1>4. /\ 2^w \in Nat \ {0} /\ 2^n \in Nat \ {0} /\ 2^(w - n) \in Nat \ {0} /\ 2^w = 2^n * 2^(w - n)
  BY <1>3, PowerProduct
<1>5. PICK u \in Nat \ {0} : u = 2^n
  BY <1>4
<1>6. PICK m \in Nat \ {0} : m = 2^(w - n)
  BY <1>4
<1>7. PICK k \in Nat : x = k * u
  <2>1. x \in Nat /\ x % u = 0
    BY <1>4, <1>5
  <2> QED
    BY <2>1, AlignedIs
<1>8. k \in 0 .. m - 1
  <2>1. m * u = 2^w /\ x < m * u
    BY <1>4, <1>5, <1>6
  <2>2. ASSUME m <= k PROVE FALSE
    <3>1. CASE m = k
      BY <1>7, <2>1, <3>1
    <3>2. CASE m < k
      <4>1. m * u + u <= k * u
        BY <3>2, NextMultiple
      <4>2. m * u \in Nat /\ k * u \in Nat
        OBVIOUS
      <4> QED
        BY <1>7, <2>1, <4>1, <4>2
    <3> QED
      BY <2>2, <3>1, <3>2
  <2> QED
    BY <2>2
<1>9. [lo |-> s + x, hi |-> s + x + (u - 1)] = [lo |-> s + k * 2^n, hi |-> s + (k + 1) * 2^n - 1]
  <2>1. (k + 1) * u = x + u
    BY <1>7
  <2>2. s + (k + 1) * u - 1 = s + x + (u - 1)
    BY <2>1
  <2> QED
    BY <1>5, <1>7, <2>2
<1> QED
  BY <1>5, <1>6, <1>8, <1>9 DEF ShiftedBlocks

(* Of two aligned blocks, the smaller one lies in the larger one or beside it. *)
LEMMA AlignedNest ==
  ASSUME NEW w, Powers(w), NEW n \in 0 .. w, NEW m \in 0 .. n, NEW x \in Nat, NEW y \in Nat,
         x % 2^n = 0, y % 2^m = 0
  PROVE  \/ x + (2^n - 1) < y \/ y + (2^m - 1) < x
         \/ x <= y /\ y + (2^m - 1) <= x + (2^n - 1)
<1>1. x % 2^m = 0
  BY AlignedDown
<1>2. 2^n \in Nat \ {0} /\ 2^m \in Nat \ {0} /\ 2^(n - m) \in Nat \ {0} /\ 2^n = 2^m * 2^(n - m)
  BY PowerProduct
<1>3. PICK u \in Nat \ {0} : u = 2^m
  BY <1>2
<1>4. PICK d \in Nat \ {0} : d = 2^(n - m)
  BY <1>2
<1>5. PICK a \in Nat : x = a * u
  BY <1>1, <1>3, AlignedIs
<1>6. PICK b \in Nat : y = b * u
  BY <1>3, AlignedIs
<1>7. PICK e \in Nat : e = a + d
  OBVIOUS
<1>8. 2^n = d * u /\ x + 2^n = e * u
  <2>1. 2^n = d * u
    BY <1>2, <1>3, <1>4
  <2>2. (a + d) * u = a * u + d * u
    OBVIOUS
  <2> QED
    BY <1>5, <1>7, <2>1, <2>2
<1>9. /\ b < a => y + u <= x
      /\ b < e => y + u <= x + 2^n
      /\ a <= b => x <= y
      /\ e <= b => x + 2^n <= y
  <2>1. b < a => y + u <= x
    BY <1>5, <1>6, NextMultiple
  <2>2. b < e => b * u + u <= e * u
    BY NextMultiple
  <2>3. a < b => a * u + u <= b * u
    BY NextMultiple
  <2>4. e < b => e * u + u <= b * u
    BY NextMultiple
  <2>5. e * u \in Nat
    OBVIOUS
  <2> QED
    BY <1>5, <1>6, <1>8, <2>1, <2>2, <2>3, <2>4, <2>5
<1> QED
  BY <1>2, <1>3, <1>9

LEMMA ShiftedNest ==
  ASSUME NEW w, Powers(w), NEW s \in Nat, NEW p \in ShiftedBlocks(w, s), NEW q \in ShiftedBlocks(w, s)
  PROVE  /\ p.lo \in Nat /\ p.hi \in Nat /\ p.lo <= p.hi /\ s <= p.lo /\ p.hi < s + 2^w
         /\ p.lo = q.lo /\ p.hi = q.hi => p = q
         /\ \/ p.hi < q.lo \/ q.hi < p.lo
            \/ p.lo <= q.lo /\ q.hi <= p.hi
            \/ q.lo <= p.lo /\ p.hi <= q.hi
<1>1. PICK n \in 0 .. w, x \in 0 .. 2^w - 1 :
        /\ x % 2^n = 0 /\ 2^n \in Nat \ {0} /\ x + (2^n - 1) <= 2^w - 1
        /\ p = [lo |-> s + x, hi |-> s + x + (2^n - 1)]
  BY ShiftedIs
<1>2. PICK m \in 0 .. w, y \in 0 .. 2^w - 1 :
        /\ y % 2^m = 0 /\ 2^m \in Nat \ {0} /\ y + (2^m - 1) <= 2^w - 1
        /\ q = [lo |-> s + y, hi |-> s + y + (2^m - 1)]
  BY ShiftedIs
<1>3. w \in Nat /\ 2^w \in Nat \ {0} /\ x \in Nat /\ y \in Nat
  BY DEF Powers
<1>4. \/ x + (2^n - 1) < y \/ y + (2^m - 1) < x
      \/ x <= y /\ y + (2^m - 1) <= x + (2^n - 1)
      \/ y <= x /\ x + (2^n - 1) <= y + (2^m - 1)
  <2>1. CASE m <= n
    <3>1. m \in 0 .. n
      BY <1>3, <2>1
    <3> QED
      BY <1>1, <1>2, <1>3, <3>1, AlignedNest
  <2>2. CASE n <= m
    <3>1. n \in 0 .. m
      BY <1>3, <2>2
    <3> QED
      BY <1>1, <1>2, <1>3, <3>1, AlignedNest
  <2> QED
    BY <1>3, <2>1, <2>2
<1>5. PICK i \in Nat : i = 2^n - 1
  BY <1>1
<1>6. PICK j \in Nat : j = 2^m - 1
  BY <1>2
<1>7. /\ p.lo = s + x /\ p.hi = s + x + i /\ q.lo = s + y /\ q.hi = s + y + j
      /\ x + i <= 2^w - 1 /\ y + j <= 2^w - 1
  BY <1>1, <1>2, <1>5, <1>6
<1>8. p.lo = q.lo /\ p.hi = q.hi => p = q
  BY <1>1, <1>2
<1> QED
  BY <1>3, <1>4, <1>5, <1>6, <1>7, <1>8

(* Two families of blocks, the second one behind the first. *)
LEMMA FamiliesNested ==
  ASSUME NEW w, Powers(w), NEW u, Powers(u)
  PROVE  Nested(ShiftedBlocks(w, 0) \cup ShiftedBlocks(u, 2^w))
<1>0. 2^w \in Nat \ {0} /\ 0 \in Nat /\ 2^u \in Nat
  BY DEF Powers
<1>1. ASSUME NEW p \in ShiftedBlocks(w, 0), NEW q \in ShiftedBlocks(u, 2^w)
      PROVE  p.lo <= p.hi /\ p.hi < q.lo /\ q.lo <= q.hi /\ p.lo \in Nat /\ p.hi \in Nat /\ q.lo \in Nat /\ q.hi \in Nat
  <2>1. p.lo \in Nat /\ p.hi \in Nat /\ p.lo <= p.hi /\ p.hi < 0 + 2^w
    BY <1>0, ShiftedNest
  <2>2. q.lo \in Nat /\ q.hi \in Nat /\ q.lo <= q.hi /\ 2^w <= q.lo
    BY <1>0, ShiftedNest
  <2> QED
    BY <1>0, <2>1, <2>2
<1> DEFINE P == ShiftedBlocks(w, 0)  Q == ShiftedBlocks(u, 2^w)
           Good(p, q) == /\ p.lo = q.lo /\ p.hi = q.hi => p = q
                         /\ \/ p.hi < q.lo \/ q.hi < p.lo
                            \/ p.lo <= q.lo /\ q.hi <= p.hi
                            \/ q.lo <= p.lo /\ p.hi <= q.hi
<1>2. \A p \in P \cup Q : p.lo \in Nat /\ p.hi \in Nat /\ p.lo <= p.hi
  <2>1. \A p \in P : p.lo \in Nat /\ p.hi \in Nat /\ p.lo <= p.hi
    BY <1>0, ShiftedNest
  <2>2. \A p \in Q : p.lo \in Nat /\ p.hi \in Nat /\ p.lo <= p.hi
    BY <1>0, ShiftedNest
  <2> QED
    BY <2>1, <2>2
<1>3. \A p, q \in P \cup Q : Good(p, q)
  <2>1. \A p, q \in P : Good(p, q)
    BY <1>0, ShiftedNest
  <2>2. \A p, q \in Q : Good(p, q)
    BY <1>0, ShiftedNest
  <2>3. ASSUME NEW p \in P, NEW q \in Q PROVE Good(p, q) /\ Good(q, p)
    <3>1. p.lo <= p.hi /\ p.hi < q.lo /\ q.lo <= q.hi /\ p.lo \in Nat /\ p.hi \in Nat /\ q.lo \in Nat /\ q.hi \in Nat
      BY <1>1
    <3> QED
      BY <3>1
  <2> HIDE DEF Good, P, Q
  <2> QED
    BY <2>1, <2>2, <2>3
<1> QED
  BY <1>2, <1>3 DEF Nested

(* A finite set in a sequence: each element has one place. *)
LEMMA SetToSeqIs ==
  ASSUME NEW S, IsFiniteSet(S), NEW s, s = SeqExt!SetToSeq(S)
  PROVE  /\ s \in Seq(S) /\ Len(s) = Cardinality(S) /\ Len(s) \in Nat
         /\ \A i, j \in 1 .. Len(s) : s[i] = s[j] => i = j
         /\ \A x \in S : \E i \in 1 .. Len(s) : s[i] = x
<1>1. PICK n \in Nat : n = Cardinality(S)
  BY FS_CardinalityType
<1>2. \E f \in [1 .. n -> S] : \A i, j \in DOMAIN f : f[i] = f[j] => i = j
  <2>1. PICK f : f \in Bijection(1 .. n, S)
    BY <1>1, FS_CardinalityType DEF ExistsBijection
  <2>2. f \in [1 .. n -> S] /\ \A i, j \in 1 .. n : f[i] = f[j] => i = j
    BY <2>1 DEF Bijection, Injection, Surjection, IsInjective
  <2> QED
    BY <2>2
<1>3. s \in [1 .. n -> S] /\ \A i, j \in 1 .. n : s[i] = s[j] => i = j
  <2>0. SeqExt!Cardinality(S) = n
    BY <1>1 DEF SeqExt!Cardinality, Cardinality
  <2>1. s = CHOOSE f \in [1 .. n -> S] : \A i, j \in DOMAIN f : f[i] = f[j] => i = j
    BY <2>0, Zenon DEF SeqExt!SetToSeq, SeqExt!IsInjective
  <2>2. s \in [1 .. n -> S] /\ \A i, j \in DOMAIN s : s[i] = s[j] => i = j
    BY <1>2, <2>1
  <2> QED
    BY <2>2
<1>4. s \in Seq(S) /\ Len(s) = n
  BY <1>3, MakeSeq
<1>5. \A x \in S : \E i \in 1 .. n : s[i] = x
  <2>1. s \in Injection(1 .. n, S)
    BY <1>3 DEF Injection, IsInjective
  <2>2. Cardinality(1 .. n) = Cardinality(S)
    <3>1. Cardinality(1 .. n) = IF 1 > n THEN 0 ELSE n - 1 + 1
      BY FS_Interval
    <3> QED
      BY <1>1, <3>1
  <2>3. s \in Surjection(1 .. n, S)
    BY <2>1, <2>2, FS_Injection
  <2> QED
    BY <2>3 DEF Surjection
<1> QED
  BY <1>1, <1>3, <1>4, <1>5

(* A sequence that has n sequences of length k one behind the other. *)
Laid(s, n, k, t) ==
  /\ Len(t) = k * n
  /\ \A p \in 1 .. n, j \in 1 .. k : k * (p - 1) + j \in 1 .. Len(t) /\ t[k * (p - 1) + j] = s[p][j]

LEMMA FlattenEqual ==
  ASSUME NEW S, NEW s \in Seq(Seq(S)), NEW k \in Nat, \A i \in 1 .. Len(s) : Len(s[i]) = k
  PROVE  SeqExt!FlattenSeq(s) \in Seq(S) /\ Laid(s, Len(s), k, SeqExt!FlattenSeq(s))
<1> DEFINE M == {n \in Nat : n <= Len(s) =>
                   /\ Len(FlattenTo(s, n)) = k * n
                   /\ \A p \in 1 .. n, j \in 1 .. k :
                        k * (p - 1) + j \in 1 .. k * n /\ FlattenTo(s, n)[k * (p - 1) + j] = s[p][j]}
<1>0. Len(s) \in Nat /\ \A i \in 1 .. Len(s) : s[i] \in Seq(S)
  OBVIOUS
<1>1. 0 \in M
  <2>1. FlattenTo(s, 0) = <<>>
    BY <1>0, FlattenStep
  <2> QED
    BY <2>1
<1>2. ASSUME NEW n \in Nat, n \in M PROVE n + 1 \in M
  <2> SUFFICES ASSUME n + 1 <= Len(s)
               PROVE  /\ Len(FlattenTo(s, n + 1)) = k * (n + 1)
                      /\ \A p \in 1 .. n + 1, j \in 1 .. k :
                           /\ k * (p - 1) + j \in 1 .. k * (n + 1)
                           /\ FlattenTo(s, n + 1)[k * (p - 1) + j] = s[p][j]
    OBVIOUS
  <2>1. PICK f : f = FlattenTo(s, n)
    OBVIOUS
  <2>2. PICK g : g = FlattenTo(s, n + 1)
    OBVIOUS
  <2>3. PICK c : c = s[n + 1]
    OBVIOUS
  <2>4. n <= Len(s) /\ n < Len(s) /\ n + 1 \in 1 .. Len(s)
    BY <1>0
  <2>5. f \in Seq(S) /\ g = f \o c /\ c \in Seq(S) /\ Len(c) = k
    BY <1>0, <2>1, <2>2, <2>3, <2>4, FlattenStep
  <2>6. /\ Len(f) = k * n
        /\ \A p \in 1 .. n, j \in 1 .. k : k * (p - 1) + j \in 1 .. k * n /\ f[k * (p - 1) + j] = s[p][j]
    BY <1>2, <2>1, <2>4
  <2>7. /\ Len(g) = Len(f) + k
        /\ \A i \in 1 .. Len(f) : g[i] = f[i]
        /\ \A i \in 1 .. k : g[Len(f) + i] = c[i]
    <3>1. f \in Seq(S) /\ c \in Seq(S)
      BY <2>5
    <3>2. /\ Len(f \o c) = Len(f) + Len(c)
          /\ \A i \in 1 .. Len(f) : (f \o c)[i] = f[i]
          /\ \A i \in 1 .. Len(c) : (f \o c)[Len(f) + i] = c[i]
      BY <3>1, Concat
    <3> QED
      BY <2>5, <3>2, Zenon
  <2>8. PICK m \in Nat : m = k * n /\ k * (n + 1) = m + k
    OBVIOUS
  <2>9. Len(g) = k * (n + 1)
    BY <2>6, <2>7, <2>8
  <2>10. ASSUME NEW p \in 1 .. n + 1, NEW j \in 1 .. k
         PROVE  k * (p - 1) + j \in 1 .. k * (n + 1) /\ g[k * (p - 1) + j] = s[p][j]
    <3>1. CASE p \in 1 .. n
      <4>1. PICK x : x = k * (p - 1) + j
        OBVIOUS
      <4>2. x \in 1 .. m /\ f[x] = s[p][j]
        BY <2>6, <2>8, <3>1, <4>1
      <4>3. x \in 1 .. m + k /\ g[x] = s[p][j]
        BY <2>6, <2>7, <2>8, <4>2
      <4> QED
        BY <2>8, <4>1, <4>3
    <3>2. CASE p = n + 1
      <4>1. p - 1 = n /\ k * (p - 1) = m
        BY <2>8, <3>2
      <4>2. m + j \in 1 .. m + k /\ g[m + j] = c[j]
        BY <2>6, <2>7, <2>8
      <4> QED
        BY <2>3, <2>8, <3>2, <4>1, <4>2
    <3> QED
      BY <3>1, <3>2
  <2> QED
    BY <2>2, <2>9, <2>10
<1> HIDE DEF M
<1>3. \A n \in Nat : n \in M
  BY <1>1, <1>2, SetInduction
<1>4. PICK t : t = FlattenTo(s, Len(s)) /\ t = SeqExt!FlattenSeq(s) /\ t \in Seq(S)
  BY <1>0, FlattenStep
<1>5. Len(s) <= Len(s) /\ Len(s) \in M
  BY <1>0, <1>3
<1>6. Laid(s, Len(s), k, t)
  BY <1>4, <1>5 DEF M, Laid
<1> QED
  BY <1>4, <1>6

(* The block of an address at a depth, and the two halves of it. *)
LEMMA HalfOf ==
  ASSUME NEW w, Powers(w), NEW n \in 0 .. 2^w - 1, NEW d \in 0 .. w - 1
  PROVE  /\ n \div 2^(w - d) \in Nat /\ n \div 2^(w - d) < 2^d
         /\ (n \div 2^(w - 1 - d)) % 2 \in 0 .. 1
         /\ n \div 2^(w - (d + 1)) = 2 * (n \div 2^(w - d)) + ((n \div 2^(w - 1 - d)) % 2)
<1>0. w \in Nat /\ n \in Nat /\ w - d \in 0 .. w /\ w - (d + 1) \in 0 .. w - d /\ w - (d + 1) = w - 1 - d
      /\ d \in 0 .. w /\ (w - d) - (w - (d + 1)) = 1 /\ w \in 0 .. w /\ w - d \in 0 .. w
      /\ w - (w - d) = d
  <2>1. w \in Nat
    BY DEF Powers
  <2>2. 2^w \in Nat
    BY <2>1 DEF Powers
  <2> QED
    BY <2>1, <2>2
<1>1. PICK u : u = 2^(w - (d + 1))
  OBVIOUS
<1>2. u \in Nat \ {0} /\ 2^(w - d) = u * 2
  <2>1. 2^(w - d) = 2^(w - (d + 1)) * 2^((w - d) - (w - (d + 1)))
    BY <1>0 DEF Powers
  <2>2. 2^1 = 2
    BY DEF Powers
  <2>3. w - (d + 1) \in 0 .. w
    BY <1>0
  <2> QED
    BY <1>0, <1>1, <2>1, <2>2, <2>3 DEF Powers
<1>3. PICK x \in Nat : x = n \div u
  BY <1>0, <1>2, Division
<1>4. PICK h \in Nat : h = x \div 2
  BY Division
<1>5. PICK b \in 0 .. 1 : b = x % 2 /\ x = h * 2 + b
  BY <1>4, Division
<1>6. n \div 2^(w - d) = h
  <2>1. PICK r \in 0 .. u - 1 : n = x * u + r
    BY <1>0, <1>2, <1>3, Division
  <2>2. n = (h * 2 + b) * u + r
    BY <1>5, <2>1
  <2>3. n = h * (u * 2) + (b * u + r)
    BY <1>2, <2>2
  <2>4. b * u + r \in 0 .. u * 2 - 1
    <3>1. CASE b = 0
      BY <1>2, <3>1
    <3>2. CASE b = 1
      BY <1>2, <3>2
    <3> QED
      BY <3>1, <3>2
  <2>5. u * 2 \in Nat \ {0}
    BY <1>2
  <2>6. n \div (u * 2) = h
    BY <2>3, <2>4, <2>5, DivisionIs
  <2> QED
    BY <1>2, <2>6
<1>7. h < 2^d
  <2>1. PICK v \in Nat \ {0} : v = 2^(w - d)
    BY <1>1, <1>2
  <2>2. PICK t \in Nat \ {0} : t = 2^d
    BY <1>0 DEF Powers
  <2>3. 2^w = v * t
    <3>1. 2^w = 2^(w - d) * 2^(w - (w - d))
      BY <1>0 DEF Powers
    <3> QED
      BY <1>0, <2>1, <2>2, <3>1
  <2>4. PICK r \in Nat : n = h * v + r
    <3>1. n \in Nat /\ v \in Nat \ {0} /\ n \div v = h
      BY <1>0, <1>6, <2>1
    <3>2. n % v \in 0 .. v - 1 /\ n = ((n \div v) * v) + (n % v)
      BY <3>1, Division
    <3>3. n % v \in Nat /\ n = h * v + (n % v)
      BY <3>1, <3>2
    <3> QED
      BY <3>3
  <2>5. ASSUME ~(h < t) PROVE FALSE
    <3>1. t * v <= h * v
      BY <2>5
    <3>2. PICK y \in Nat : y = h * v
      OBVIOUS
    <3>3. t * v = v * t
      OBVIOUS
    <3> QED
      BY <2>3, <2>4, <3>1, <3>2, <3>3
  <2> QED
    BY <2>2, <2>5
<1>8. (n \div 2^(w - 1 - d)) % 2 = b /\ n \div 2^(w - (d + 1)) = x
  BY <1>0, <1>1, <1>3, <1>5
<1>9. x = 2 * h + b
  BY <1>5
<1> QED
  BY <1>6, <1>7, <1>8, <1>9
=============================================================================
