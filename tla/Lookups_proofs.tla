--------------------------- MODULE Lookups_proofs ----------------------------
(***************************************************************************)
(* Proofs about what answers addresses: the programs that load a spec, for *)
(* every spec, every query and any number of processes on one path; and    *)
(* the MaxMind DB, from the rows of its nomenclature to the record that is *)
(* decoded, for every spec, query, width and layout.  First what the       *)
(* families do with a text and a query, in numbers; then what a loader     *)
(* has; then one inductive invariant for each program, and one for each    *)
(* part of the life of a database.                                         *)
(***************************************************************************)
EXTENDS Services, Mmdb, DataLemmas, FiniteSetTheorems

(* The addresses of a family are the numbers below a power of two. *)
LEMMA Widths ==
  /\ 2^W4 \in Nat \ {0} /\ 2^W6 \in Nat \ {0}
  /\ V4!TopAddr \in Nat /\ V6!TopAddr \in Nat
  /\ V4!Addr = 0 .. V4!TopAddr /\ V6!Addr = 0 .. V6!TopAddr
  /\ Mapped \in Nat
<1>1. 2^W4 \in Nat \ {0} /\ 2^W6 \in Nat \ {0}
  BY WidthAssumption, PowerAssumption
<1> QED
  BY <1>1, MappedAssumption DEF V4!TopAddr, V6!TopAddr, V4!Addr, V6!Addr

(* What an address is made of. *)
LEMMA AddressType ==
  ASSUME NEW a \in Addresses
  PROVE  /\ a = [v4 |-> a.v4, ip |-> a.ip, zone |-> a.zone]
         /\ a.v4 \in BOOLEAN /\ a.ip \in Nat /\ a.zone \in Nat
         /\ a.v4 => a.ip \in V4!Addr /\ a.zone = 0
         /\ ~a.v4 => a.ip \in V6!Addr /\ a.zone \in Zones
<1>1. CASE a \in [v4 : {TRUE}, ip : V4!Addr, zone : {0}]
  <2>1. a = [v4 |-> a.v4, ip |-> a.ip, zone |-> a.zone] /\ a.v4 = TRUE /\ a.ip \in V4!Addr /\ a.zone = 0
    BY <1>1
  <2>2. a.ip \in Nat /\ a.zone \in Nat
    BY <2>1, Widths
  <2> QED
    BY <2>1, <2>2, Zenon
<1>2. CASE a \in [v4 : {FALSE}, ip : V6!Addr, zone : Zones]
  <2>1. a = [v4 |-> a.v4, ip |-> a.ip, zone |-> a.zone] /\ a.v4 = FALSE /\ a.ip \in V6!Addr /\ a.zone \in Zones
    BY <1>2
  <2>2. a.ip \in Nat /\ a.zone \in Nat
    BY <2>1, Widths, ZoneAssumption
  <2> QED
    BY <2>1, <2>2, Zenon
<1> QED
  BY <1>1, <1>2 DEF Addresses

(* Unmapping gives an address, and none that a mapped one wraps stays in
   IPv6. *)
LEMMA UnmapType ==
  ASSUME NEW a \in Addresses
  PROVE  /\ Unmap(a) \in Addresses
         /\ Unmap(a).v4 = FALSE => Unmap(a) = a /\ a.ip \notin MappedBlock
<1>1. CASE ~a.v4 /\ a.ip \in MappedBlock
  <2>1. a.ip - Mapped \in 0 .. V4!TopAddr
    BY <1>1, AddressType, Widths DEF MappedBlock
  <2>2. Unmap(a) = [v4 |-> TRUE, ip |-> a.ip - Mapped, zone |-> 0]
    BY <1>1 DEF Unmap
  <2> QED
    BY <2>1, <2>2, Widths DEF Addresses
<1>2. CASE ~(~a.v4 /\ a.ip \in MappedBlock)
  <2>1. Unmap(a) = a
    BY <1>2 DEF Unmap
  <2> QED
    BY <1>2, <2>1, AddressType
<1> QED
  BY <1>1, <1>2
-----------------------------------------------------------------------------
(* The address a text names, whether it parses, and the prefix it then is. *)
Given(t) == IF t.bits = Bare THEN Unmap(t.addr) ELSE t.addr
Parses(t) == t.bits = Bare \/ t.addr.zone = 0
PrefixOf(t) == Prefix(Given(t), Length(t))
FamilyWidth(four) == IF four THEN W4 ELSE W6

(* No prefix ends beyond it. *)
Limit == V4!TopAddr + V6!TopAddr + 2^W4 + 2^W6

(* The prefix of an address and a length is a whole block that holds the
   address. *)
LEMMA PrefixIs ==
  ASSUME NEW a \in Addresses, NEW bits \in 0 .. FamilyWidth(a.v4),
         NEW u, u = 2^(FamilyWidth(a.v4) - bits)
  PROVE  /\ u \in Nat \ {0}
         /\ Prefix(a, bits) = [v4 |-> a.v4, lo |-> a.ip - (a.ip % u), hi |-> a.ip - (a.ip % u) + (u - 1), length |-> bits]
         /\ Prefix(a, bits).lo \in 0 .. Limit /\ Prefix(a, bits).hi \in 0 .. Limit
         /\ Prefix(a, bits).lo <= Prefix(a, bits).hi
<1>1. /\ a.ip \in Nat /\ a.v4 \in BOOLEAN
      /\ a.v4 => a.ip <= V4!TopAddr
      /\ ~a.v4 => a.ip <= V6!TopAddr
  BY AddressType, Widths
<1>2. FamilyWidth(a.v4) - bits \in 0 .. FamilyWidth(a.v4) /\ FamilyWidth(a.v4) \in {W4, W6}
  BY WidthAssumption DEF FamilyWidth
<1>3. u \in 1 .. 2^FamilyWidth(a.v4)
  BY <1>2, PowerAssumption
<1>4. u \in Nat \ {0} /\ u <= 2^W4 + 2^W6
  BY <1>3, Widths, SMTT(30) DEF FamilyWidth
<1>5. Prefix(a, bits) = [v4 |-> a.v4, lo |-> a.ip - (a.ip % u), hi |-> a.ip - (a.ip % u) + (u - 1), length |-> bits]
  BY DEF Prefix, V4!Prefix, V6!Prefix, V4!Masked, V6!Masked, V4!lastAddr, V6!lastAddr, V4!lowMask, V6!lowMask, FamilyWidth
<1>6. a.ip - (a.ip % u) \in 0 .. a.ip
  BY <1>1, <1>4, BlockStart
<1>7. a.ip <= V4!TopAddr + V6!TopAddr
  BY <1>1, Widths
<1>8. a.ip - (a.ip % u) \in 0 .. Limit /\ a.ip - (a.ip % u) + (u - 1) \in 0 .. Limit
  <2>1. PICK m : m = a.ip - (a.ip % u)
    OBVIOUS
  <2>2. m \in 0 .. V4!TopAddr + V6!TopAddr
    BY <1>1, <1>6, <1>7, <2>1, Widths
  <2>3. PICK g, h \in Nat, l, n \in Nat : g = V4!TopAddr /\ h = V6!TopAddr /\ l = 2^W4 /\ n = 2^W6
    BY Widths
  <2>4. Limit = g + h + l + n
    BY <2>3 DEF Limit
  <2>5. m \in 0 .. g + h /\ u \in Nat \ {0} /\ u <= l + n
    BY <1>4, <2>2, <2>3
  <2>6. m \in 0 .. Limit /\ m + (u - 1) \in 0 .. Limit
    BY <2>4, <2>5
  <2> QED
    BY <2>1, <2>6
<1>9. a.ip - (a.ip % u) <= a.ip - (a.ip % u) + (u - 1)
  BY <1>4, <1>8
<1> QED
  BY <1>1, <1>4, <1>5, <1>8, <1>9

(* What ParsePrefix makes of a text, in one form for bare and masked ones. *)
LEMMA TextFacts ==
  ASSUME NEW t \in Texts
  PROVE  /\ Given(t) \in Addresses /\ Length(t) \in 0 .. FamilyWidth(Given(t).v4)
         /\ ParsePrefix(t) = IF Parses(t) THEN {PrefixOf(t)} ELSE {}
<1>1. t.addr \in Addresses /\ Unmap(t.addr) \in Addresses /\ t.bits \in {Bare} \cup 0 .. W6 /\ (t.addr.v4 => t.bits <= W4)
  BY UnmapType DEF Texts
<1>2. CASE t.bits = Bare
  <2>1. Given(t) = Unmap(t.addr) /\ Length(t) = FamilyWidth(Unmap(t.addr).v4)
    BY <1>2 DEF Given, Length, FamilyWidth
  <2>2. FamilyWidth(Unmap(t.addr).v4) \in Nat
    BY WidthAssumption DEF FamilyWidth
  <2>3. ParsePrefix(t) = {Prefix(Unmap(t.addr), FamilyWidth(Unmap(t.addr).v4))}
    BY <1>2 DEF ParsePrefix, FamilyWidth
  <2> QED
    BY <1>1, <1>2, <2>1, <2>2, <2>3 DEF Parses, PrefixOf
<1>3. CASE t.bits # Bare
  <2>1. Given(t) = t.addr /\ Length(t) = t.bits
    BY <1>3 DEF Given, Length
  <2>2. t.bits \in 0 .. FamilyWidth(t.addr.v4)
    BY <1>1, <1>3, WidthAssumption DEF FamilyWidth
  <2>3. ParsePrefix(t) = IF t.addr.zone = 0 THEN {Prefix(t.addr, t.bits)} ELSE {}
    BY <1>3 DEF ParsePrefix
  <2> QED
    BY <1>1, <1>3, <2>1, <2>2, <2>3 DEF Parses, PrefixOf
<1> QED
  BY <1>2, <1>3

(* A text lists the addresses of its prefix. *)
LEMMA ListsPrefix ==
  ASSUME NEW t \in Texts, NEW u, u.v4 \in BOOLEAN, u.ip \in Nat
  PROVE  /\ Lists(t, u) <=> /\ Parses(t) /\ PrefixOf(t).v4 = u.v4
                            /\ PrefixOf(t).lo <= u.ip /\ u.ip <= PrefixOf(t).hi
         /\ PrefixOf(t).lo \in 0 .. Limit /\ PrefixOf(t).hi \in 0 .. Limit
         /\ PrefixOf(t).length = Length(t) /\ PrefixOf(t).v4 = Given(t).v4
<1> DEFINE b == Given(t)
           n == Length(t)
<1>1. b \in Addresses /\ n \in 0 .. FamilyWidth(b.v4) /\ b.ip \in Nat
  BY TextFacts, AddressType
<1>2. PICK k : k = 2^(FamilyWidth(b.v4) - n)
  OBVIOUS
<1>3. /\ k \in Nat \ {0}
      /\ PrefixOf(t) = [v4 |-> b.v4, lo |-> b.ip - (b.ip % k), hi |-> b.ip - (b.ip % k) + (k - 1), length |-> n]
      /\ PrefixOf(t).lo \in 0 .. Limit /\ PrefixOf(t).hi \in 0 .. Limit
  BY <1>1, <1>2, PrefixIs DEF PrefixOf
<1>4. (b.ip - (b.ip % k) <= u.ip /\ u.ip <= b.ip - (b.ip % k) + (k - 1)) <=> b.ip \div k = u.ip \div k
  BY <1>1, <1>3, SameBlock
<1>5. Lists(t, u) <=> Parses(t) /\ b.v4 = u.v4 /\ b.ip \div 2^(FamilyWidth(u.v4) - n) = u.ip \div 2^(FamilyWidth(u.v4) - n)
  BY DEF Lists, Parses, Given, FamilyWidth
<1>6. b.v4 = u.v4 => 2^(FamilyWidth(u.v4) - n) = k
  BY <1>2
<1> QED
  BY <1>3, <1>4, <1>5, <1>6
-----------------------------------------------------------------------------
(* What a line contributes, if anything. *)
Has(i) == file.lines[i].kind = "entry" /\ Parses(file.lines[i].texts[1])
EntryOf(i) ==
  LET p == PrefixOf(file.lines[i].texts[1])
  IN [v4 |-> p.v4, lo |-> p.lo, hi |-> p.hi, length |-> p.length, line |-> i]

EntrySet == [v4 : BOOLEAN, lo : 0 .. Limit, hi : 0 .. Limit, length : Nat, line : Nat]

(* A line with a prefix has a text. *)
LEMMA FileFacts ==
  ASSUME file \in SpecFiles
  PROVE  /\ Len(file.lines) \in Nat /\ DOMAIN file.lines = 1 .. Len(file.lines)
         /\ \A i \in 1 .. Len(file.lines) :
              file.lines[i].kind = "entry" =>
                /\ file.lines[i].texts \in Seq(Texts)
                /\ Len(file.lines[i].texts) \in Nat /\ file.lines[i].texts[1] \in Texts
                /\ \A k \in 1 .. Len(file.lines[i].texts) : file.lines[i].texts[k] \in Texts
<1> DEFINE Lines == [kind : {"entry", "junk", "long"}, texts : Seq(Texts)]
<1>1. file.lines \in Seq(Lines) /\ \A i \in DOMAIN file.lines : file.lines[i].kind = "entry" => file.lines[i].texts # <<>>
  BY FileAssumption
<1>2. Len(file.lines) \in Nat /\ DOMAIN file.lines = 1 .. Len(file.lines) /\ \A i \in 1 .. Len(file.lines) : file.lines[i] \in Lines
  <2> HIDE DEF Lines
  <2> QED
    BY <1>1
<1>3. ASSUME NEW s \in Seq(Texts), s # <<>>
      PROVE  s[1] \in Texts /\ Len(s) \in Nat /\ \A k \in 1 .. Len(s) : s[k] \in Texts
  BY <1>3
<1> QED
  BY <1>1, <1>2, <1>3

(* A line contributes one typed entry, or none. *)
LEMMA parseIs ==
  ASSUME NEW t \in Texts, NEW i \in Nat
  PROVE  /\ PrefixOf(t).v4 \in BOOLEAN
         /\ parseSpecLine(i, t) \in Seq(EntrySet) /\ Len(parseSpecLine(i, t)) <= 1
         /\ parseSpecLine(i, t) =
              IF Parses(t) THEN <<[v4 |-> PrefixOf(t).v4, lo |-> PrefixOf(t).lo, hi |-> PrefixOf(t).hi,
                                   length |-> PrefixOf(t).length, line |-> i]>>
              ELSE <<>>
<1> DEFINE e == [v4 |-> PrefixOf(t).v4, lo |-> PrefixOf(t).lo, hi |-> PrefixOf(t).hi,
                 length |-> PrefixOf(t).length, line |-> i]
<1>1. /\ PrefixOf(t).lo \in 0 .. Limit /\ PrefixOf(t).hi \in 0 .. Limit
      /\ PrefixOf(t).length \in Nat /\ PrefixOf(t).v4 \in BOOLEAN
  <2>1. Given(t) \in Addresses /\ Length(t) \in 0 .. FamilyWidth(Given(t).v4)
    BY TextFacts
  <2>2. Given(t).v4 \in BOOLEAN /\ Given(t).ip \in Nat
    BY <2>1, AddressType
  <2> QED
    BY <2>1, <2>2, ListsPrefix
<1>2. e \in EntrySet
  BY <1>1 DEF EntrySet
<1>3. CASE Parses(t)
  <2>1. ParsePrefix(t) = {PrefixOf(t)}
    BY <1>3, TextFacts
  <2>2. Cardinality({PrefixOf(t)}) = 1
    BY FS_Singleton
  <2>3. parseSpecLine(i, t) = [j \in 1 .. 1 |-> e]
    BY <2>1, <2>2 DEF parseSpecLine
  <2>4. [j \in 1 .. 1 |-> e] = <<e>>
    OBVIOUS
  <2> QED
    BY <1>1, <1>2, <1>3, <2>3, <2>4
<1>4. CASE ~Parses(t)
  <2>1. ParsePrefix(t) = {}
    BY <1>4, TextFacts
  <2>2. Cardinality({}) = 0
    BY FS_EmptySet
  <2>3. parseSpecLine(i, t) = <<>>
    BY <2>1, <2>2 DEF parseSpecLine
  <2> QED
    BY <1>1, <1>4, <2>3
<1> QED
  BY <1>3, <1>4

(* The same of a line of the file. *)
LEMMA LineEntryIs ==
  ASSUME file \in SpecFiles, NEW i \in 1 .. Len(file.lines)
  PROVE  /\ LineEntry(i) = IF Has(i) THEN <<EntryOf(i)>> ELSE <<>>
         /\ LineEntry(i) \in Seq(EntrySet)
         /\ Has(i) => EntryOf(i) \in EntrySet
<1>1. i \in Nat /\ (file.lines[i].kind = "entry" => file.lines[i].texts[1] \in Texts)
  BY FileFacts
<1>2. CASE file.lines[i].kind = "entry"
  <2>1. LineEntry(i) = parseSpecLine(i, file.lines[i].texts[1])
    BY <1>2 DEF LineEntry
  <2>2. LineEntry(i) = IF Has(i) THEN <<EntryOf(i)>> ELSE <<>>
    BY <1>1, <1>2, <2>1, parseIs DEF Has, EntryOf
  <2>3. LineEntry(i) \in Seq(EntrySet)
    BY <1>1, <1>2, <2>1, parseIs
  <2>4. Has(i) => LineEntry(i)[1] = EntryOf(i) /\ Len(LineEntry(i)) = 1
    BY <2>2
  <2>5. ASSUME NEW s \in Seq(EntrySet), Len(s) = 1
        PROVE  s[1] \in EntrySet
    BY <2>5, ElementOfSeq
  <2>6. Has(i) => EntryOf(i) \in EntrySet
    BY <2>3, <2>4, <2>5
  <2> QED
    BY <2>2, <2>3, <2>6
<1>3. CASE file.lines[i].kind # "entry"
  BY <1>3 DEF LineEntry, Has
<1> QED
  BY <1>2, <1>3

(* One line more adds what that line contributes. *)
LEMMA EntriesGrow ==
  ASSUME file \in SpecFiles, NEW n \in 0 .. Len(file.lines)
  PROVE  /\ Entries(0) = <<>>
         /\ Entries(n) \in Seq(EntrySet)
         /\ n + 1 <= Len(file.lines) => Entries(n + 1) = Entries(n) \o LineEntry(n + 1)
<1> DEFINE Of(m) == [i \in 1 .. m |-> LineEntry(i)]
<1>1. Len(file.lines) \in Nat /\ \A i \in 1 .. Len(file.lines) : LineEntry(i) \in Seq(EntrySet)
  BY FileFacts, LineEntryIs
<1>2. ASSUME NEW m \in 0 .. Len(file.lines)
      PROVE  Of(m) \in Seq(Seq(EntrySet)) /\ Len(Of(m)) = m
  BY <1>1
<1>3. n + 1 <= Len(file.lines) => Of(n + 1) = Append(Of(n), LineEntry(n + 1))
  BY <1>1, <1>2
<1>4. \A m \in Nat : Entries(m) = SeqExt!FlattenSeq(Of(m))
  BY DEF Entries
<1>5. Of(0) = <<>>
  OBVIOUS
<1> HIDE DEF Of
<1>6. Entries(n) \in Seq(EntrySet)
  BY <1>1, <1>2, <1>4, FlattenType
<1>7. SeqExt!FlattenSeq(<<>>) = <<>>
  BY DEF SeqExt!FlattenSeq
<1>8. ASSUME n + 1 <= Len(file.lines)
      PROVE  Entries(n + 1) = Entries(n) \o LineEntry(n + 1)
  <2>1. LineEntry(n + 1) \in Seq(EntrySet) /\ n \in Nat /\ n + 1 \in Nat
    BY <1>1, <1>8
  <2>2. SeqExt!FlattenSeq(Append(Of(n), LineEntry(n + 1))) = SeqExt!FlattenSeq(Of(n)) \o LineEntry(n + 1)
    BY <1>2, <2>1, FlattenAppend
  <2> QED
    BY <1>3, <1>4, <1>8, <2>1, <2>2
<1> QED
  BY <1>4, <1>5, <1>6, <1>7, <1>8

(* One element more adds itself to the elements of a sequence. *)
LEMMA RangeGrows ==
  ASSUME NEW T, NEW s \in Seq(T), NEW x \in T
  PROVE  {(s \o <<x>>)[k] : k \in 1 .. Len(s \o <<x>>)} = {s[k] : k \in 1 .. Len(s)} \cup {x}
<1>1. /\ Len(s) \in Nat /\ Len(s \o <<x>>) = Len(s) + 1 /\ (s \o <<x>>)[Len(s) + 1] = x
      /\ \A k \in 1 .. Len(s) : (s \o <<x>>)[k] = s[k]
  OBVIOUS
<1>2. 1 .. Len(s) + 1 = (1 .. Len(s)) \cup {Len(s) + 1}
  BY <1>1
<1> QED
  BY <1>1, <1>2

Elements(s) == {s[k] : k \in 1 .. Len(s)}
OfLines(n) == {EntryOf(i) : i \in {j \in 1 .. n : Has(j)}}

(* The entries are those of the lines that have one. *)
LEMMA EntriesAre ==
  ASSUME file \in SpecFiles
  PROVE  \A n \in 0 .. Len(file.lines) : Elements(Entries(n)) = OfLines(n)
<1> DEFINE S == {n \in Nat : n <= Len(file.lines) => Elements(Entries(n)) = OfLines(n)}
<1>0. Len(file.lines) \in Nat
  BY FileFacts
<1>1. 0 \in S
  <2>1. Entries(0) = <<>>
    BY <1>0, EntriesGrow
  <2>2. Elements(<<>>) = {} /\ OfLines(0) = {}
    BY DEF Elements, OfLines
  <2> QED
    BY <2>1, <2>2
<1>2. ASSUME NEW n \in Nat, n \in S
      PROVE  n + 1 \in S
  <2>1. SUFFICES ASSUME n + 1 <= Len(file.lines)
                 PROVE  Elements(Entries(n + 1)) = OfLines(n + 1)
    OBVIOUS
  <2>2. n \in 0 .. Len(file.lines) /\ n + 1 \in 1 .. Len(file.lines)
    BY <1>0, <2>1
  <2>3. Elements(Entries(n)) = OfLines(n)
    BY <1>0, <1>2, <2>2
  <2>4. /\ Entries(n) \in Seq(EntrySet)
        /\ Entries(n + 1) = Entries(n) \o (IF Has(n + 1) THEN <<EntryOf(n + 1)>> ELSE <<>>)
        /\ Has(n + 1) => EntryOf(n + 1) \in EntrySet
    BY <2>1, <2>2, EntriesGrow, LineEntryIs
  <2>5. 1 .. n + 1 = (1 .. n) \cup {n + 1}
    OBVIOUS
  <2>6. OfLines(n + 1) = OfLines(n) \cup IF Has(n + 1) THEN {EntryOf(n + 1)} ELSE {}
    BY <2>5 DEF OfLines
  <2>7. CASE Has(n + 1)
    <3>1. Elements(Entries(n) \o <<EntryOf(n + 1)>>) = Elements(Entries(n)) \cup {EntryOf(n + 1)}
      BY <2>4, <2>7, RangeGrows DEF Elements
    <3> QED
      BY <2>3, <2>4, <2>6, <2>7, <3>1
  <2>8. CASE ~Has(n + 1)
    <3>1. Entries(n + 1) = Entries(n)
      BY <2>4, <2>8
    <3> QED
      BY <2>3, <2>6, <2>8, <3>1
  <2> QED
    BY <2>7, <2>8
<1> HIDE DEF S
<1>3. \A n \in Nat : n \in S
  BY <1>1, <1>2, SetInduction
<1> QED
  BY <1>0, <1>3 DEF S
-----------------------------------------------------------------------------
(* What a program has loaded. *)
Whole(es) ==
  /\ file \in SpecFiles
  /\ es \in Seq(EntrySet)
  /\ Elements(es) = IF Readable THEN OfLines(Len(file.lines)) ELSE {}

Holders(es, u) == {e \in InFamily(es, u.v4) : e.lo <= u.ip /\ u.ip <= e.hi}

(* The entries of a family, without their places. *)
LEMMA FamilyIs ==
  ASSUME NEW es, Whole(es), NEW four \in BOOLEAN
  PROVE  InFamily(es, four) = {e \in Elements(es) : e.v4 = four}
<1>1. Len(es) \in Nat /\ DOMAIN es = 1 .. Len(es)
  BY LenProperties DEF Whole
<1> QED
  BY <1>1 DEF InFamily, Elements

(* A line lists an address if the prefix of its entry holds it. *)
LEMMA LineFacts ==
  ASSUME file \in SpecFiles, NEW i \in 1 .. Len(file.lines), NEW u, u.v4 \in BOOLEAN, u.ip \in Nat
  PROVE  /\ i \in Listing(u) <=> Has(i) /\ EntryOf(i).v4 = u.v4 /\ EntryOf(i).lo <= u.ip /\ u.ip <= EntryOf(i).hi
         /\ EntryOf(i).line = i
         /\ Has(i) => EntryOf(i).length = Length(file.lines[i].texts[1]) /\ EntryOf(i).length \in 0 .. W4 + W6
<1>1. DOMAIN file.lines = 1 .. Len(file.lines)
  BY FileFacts
<1>2. file.lines[i].kind = "entry" => file.lines[i].texts[1] \in Texts
  BY FileFacts
<1>3. EntryOf(i).line = i
  BY DEF EntryOf
<1>4. CASE file.lines[i].kind = "entry"
  <2>1. PICK t \in Texts : t = file.lines[i].texts[1]
    BY <1>2, <1>4
  <2>2. /\ Lists(t, u) <=> Parses(t) /\ PrefixOf(t).v4 = u.v4 /\ PrefixOf(t).lo <= u.ip /\ u.ip <= PrefixOf(t).hi
        /\ PrefixOf(t).length = Length(t)
    BY ListsPrefix
  <2>3. /\ EntryOf(i).v4 = PrefixOf(t).v4 /\ EntryOf(i).lo = PrefixOf(t).lo /\ EntryOf(i).hi = PrefixOf(t).hi
        /\ EntryOf(i).length = PrefixOf(t).length
    BY <2>1 DEF EntryOf
  <2>4. i \in Listing(u) <=> Lists(t, u)
    BY <1>1, <1>4, <2>1 DEF Listing
  <2>5. Has(i) <=> Parses(t)
    BY <1>4, <2>1 DEF Has
  <2>6. Length(t) \in 0 .. W4 + W6
    BY TextFacts, WidthAssumption DEF FamilyWidth
  <2> QED
    BY <1>3, <2>1, <2>2, <2>3, <2>4, <2>5, <2>6
<1>5. CASE file.lines[i].kind # "entry"
  BY <1>3, <1>5 DEF Listing, Has
<1> QED
  BY <1>4, <1>5

(* The entries that hold an address are those of the lines that list it. *)
LEMMA HoldingIs ==
  ASSUME NEW es, Whole(es), NEW u, u.v4 \in BOOLEAN, u.ip \in Nat
  PROVE  /\ Listing(u) \subseteq 1 .. Len(file.lines)
         /\ Holders(es, u) = IF Readable THEN {EntryOf(i) : i \in Listing(u)} ELSE {}
<1>1. Listing(u) \subseteq 1 .. Len(file.lines) /\ file \in SpecFiles
  BY FileFacts DEF Listing, Whole
<1>2. Holders(es, u) = {e \in Elements(es) : e.v4 = u.v4 /\ e.lo <= u.ip /\ u.ip <= e.hi}
  BY FamilyIs DEF Holders
<1>3. CASE Readable
  <2>1. Elements(es) = {EntryOf(i) : i \in {j \in 1 .. Len(file.lines) : Has(j)}}
    BY <1>3 DEF Whole, OfLines
  <2>2. ASSUME NEW e
        PROVE  e \in Holders(es, u) <=> \E i \in 1 .. Len(file.lines) :
                  Has(i) /\ e = EntryOf(i) /\ e.v4 = u.v4 /\ e.lo <= u.ip /\ u.ip <= e.hi
    BY <1>2, <2>1
  <2>3. ASSUME NEW e
        PROVE  e \in Holders(es, u) <=> \E i \in Listing(u) : e = EntryOf(i)
    BY <1>1, <2>2, LineFacts
  <2>4. Holders(es, u) = {EntryOf(i) : i \in Listing(u)}
    BY <2>3
  <2> QED
    BY <1>1, <1>3, <2>4
<1>4. CASE ~Readable
  <2>1. Elements(es) = {}
    BY <1>4 DEF Whole
  <2> QED
    BY <1>1, <1>2, <1>4, <2>1
<1> QED
  BY <1>3, <1>4

(* Lookup answers the owner: of the longest prefixes the last. *)
LEMMA LookupRight ==
  ASSUME NEW es, Whole(es), NEW a \in Addresses
  PROVE  IF Listed(Unmap(a)) THEN IsOwner(Unmap(a), Lookup(es, a).line) ELSE Lookup(es, a) = None
<1> DEFINE u == Unmap(a)
           holds == Holders(es, u)
           longest == {e \in holds : \A f \in holds : f.length <= e.length}
           N == Len(file.lines)
<1>1. u.v4 \in BOOLEAN /\ u.ip \in Nat
  BY UnmapType, AddressType
<1>2. /\ Listing(u) \subseteq 1 .. N /\ N \in Nat /\ file \in SpecFiles
      /\ holds = IF Readable THEN {EntryOf(i) : i \in Listing(u)} ELSE {}
  BY <1>1, HoldingIs, FileFacts DEF Whole
<1>3. Lookup(es, a) = IF holds = {} THEN None ELSE CHOOSE e \in longest : \A f \in longest : f.line <= e.line
  BY DEF Lookup, Holders
<1>4. CASE ~Listed(u)
  <2>1. holds = {}
    BY <1>2, <1>4 DEF Listed
  <2> QED
    BY <1>3, <1>4, <2>1
<1>5. CASE Listed(u)
  <2>1. Readable /\ Listing(u) # {} /\ holds = {EntryOf(i) : i \in Listing(u)}
    BY <1>2, <1>5 DEF Listed
  <2>2. \A i \in Listing(u) : /\ i \in 1 .. N /\ EntryOf(i).line = i
                              /\ EntryOf(i).length = Length(file.lines[i].texts[1])
                              /\ EntryOf(i).length \in 0 .. W4 + W6
    BY <1>1, <1>2, LineFacts
  <2>3. PICK x \in {e.length : e \in holds} : \A y \in {e.length : e \in holds} : x >= y
    <3>1. W4 + W6 \in Nat
      BY WidthAssumption
    <3>2. {e.length : e \in holds} \in SUBSET (0 .. W4 + W6) /\ {e.length : e \in holds} # {}
      BY <2>1, <2>2
    <3> HIDE DEF holds
    <3> QED
      BY <3>1, <3>2, GreatestExists
  <2>4. \A e \in holds : e.length \in Int /\ e.line \in 0 .. N
    BY <2>1, <2>2
  <2>5. longest # {}
    BY <2>3, <2>4
  <2>6. PICK y \in {e.line : e \in longest} : \A z \in {e.line : e \in longest} : y >= z
    <3>1. {e.line : e \in longest} \in SUBSET (0 .. N) /\ {e.line : e \in longest} # {}
      BY <2>4, <2>5
    <3> HIDE DEF longest, N
    <3> QED
      BY <1>2, <3>1, GreatestExists
  <2>7. \E e \in longest : \A f \in longest : f.line <= e.line
    BY <2>4, <2>6
  <2>8. PICK e : e = Lookup(es, a) /\ e \in longest /\ \A f \in longest : f.line <= e.line
    <3>1. holds # {}
      BY <2>5
    <3> HIDE DEF holds, longest
    <3> QED
      BY <1>3, <2>7, <3>1
  <2>9. PICK i \in Listing(u) : e = EntryOf(i) /\ e.line = i
    BY <2>1, <2>2, <2>8
  <2>10. ASSUME NEW j \in Listing(u)
         PROVE  \/ Length(file.lines[j].texts[1]) < Length(file.lines[i].texts[1])
                \/ Length(file.lines[j].texts[1]) = Length(file.lines[i].texts[1]) /\ j <= i
    <3>1. EntryOf(j) \in holds /\ EntryOf(j).length <= e.length
      BY <2>1, <2>8
    <3>2. EntryOf(j).length = e.length => EntryOf(j) \in longest
      BY <2>8, <3>1
    <3>3. EntryOf(j).length = e.length => EntryOf(j).line <= e.line
      BY <2>8, <3>2
    <3> QED
      BY <2>2, <2>9, <3>1, <3>3
  <2>11. IsOwner(u, i)
    BY <2>10 DEF IsOwner
  <2> QED
    BY <1>5, <2>8, <2>9, <2>11
<1> QED
  BY <1>4, <1>5
-----------------------------------------------------------------------------
(* The runs of a set of numbers, as mergeRanges makes them of what it covers. *)
Runs(C) ==
  {[lo |-> r[1], hi |-> r[2]] :
     r \in {q \in C \X C : /\ q[1] <= q[2] /\ q[1] .. q[2] \subseteq C
                           /\ q[1] - 1 \notin C /\ q[2] + 1 \notin C}}

IsRun(r, C) ==
  /\ r.lo \in C /\ r.hi \in C /\ r.lo <= r.hi /\ r.lo .. r.hi \subseteq C
  /\ r.lo - 1 \notin C /\ r.hi + 1 \notin C

(* Runs as a property of a record, to reason about it. *)
LEMMA RunsAre ==
  ASSUME NEW C
  PROVE  /\ \A r \in Runs(C) : IsRun(r, C)
         /\ \A lo, hi : IsRun([lo |-> lo, hi |-> hi], C) => [lo |-> lo, hi |-> hi] \in Runs(C)
<1>1. ASSUME NEW r \in Runs(C)
      PROVE  IsRun(r, C)
  BY DEF Runs, IsRun
<1>2. ASSUME NEW lo, NEW hi, IsRun([lo |-> lo, hi |-> hi], C)
      PROVE  [lo |-> lo, hi |-> hi] \in Runs(C)
  <2>1. /\ lo \in C /\ hi \in C /\ lo <= hi /\ lo .. hi \subseteq C
        /\ lo - 1 \notin C /\ hi + 1 \notin C
    BY <1>2 DEF IsRun
  <2>2. <<lo, hi>> \in C \X C /\ <<lo, hi>>[1] = lo /\ <<lo, hi>>[2] = hi
    BY <2>1
  <2> QED
    BY <2>1, <2>2 DEF Runs
<1> QED
  BY <1>1, <1>2

(* Every number of a set is in one of its runs: the least start and the
   greatest end around it. *)
LEMMA RunAround ==
  ASSUME NEW M \in Nat, NEW C \in SUBSET (0 .. M), NEW x \in C
  PROVE  \E r \in Runs(C) : r.lo <= x /\ x <= r.hi
<1> DEFINE Starts == {l \in 0 .. M : l <= x /\ l .. x \subseteq C}
           Ends2 == {h \in 0 .. M : x <= h /\ x .. h \subseteq C}
<1>1. x \in 0 .. M /\ x .. x = {x}
  OBVIOUS
<1>2. PICK l \in Starts : \A m \in Starts : l <= m
  <2>1. Starts \in SUBSET Nat /\ Starts # {}
    BY <1>1
  <2> HIDE DEF Starts
  <2> QED
    BY <2>1, LeastExists
<1>3. PICK h \in Ends2 : \A m \in Ends2 : h >= m
  <2>1. Ends2 \in SUBSET (0 .. M) /\ Ends2 # {}
    BY <1>1
  <2> HIDE DEF Ends2
  <2> QED
    BY <2>1, GreatestExists
<1>4. l - 1 \notin C
  <2>1. SUFFICES ASSUME l - 1 \in C
                 PROVE  FALSE
    OBVIOUS
  <2>2. l - 1 \in 0 .. M /\ \A y \in l - 1 .. x : y = l - 1 \/ y \in l .. x
    BY <1>1, <2>1
  <2>3. l - 1 \in Starts
    BY <1>1, <2>1, <2>2
  <2> QED
    BY <1>2, <2>2, <2>3
<1>5. h + 1 \notin C
  <2>1. SUFFICES ASSUME h + 1 \in C
                 PROVE  FALSE
    OBVIOUS
  <2>2. h + 1 \in 0 .. M /\ \A y \in x .. h + 1 : y = h + 1 \/ y \in x .. h
    BY <1>1, <2>1
  <2>3. h + 1 \in Ends2
    BY <1>1, <2>1, <2>2
  <2> QED
    BY <1>3, <2>2, <2>3
<1>6. \A y \in l .. h : y \in l .. x \/ y \in x .. h
  BY <1>1
<1>7. /\ l \in C /\ h \in C /\ l <= x /\ x <= h /\ l <= h
      /\ l .. h \subseteq C
  BY <1>1, <1>6
<1>8. IsRun([lo |-> l, hi |-> h], C)
  BY <1>4, <1>5, <1>7 DEF IsRun
<1> QED
  BY <1>7, <1>8, RunsAre

Below(C, x) == {r.lo : r \in {s \in Runs(C) : s.lo <= x}}

(* The last run that starts at or below an address decides. *)
LEMMA LastRunDecides ==
  ASSUME NEW M \in Nat, NEW C \in SUBSET (0 .. M), NEW x \in Nat, NEW z \in Nat
  PROVE  (Below(C, x) # {} /\ \E r \in Runs(C) : r.lo = Max(Below(C, x)) /\ ~(r.hi < x \/ (r.hi = x /\ 0 < z)))
         <=> x \in C /\ (z # 0 => x + 1 \in C)
<1> DEFINE below == Below(C, x)
<1>0. below = {r.lo : r \in {s \in Runs(C) : s.lo <= x}}
  BY DEF Below
<1> HIDE DEF below
<1>1. ASSUME NEW r \in Runs(C)
      PROVE  /\ r.lo \in Nat /\ r.hi \in Nat /\ r.lo <= r.hi /\ r.lo .. r.hi \subseteq C
             /\ r.lo - 1 \notin C /\ r.hi + 1 \notin C
  <2>1. IsRun(r, C)
    BY RunsAre
  <2>2. /\ r.lo \in C /\ r.hi \in C /\ r.lo <= r.hi /\ r.lo .. r.hi \subseteq C
        /\ r.lo - 1 \notin C /\ r.hi + 1 \notin C
    BY <2>1 DEF IsRun
  <2>3. r.lo \in 0 .. M /\ r.hi \in 0 .. M
    BY <2>2
  <2> QED
    BY <2>2, <2>3
<1>2. CASE x \in C
  <2>1. PICK r \in Runs(C) : r.lo <= x /\ x <= r.hi
    BY <1>2, RunAround
  <2>2. ASSUME NEW s \in Runs(C), s.lo <= x
        PROVE  s.lo <= r.lo
    <3>1. SUFFICES ASSUME r.lo < s.lo
                   PROVE  FALSE
      BY <1>1, <2>1, <2>2
    <3>2. s.lo - 1 \in r.lo .. r.hi
      BY <1>1, <2>1, <2>2, <3>1
    <3> QED
      BY <1>1, <2>1, <2>2, <3>2
  <2>3. r.lo \in below /\ below \in SUBSET Int /\ \A y \in below : r.lo >= y
    BY <1>0, <1>1, <2>1, <2>2
  <2>4. Max(below) = r.lo
    BY <2>3, MaxIs
  <2>5. ASSUME NEW s \in Runs(C), s.lo = r.lo
        PROVE  s.hi = r.hi
    <3>1. ~(s.hi < r.hi)
      <4>1. s.hi < r.hi => s.hi + 1 \in r.lo .. r.hi
        BY <1>1, <2>1, <2>5
      <4> QED
        BY <1>1, <2>1, <2>5, <4>1
    <3>2. ~(r.hi < s.hi)
      <4>1. r.hi < s.hi => r.hi + 1 \in s.lo .. s.hi
        BY <1>1, <2>1, <2>5
      <4> QED
        BY <1>1, <2>1, <2>5, <4>1
    <3> QED
      BY <1>1, <2>1, <2>5, <3>1, <3>2
  <2>6. (\E s \in Runs(C) : s.lo = Max(below) /\ ~(s.hi < x \/ (s.hi = x /\ 0 < z)))
        <=> ~(r.hi < x \/ (r.hi = x /\ 0 < z))
    BY <2>1, <2>4, <2>5
  <2>7. x + 1 \in C <=> r.hi # x
    <3>1. r.hi # x => x + 1 \in r.lo .. r.hi
      BY <1>1, <2>1
    <3> QED
      BY <1>1, <2>1, <3>1
  <2>8. ~(r.hi < x \/ (r.hi = x /\ 0 < z)) <=> (z # 0 => x + 1 \in C)
    BY <1>1, <2>1, <2>7
  <2> QED
    BY <1>2, <2>3, <2>6, <2>8 DEF below
<1>3. CASE x \notin C
  <2>1. ASSUME below # {}, NEW r \in Runs(C), r.lo = Max(below), ~(r.hi < x)
        PROVE  FALSE
    <3>1. r.lo <= x
      <4>1. below \in SUBSET (0 .. x)
        BY <1>0, <1>1
      <4>2. PICK m \in below : \A y \in below : m >= y
        BY <2>1, <4>1, GreatestExists
      <4>3. Max(below) = m
        <5>1. below \in SUBSET Int
          BY <4>1
        <5> QED
          BY <4>2, <5>1, MaxIs
      <4> QED
        BY <2>1, <4>1, <4>2, <4>3
    <3>2. x \in r.lo .. r.hi
      BY <1>1, <2>1, <3>1
    <3> QED
      BY <1>1, <1>3, <2>1, <3>2
  <2> QED
    BY <1>3, <2>1 DEF below
<1> QED
  BY <1>2, <1>3

(* Contains answers membership by the text, a zone at the end of an interval
   included. *)
LEMMA ContainsRight ==
  ASSUME NEW es, Whole(es), NEW a \in Addresses
  PROVE  Contains(Freeze(es), a) <=> Member(a)
<1> DEFINE u == Unmap(a)
           C == UNION {p.lo .. p.hi : p \in InFamily(es, u.v4)}
           below == Below(C, u.ip)
<1>1. u.v4 \in BOOLEAN /\ u.ip \in Nat /\ u.zone \in Nat
  BY UnmapType, AddressType
<1>2. InFamily(es, u.v4) \subseteq EntrySet
  <2>1. \A e \in Elements(es) : e \in EntrySet
    BY ElementOfSeq DEF Elements, Whole
  <2> QED
    BY <1>1, <2>1, FamilyIs
<1>3. Limit \in Nat
  BY Widths DEF Limit
<1>4. C \in SUBSET (0 .. Limit)
  BY <1>2, <1>3 DEF EntrySet
<1>5. ASSUME NEW w, w.v4 = u.v4, w.ip \in Nat
      PROVE  w.ip \in C <=> Listed(w)
  <2>1. w.ip \in C <=> Holders(es, w) # {}
    <3>1. \A p \in InFamily(es, u.v4) : p.lo \in Int /\ p.hi \in Int
      BY <1>2, <1>3 DEF EntrySet
    <3> QED
      BY <1>5, <3>1 DEF Holders
  <2>2. Holders(es, w) = IF Readable THEN {EntryOf(i) : i \in Listing(w)} ELSE {}
    BY <1>1, <1>5, HoldingIs
  <2> QED
    BY <2>1, <2>2 DEF Listed
<1>6. (IF u.v4 THEN Freeze(es).v4 ELSE Freeze(es).v6) = Runs(C)
  <2>1. mergeRanges(InFamily(es, u.v4)) = Runs(C)
    BY DEF mergeRanges, Runs
  <2>2. u.v4 = TRUE \/ u.v4 = FALSE
    BY <1>1
  <2> QED
    BY <2>1, <2>2 DEF Freeze
<1>7. \A n \in Nat : /\ Less(u, Plain(u, n)) <=> u.ip < n
                     /\ Less(Plain(u, n), u) <=> n < u.ip \/ (n = u.ip /\ 0 < u.zone)
  <2>1. u = [v4 |-> u.v4, ip |-> u.ip, zone |-> u.zone]
    BY UnmapType, AddressType
  <2>2. \A n \in Nat : Plain(u, n).ip = n /\ Plain(u, n).zone = 0
    BY <2>1 DEF Plain
  <2> QED
    BY <1>1, <2>2 DEF Less
<1>8. \A r \in Runs(C) : r.lo \in Nat /\ r.hi \in Nat
  BY <1>4, RunsAre DEF IsRun
<1>9. Contains(Freeze(es), a) <=>
        /\ {r.lo : r \in {s \in Runs(C) : ~Less(u, Plain(u, s.lo))}} # {}
        /\ \E r \in Runs(C) : /\ r.lo = Max({q.lo : q \in {s \in Runs(C) : ~Less(u, Plain(u, s.lo))}})
                              /\ ~Less(Plain(u, r.hi), u)
  BY <1>6 DEF Contains
<1> HIDE DEF C, u
<1>10. {r.lo : r \in {s \in Runs(C) : ~Less(u, Plain(u, s.lo))}} = below
  <2>1. \A s \in Runs(C) : ~Less(u, Plain(u, s.lo)) <=> s.lo <= u.ip
    BY <1>1, <1>7, <1>8
  <2> QED
    BY <2>1 DEF Below
<1>11. Contains(Freeze(es), a) <=>
         below # {} /\ \E r \in Runs(C) : r.lo = Max(below) /\ ~(r.hi < u.ip \/ (r.hi = u.ip /\ 0 < u.zone))
  BY <1>7, <1>8, <1>9, <1>10
<1>12. Contains(Freeze(es), a) <=> u.ip \in C /\ (u.zone # 0 => u.ip + 1 \in C)
  <2>1. (Below(C, u.ip) # {} /\ \E r \in Runs(C) : r.lo = Max(Below(C, u.ip)) /\ ~(r.hi < u.ip \/ (r.hi = u.ip /\ 0 < u.zone)))
        <=> u.ip \in C /\ (u.zone # 0 => u.ip + 1 \in C)
    BY <1>1, <1>3, <1>4, LastRunDecides
  <2> QED
    BY <1>11, <2>1
<1>13. u.ip \in C <=> Listed(u)
  BY <1>1, <1>5
<1>14. u.ip + 1 \in C <=> Listed([u EXCEPT !.ip = @ + 1])
  <2>1. u = [v4 |-> u.v4, ip |-> u.ip, zone |-> u.zone]
    BY UnmapType, AddressType DEF u
  <2>2. PICK w : w = [u EXCEPT !.ip = @ + 1]
    OBVIOUS
  <2>3. w.v4 = u.v4 /\ w.ip = u.ip + 1
    BY <2>1, <2>2
  <2> QED
    <3>1. w.v4 = u.v4 /\ w.ip \in Nat
      BY <1>1, <2>3
    <3>2. w.ip \in C <=> Listed(w)
      BY <1>5, <3>1
    <3> QED
      BY <2>2, <2>3, <3>2
<1> QED
  BY <1>12, <1>13, <1>14 DEF Member, u
-----------------------------------------------------------------------------
(* Results that are right, as the text of the spec calls for. *)
Programs == {"cidr", "http", "mcp", "unix", "caller"}

LoadInv ==
  /\ prog \in Programs /\ loader \in LoaderOf[prog] /\ file \in SpecFiles
  /\ pos \in 0 .. Len(file.lines)
  /\ lpc \in {"read", "loaded", "error"}
  /\ lpc = "read" => entries = IF file.refs THEN <<>> ELSE Entries(pos)
  /\ LoadIsWhole

(* Every program loads one of the files, with a loader of its own. *)
LEMMA SpecsTyped ==
  /\ DOMAIN LoaderOf = Programs
  /\ \A p \in Programs : SpecsOf[p] \subseteq SpecFiles
  /\ \A p \in Programs : LoaderOf[p] \subseteq {"loadSpec", "ParseSpec", "LoadASN", "LoadFunc"}
BY SpecsAssumption DEF LoaderOf, Programs

LEMMA LoadInvInit == ServicesInit => LoadInv
<1> SUFFICES ASSUME ServicesInit PROVE LoadInv
  OBVIOUS
<1>1. /\ prog \in Programs /\ loader \in LoaderOf[prog] /\ file \in SpecFiles
      /\ pos = 0 /\ entries = <<>> /\ lpc = "read"
  BY SpecsTyped DEF ServicesInit, LoadInit
<1>2. Len(file.lines) \in Nat
  BY <1>1, FileFacts
<1>3. Entries(0) = <<>>
  BY <1>1, <1>2, EntriesGrow
<1> QED
  BY <1>1, <1>2, <1>3 DEF LoadInv, LoadIsWhole

(* What the text of the file says stays the same. *)
LEMMA TextStable ==
  ASSUME UNCHANGED <<file, loader>>
  PROVE  /\ \A n : Entries(n)' = Entries(n)
         /\ DecodesRefs' = DecodesRefs
         /\ \A a : Member(a)' <=> Member(a)
         /\ \A r : RightResult(r)' <=> RightResult(r)
<1>1. \A n : Entries(n)' = Entries(n)
  BY DEF Entries, LineEntry
<1>2. DecodesRefs' = DecodesRefs
  BY DEF DecodesRefs
<1>3. \A u : Listed(u)' <=> Listed(u)
  BY <1>2 DEF Listed, Readable, Listing
<1>4. \A a : Member(a)' <=> Member(a)
  BY <1>3 DEF Member
<1>5. \A u, i : IsOwner(u, i)' <=> IsOwner(u, i)
  BY DEF IsOwner, Listing
<1>6. \A r : RightResult(r)' <=> RightResult(r)
  BY <1>3, <1>4, <1>5 DEF RightResult
<1> QED
  BY <1>1, <1>2, <1>4, <1>6

(* What a loader may have, as a predicate of its place, entries and outcome. *)
LoadOk(p, es, pc) ==
  /\ p \in 0 .. Len(file.lines) /\ pc \in {"read", "loaded", "error"}
  /\ pc = "read" => es = IF file.refs THEN <<>> ELSE Entries(p)
  /\ pc = "loaded" => es = IF file.refs /\ ~DecodesRefs THEN <<>> ELSE Entries(Len(file.lines))
  /\ pc = "error" => IF file.refs \/ loader = "LoadASN" THEN es = <<>>
                     ELSE es = Entries(p) \/ SubSeq(es, 1, Len(es) - 1) = Entries(p)

(* A step to a state that a loader may be in keeps the invariant. *)
LEMMA LoadKept ==
  ASSUME LoadInv, UNCHANGED <<prog, file, loader>>, LoadOk(pos', entries', lpc')
  PROVE  LoadInv'
<1>1. \A n : Entries(n)' = Entries(n)
  BY TextStable
<1>2. DecodesRefs' = DecodesRefs
  BY TextStable
<1>3. Entries(pos)' = Entries(pos') /\ Entries(Len(file.lines))' = Entries(Len(file.lines))
  BY DEF Entries, LineEntry
<1>4. LoadIsWhole'
  BY <1>2, <1>3 DEF LoadIsWhole, LoadOk
<1> QED
  BY <1>3, <1>4 DEF LoadInv, LoadOk

(* Cutting the entry of a broken line off again. *)
LEMMA OneMore ==
  ASSUME NEW T, NEW s \in Seq(T), NEW y \in Seq(T), Len(y) <= 1
  PROVE  s \o y = s \/ SubSeq(s \o y, 1, Len(s \o y) - 1) = s
<1>1. Len(y) \in Nat /\ Len(s) \in Nat
  OBVIOUS
<1>2. CASE Len(y) = 0
  BY <1>2, EmptySeq
<1>3. CASE Len(y) = 1
  <2>1. Len(s \o y) = Len(s) + Len(y)
    BY ConcatProperties
  <2>2. Len(s \o y) - 1 = Len(s)
    BY <1>1, <1>3, <2>1
  <2> QED
    BY <2>2, SubSeqOfConcat1
<1> QED
  BY <1>1, <1>2, <1>3

(* A step of the loader. *)
LEMMA LoadStep ==
  ASSUME LoadInv, LoadNext, UNCHANGED prog
  PROVE  LoadInv' /\ UNCHANGED <<file, loader>> /\ lpc = "read"
<1> DEFINE N == Len(file.lines)
<1>0. UNCHANGED <<file, loader>> /\ lpc = "read"
  BY DEF LoadNext, ReadLine, EndOfFile, ReadError, ReadErrorInLine, ParseRefs, Scans, FailWith
<1>1. /\ file \in SpecFiles /\ pos \in 0 .. N /\ N \in Nat
      /\ entries = IF file.refs THEN <<>> ELSE Entries(pos)
      /\ file.refs \in BOOLEAN
      /\ Entries(pos) \in Seq(EntrySet) /\ Entries(0) = <<>>
      /\ pos + 1 <= N => Entries(pos + 1) = Entries(pos) \o LineEntry(pos + 1)
  BY <1>0, FileFacts, FileAssumption, EntriesGrow DEF LoadInv
<1> SUFFICES LoadOk(pos', entries', lpc')
  BY <1>0, LoadKept
<1>5. CASE ReadLine
  <2>1. /\ pos < N /\ pos' = pos + 1 /\ lpc' = "read"
        /\ entries' = IF file.refs THEN entries ELSE entries \o LineEntry(pos + 1)
    BY <1>0, <1>5 DEF ReadLine
  <2>2. pos' \in 0 .. N
    BY <1>1, <2>1
  <2>3. entries' = IF file.refs THEN <<>> ELSE Entries(pos')
    <3>1. Entries(pos') = Entries(pos) \o LineEntry(pos + 1)
      BY <1>1, <2>1
    <3> QED
      BY <1>1, <2>1, <3>1
  <2> QED
    BY <2>1, <2>2, <2>3 DEF LoadOk
<1>6. CASE EndOfFile
  <2>1. pos = N /\ pos' = pos /\ lpc' = "loaded" /\ entries' = entries /\ ~DecodesRefs
    BY <1>6 DEF EndOfFile, Scans
  <2> QED
    BY <1>1, <2>1 DEF LoadOk
<1>7. CASE ReadError
  <2>1. pos' = pos /\ lpc' = "error" /\ entries' = IF loader = "LoadASN" THEN <<>> ELSE entries
    BY <1>7 DEF ReadError, FailWith
  <2> QED
    BY <1>1, <2>1 DEF LoadOk
<1>8. CASE ReadErrorInLine
  <2>1. PICK k \in 1 .. Len(file.lines[pos + 1].texts) : FailWith(entries \o parseSpecLine(pos + 1, file.lines[pos + 1].texts[k]))
    BY <1>8 DEF ReadErrorInLine
  <2>2. /\ ~file.refs /\ pos < N /\ file.lines[pos + 1].kind = "entry" /\ pos' = pos /\ lpc' = "error"
        /\ pos + 1 \in 1 .. N /\ pos + 1 \in Nat
    BY <1>1, <1>8, <2>1 DEF ReadErrorInLine, FailWith
  <2>3. file.lines[pos + 1].texts[k] \in Texts
    BY <1>1, <2>2, FileFacts
  <2>4. PICK x : /\ x = parseSpecLine(pos + 1, file.lines[pos + 1].texts[k])
                 /\ x \in Seq(EntrySet) /\ Len(x) <= 1
    BY <2>2, <2>3, parseIs
  <2>5. entries' = IF loader = "LoadASN" THEN <<>> ELSE Entries(pos) \o x
    BY <1>1, <2>1, <2>2, <2>4 DEF FailWith
  <2>6. Entries(pos) \o x = Entries(pos) \/ SubSeq(Entries(pos) \o x, 1, Len(Entries(pos) \o x) - 1) = Entries(pos)
    BY <1>1, <2>4, OneMore
  <2> QED
    BY <1>1, <2>2, <2>5, <2>6 DEF LoadOk
<1>9. CASE ParseRefs
  <2>1. DecodesRefs /\ pos' = N /\ entries' = Entries(N) /\ lpc' = "loaded"
    BY <1>9 DEF ParseRefs
  <2> QED
    BY <1>1, <2>1 DEF LoadOk
<1> QED
  BY <1>5, <1>6, <1>7, <1>8, <1>9 DEF LoadNext

(* No program changes what was loaded. *)
LEMMA LoadInvStep ==
  ASSUME LoadInv, [ServicesNext]_allVars
  PROVE  /\ LoadInv' /\ UNCHANGED <<prog, file, loader>>
         /\ lpc = "loaded" => UNCHANGED <<entries, lpc>>
<1>1. UNCHANGED prog /\ (LoadNext \/ UNCHANGED loadVars)
  BY DEF ServicesNext, allVars
<1>2. CASE LoadNext
  BY <1>1, <1>2, LoadStep
<1>3. CASE UNCHANGED loadVars
  <2>1. UNCHANGED <<prog, file, loader, pos, entries, lpc>>
    BY <1>1, <1>3 DEF loadVars
  <2>2. LoadInv'
    BY <2>1 DEF LoadInv, LoadIsWhole, Entries, LineEntry, DecodesRefs
  <2> QED
    BY <2>1, <2>2
<1> QED
  BY <1>1, <1>2, <1>3

(* After the load the entries are those of the text. *)
LEMMA LoadedIsWhole ==
  ASSUME LoadInv, lpc = "loaded"
  PROVE  Whole(entries)
<1>1. /\ file \in SpecFiles /\ Len(file.lines) \in Nat /\ file.refs \in BOOLEAN
      /\ entries = IF file.refs /\ ~DecodesRefs THEN <<>> ELSE Entries(Len(file.lines))
  BY FileFacts, FileAssumption DEF LoadInv, LoadIsWhole
<1>2. Readable <=> ~(file.refs /\ ~DecodesRefs)
  BY DEF Readable
<1>3. /\ Entries(Len(file.lines)) \in Seq(EntrySet)
      /\ Elements(Entries(Len(file.lines))) = OfLines(Len(file.lines))
  BY <1>1, EntriesGrow, EntriesAre
<1>4. Elements(<<>>) = {} /\ <<>> \in Seq(EntrySet)
  BY DEF Elements
<1> QED
  BY <1>1, <1>2, <1>3, <1>4 DEF Whole
-----------------------------------------------------------------------------
(* A sequence whose results are right. *)
IsResult(x) == {"ip", "member"} \subseteq DOMAIN x
Right(s) == \A i \in DOMAIN s : IsResult(s[i]) => RightResult(s[i])

(* The elements of a sequence by their places. *)
LEMMA RightGiven ==
  ASSUME NEW s
  PROVE  Right(s) <=> \A r \in GivenTo(s) : RightResult(r)
BY DEF Right, GivenTo, IsResult

(* resolve answers membership and the owner by the text. *)
LEMMA ResolveRight ==
  ASSUME NEW es, Whole(es), NEW a \in Addresses
  PROVE  /\ resolve(es, a).ip = a /\ RightResult(resolve(es, a))
         /\ RightResult([ip |-> a, member |-> Contains(Freeze(es), a)])
<1>1. Contains(Freeze(es), a) = Member(a)
  <2>1. Contains(Freeze(es), a) <=> Member(a)
    BY ContainsRight
  <2>2. Contains(Freeze(es), a) \in BOOLEAN /\ Member(a) \in BOOLEAN
    BY DEF Contains, Member
  <2> QED
    BY <2>1, <2>2
<1>2. /\ resolve(es, a).ip = a /\ resolve(es, a).member = Contains(Freeze(es), a)
      /\ resolve(es, a).info = Lookup(es, a)
  BY DEF resolve
<1>3. RightResult(resolve(es, a))
  BY <1>1, <1>2, LookupRight DEF RightResult
<1>4. PICK r : r = [ip |-> a, member |-> Contains(Freeze(es), a)]
  OBVIOUS
<1>5. r.ip = a /\ r.member = Contains(Freeze(es), a) /\ DOMAIN r = {"ip", "member"}
  BY <1>4
<1>6. RightResult(r)
  BY <1>1, <1>5 DEF RightResult
<1> QED
  BY <1>2, <1>3, <1>4, <1>6

(* One right result more. *)
LEMMA RightAppend ==
  ASSUME NEW s, IsSeq(s), Right(s), NEW x, IsResult(x) => RightResult(x)
  PROVE  Right(Append(s, x))
<1>1. /\ DOMAIN s = 1 .. Len(s) /\ DOMAIN Append(s, x) = 1 .. Len(s) + 1 /\ Len(s) \in Nat
      /\ \A i \in 1 .. Len(s) : Append(s, x)[i] = s[i]
      /\ Append(s, x)[Len(s) + 1] = x
  BY SeqAppend
<1>2. PICK t : t = Append(s, x)
  OBVIOUS
<1>3. ASSUME NEW i \in DOMAIN t, IsResult(t[i])
      PROVE  RightResult(t[i])
  <2>1. i \in 1 .. Len(s) \/ i = Len(s) + 1
    BY <1>1, <1>2, <1>3
  <2>2. CASE i \in 1 .. Len(s)
    BY <1>1, <1>2, <1>3, <2>2 DEF Right
  <2>3. CASE i = Len(s) + 1
    BY <1>1, <1>2, <1>3, <2>3
  <2> QED
    BY <2>1, <2>2, <2>3
<1> QED
  BY <1>2, <1>3 DEF Right

(* The answer of a stream to a line. *)
AnswerTo(es, line) ==
  IF line = Junk THEN <<[error |-> line]>> ELSE IF line = Blank THEN <<>> ELSE <<resolve(es, line)>>

(* A stream that has answered its lines goes on to answer one more. *)
LEMMA NextAnswer ==
  ASSUME NEW es, Whole(es), NEW rs, IsSeq(rs), Right(rs), NEW ls \in Seq(Inputs), NEW x \in Inputs
  PROVE  /\ IsSeq(rs \o AnswerTo(es, x)) /\ Right(rs \o AnswerTo(es, x))
         /\ AnswersEach(rs, ls) => AnswersEach(rs \o AnswerTo(es, x), Append(ls, x))
<1> DEFINE owed == Without(ls, {Blank})
           y == IF x = Junk THEN [error |-> x] ELSE resolve(es, x)
<1>1. Without(Append(ls, x), {Blank}) = (IF x \in {Blank} THEN owed ELSE Append(owed, x)) /\ owed \in Seq(Inputs \ {Blank})
  BY WithoutAppend, ZenonT(30)
<1>2. IsSeq(owed)
  BY <1>1 DEF IsSeq
<1>3. CASE x = Blank
  <2>1. AnswerTo(es, x) = <<>>
    BY <1>3, InputAssumption DEF AnswerTo
  <2>2. rs \o AnswerTo(es, x) = rs
    BY <2>1, SeqAppend
  <2>3. Without(Append(ls, x), {Blank}) = owed
    BY <1>1, <1>3
  <2> QED
    BY <2>2, <2>3 DEF AnswersEach
<1>4. CASE x # Blank
  <2>1. AnswerTo(es, x) = <<y>>
    BY <1>4 DEF AnswerTo
  <2>2. rs \o AnswerTo(es, x) = Append(rs, y)
    BY <2>1, SeqAppend
  <2>3. /\ IsResult(y) => RightResult(y)
        /\ IF x = Junk THEN DOMAIN y = {"error"} ELSE y.ip = x
    <3>1. CASE x = Junk
      BY <3>1 DEF IsResult
    <3>2. CASE x # Junk
      <4>1. x \in Addresses
        BY <1>4, <3>2, InputAssumption
      <4> QED
        BY <3>2, <4>1, ResolveRight
    <3> QED
      BY <3>1, <3>2
  <2>4. Without(Append(ls, x), {Blank}) = Append(owed, x)
    BY <1>1, <1>4
  <2>5. ASSUME AnswersEach(rs, ls)
        PROVE  AnswersEach(Append(rs, y), Append(ls, x))
    <3> HIDE DEF owed, y
    <3>1. /\ Len(rs) = Len(owed)
          /\ \A i \in DOMAIN rs : IF owed[i] = Junk THEN DOMAIN rs[i] = {"error"} ELSE rs[i].ip = owed[i]
      BY <2>5 DEF AnswersEach, owed
    <3>2. /\ DOMAIN rs = 1 .. Len(rs) /\ DOMAIN Append(rs, y) = 1 .. Len(rs) + 1 /\ Len(rs) \in Nat
          /\ \A i \in 1 .. Len(rs) : Append(rs, y)[i] = rs[i]
          /\ Append(rs, y)[Len(rs) + 1] = y /\ Len(Append(rs, y)) = Len(rs) + 1
      BY SeqAppend
    <3>3. /\ \A i \in 1 .. Len(owed) : Append(owed, x)[i] = owed[i]
          /\ Append(owed, x)[Len(owed) + 1] = x /\ Len(Append(owed, x)) = Len(owed) + 1
      BY <1>2, SeqAppend
    <3>4. PICK t, o : t = Append(rs, y) /\ o = Append(owed, x)
      OBVIOUS
    <3>5. ASSUME NEW i \in DOMAIN t
          PROVE  IF o[i] = Junk THEN DOMAIN t[i] = {"error"} ELSE t[i].ip = o[i]
      <4>1. CASE i \in 1 .. Len(rs)
        <5>1. t[i] = rs[i] /\ o[i] = owed[i] /\ i \in DOMAIN rs
          BY <3>1, <3>2, <3>3, <3>4, <4>1
        <5> QED
          BY <3>1, <5>1
      <4>2. CASE i = Len(rs) + 1
        <5>1. t[i] = y
          BY <3>2, <3>4, <4>2
        <5>2. o[i] = x
          BY <3>1, <3>3, <3>4, <4>2
        <5> QED
          BY <2>3, <5>1, <5>2
      <4>3. i \in 1 .. Len(rs) \/ i = Len(rs) + 1
        BY <3>2, <3>4, <3>5
      <4> QED
        BY <4>1, <4>2, <4>3, Zenon
    <3> QED
      BY <2>4, <3>1, <3>2, <3>3, <3>4, <3>5 DEF AnswersEach
  <2>6. IsSeq(Append(rs, y))
    BY SeqAppend
  <2>7. Right(Append(rs, y))
    <3> HIDE DEF y
    <3> QED
      BY <2>3, RightAppend
  <2> QED
    BY <2>2, <2>5, <2>6, <2>7
<1> QED
  BY <1>3, <1>4
-----------------------------------------------------------------------------
(* cmd/cidr: what it has printed, and its exit status, for the spec's text. *)
NonMembers == {s \in Inputs \ {Junk, Blank} : ~Member(s)}

ToolInv ==
  /\ asked \in Seq(Inputs) /\ IsSeq(out) /\ Right(out) /\ match \in BOOLEAN
  /\ match => out = Without(asked, {Junk, Blank} \cup NonMembers) /\ members = Len(out)
  /\ ~match => Len(out) = Len(Valid(asked))
  /\ exit # "running" => lpc # "read"
  /\ exit = "0" => lpc = "loaded" /\ (match => out # <<>>)
  /\ exit = "1" => lpc = "error" \/ stdin \/ (match /\ out = <<>>)

LEMMA ToolInvInit == ServicesInit => ToolInv
<1> SUFFICES ASSUME ServicesInit PROVE ToolInv
  OBVIOUS
<1>1. match \in BOOLEAN /\ asked = <<>> /\ out = <<>> /\ members = 0 /\ exit = "running"
  BY DEF ServicesInit, ToolInit
<1>2. IsSeq(<<>>) /\ Right(<<>>) /\ Len(<<>>) = 0
  BY ShortSeqs DEF Right
<1>3. \A T : Without(<<>>, T) = <<>>
  BY WithoutEmpty
<1>4. Valid(<<>>) = <<>>
  BY <1>3 DEF Valid
<1>5. <<>> \in Seq(Inputs)
  OBVIOUS
<1> QED
  BY <1>1, <1>2, <1>3, <1>4, <1>5 DEF ToolInv

(* What is kept while the spec is read and by the other programs. *)
LEMMA RightStable ==
  ASSUME UNCHANGED <<file, loader>>, NEW s
  PROVE  /\ Right(s)' <=> Right(s')
         /\ NonMembers' = NonMembers
BY TextStable DEF Right, NonMembers, IsResult

(* Loading and the other programs leave the tool as it is. *)
LEMMA ToolKept ==
  ASSUME ToolInv, UNCHANGED <<file, loader, toolVars>>, lpc' = lpc \/ lpc = "read"
  PROVE  ToolInv'
<1>1. UNCHANGED <<match, stdin, asked, out, members, exit>>
  BY DEF toolVars
<1>2. Right(out)'
  <2>1. \A i \in DOMAIN out : IsResult(out[i]) => RightResult(out[i])
    BY DEF ToolInv, Right
  <2>2. \A r : RightResult(r)' <=> RightResult(r)
    BY TextStable
  <2> QED
    BY <1>1, <2>1, <2>2 DEF Right, IsResult
<1>3. NonMembers' = NonMembers
  BY RightStable
<1>4. Valid(asked)' = Valid(asked) /\ IsSeq(out)'
  BY <1>1 DEF Valid, Without, IsSeq, ToolInv
<1>5. Without(asked, {Junk, Blank} \cup NonMembers)' = Without(asked, {Junk, Blank} \cup NonMembers)
  BY <1>1, <1>3 DEF Without
<1> QED
  BY <1>1, <1>2, <1>4, <1>5 DEF ToolInv

(* One more input: printed, if it is to be, and counted. *)
LEMMA handleStep ==
  ASSUME LoadInv, ToolInv, NEW s \in Inputs, handle(s), UNCHANGED <<file, loader, lpc>>
  PROVE  ToolInv'
<1>1. /\ lpc = "loaded" /\ exit = "running" /\ asked' = Append(asked, s)
      /\ UNCHANGED <<match, stdin, exit>>
  BY DEF handle, Ready
<1>2. Whole(entries)
  BY <1>1, LoadedIsWhole
<1>3. /\ asked \in Seq(Inputs) /\ IsSeq(out) /\ Right(out) /\ match \in BOOLEAN
      /\ match => out = Without(asked, {Junk, Blank} \cup NonMembers) /\ members = Len(out)
      /\ ~match => Len(out) = Len(Valid(asked))
  BY DEF ToolInv
<1>4. \A T : Without(asked', T) = IF s \in T THEN Without(asked, T) ELSE Append(Without(asked, T), s)
  BY <1>1, <1>3, WithoutAppend, ZenonT(30)
<1>5. asked' \in Seq(Inputs)
  BY <1>1, <1>3
<1>6. \A x : /\ IsSeq(Append(out, x)) /\ Len(Append(out, x)) = Len(out) + 1
             /\ (IsResult(x) => RightResult(x)) => Right(Append(out, x))
  BY <1>3, SeqAppend, RightAppend
<1>7. \A n : n \in {Junk, Blank} \cup NonMembers <=> n \in {Junk, Blank} \/ n \in NonMembers
  OBVIOUS
<1>8. /\ Len(Valid(asked')) = IF s \in {Junk, Blank} THEN Len(Valid(asked)) ELSE Len(Valid(asked)) + 1
  <2>1. Valid(asked) \in Seq(Inputs \ {Junk, Blank})
    BY <1>3, WithoutType DEF Valid
  <2>2. Len(Append(Valid(asked), s)) = Len(Valid(asked)) + 1
    BY <2>1, SeqAppend DEF IsSeq
  <2> QED
    BY <1>4, <2>2 DEF Valid
<1>9. /\ IsSeq(out') /\ Right(out')
      /\ match => out' = Without(asked', {Junk, Blank} \cup NonMembers) /\ members' = Len(out')
      /\ ~match => Len(out') = Len(Valid(asked'))
  <2>1. CASE s \in {Junk, Blank}
    <3>1. UNCHANGED <<out, members>>
      BY <2>1 DEF handle
    <3> QED
      BY <1>3, <1>4, <1>8, <2>1, <3>1
  <2>2. CASE s \notin {Junk, Blank}
    <3>1. s \in Addresses
      BY <2>2, InputAssumption
    <3>2. PICK res : res = resolve(entries, s)
      OBVIOUS
    <3>3. /\ members' = IF res.member THEN members + 1 ELSE members
          /\ out' = IF match THEN (IF res.member THEN Append(out, s) ELSE out) ELSE Append(out, res)
      BY <2>2, <3>2 DEF handle
    <3>4. RightResult(res) /\ (res.member <=> Member(s))
      <4>1. res.ip = s /\ RightResult(res)
        BY <1>2, <3>1, <3>2, ResolveRight
      <4> QED
        BY <4>1 DEF RightResult
    <3>5. s \in {Junk, Blank} \cup NonMembers <=> ~res.member
      BY <2>2, <3>4 DEF NonMembers
    <3>6. ~IsResult(s)
      <4>1. DOMAIN s = {"v4", "ip", "zone"}
        BY <3>1, AddressType
      <4> QED
        BY <4>1 DEF IsResult
    <3>7. CASE match /\ res.member
      <4>1. out' = Append(out, s) /\ members' = members + 1
        BY <3>3, <3>7
      <4>2. Without(asked', {Junk, Blank} \cup NonMembers) = Append(out, s)
        BY <1>3, <1>4, <3>5, <3>7
      <4> QED
        BY <1>3, <1>6, <3>6, <3>7, <4>1, <4>2
    <3>8. CASE match /\ ~res.member
      <4>1. out' = out /\ members' = members
        BY <3>3, <3>8
      <4>2. Without(asked', {Junk, Blank} \cup NonMembers) = out
        BY <1>3, <1>4, <3>5, <3>8
      <4> QED
        BY <1>3, <3>8, <4>1, <4>2
    <3>9. CASE ~match
      <4>1. out' = Append(out, res)
        BY <3>3, <3>9
      <4> QED
        BY <1>3, <1>6, <1>8, <2>2, <3>4, <3>9, <4>1
    <3> QED
      BY <1>3, <3>7, <3>8, <3>9
  <2> QED
    BY <2>1, <2>2
<1>10. NonMembers' = NonMembers
  BY RightStable
<1>11. Right(out)'
  <2>1. \A r : RightResult(r)' <=> RightResult(r)
    BY TextStable
  <2> QED
    BY <1>9, <2>1 DEF Right, IsResult
<1>12. /\ Valid(asked)' = Valid(asked') /\ IsSeq(out)' /\ match' = match /\ exit' = "running"
       /\ Without(asked, {Junk, Blank} \cup NonMembers)' = Without(asked', {Junk, Blank} \cup NonMembers)
  BY <1>1, <1>9, <1>10 DEF Valid, IsSeq, Without
<1> QED
  BY <1>3, <1>5, <1>9, <1>11, <1>12 DEF ToolInv

LEMMA ToolInvStep ==
  ASSUME LoadInv, ToolInv, [ServicesNext]_allVars
  PROVE  ToolInv'
<1>1. UNCHANGED <<file, loader>> /\ (lpc = "loaded" => lpc' = lpc)
  BY LoadInvStep
<1>2. CASE UNCHANGED toolVars
  <2>1. lpc' = lpc \/ lpc = "read"
    <3>1. LoadNext \/ UNCHANGED loadVars
      BY DEF ServicesNext, allVars
    <3>2. LoadNext => lpc = "read"
      BY DEF LoadNext, ReadLine, EndOfFile, ReadError, ReadErrorInLine, ParseRefs, Scans
    <3> QED
      BY <3>1, <3>2 DEF loadVars
  <2> QED
    BY <1>1, <1>2, <2>1, ToolKept
<1>3. CASE ToolNext /\ UNCHANGED loadVars
  <2>1. UNCHANGED <<file, loader, lpc>>
    BY <1>3 DEF loadVars
  <2>2. CASE \E s \in Inputs : handle(s)
    BY <2>1, <2>2, handleStep
  <2>3. CASE NoSpec \/ StdinFails \/ Finish
    <3>1. /\ UNCHANGED <<match, stdin, asked, out, members>>
          /\ lpc # "read"
          /\ exit' = "0" => lpc = "loaded" /\ (match => members # 0)
          /\ exit' = "1" => lpc = "error" \/ stdin \/ (match /\ members = 0)
      BY <2>3 DEF NoSpec, StdinFails, Finish, Ready
    <3>2. \A r : RightResult(r)' <=> RightResult(r)
      BY <2>1, TextStable
    <3>3. NonMembers' = NonMembers
      BY <2>1, RightStable
    <3>4. Right(out)' /\ Valid(asked)' = Valid(asked) /\ IsSeq(out)'
      BY <3>1, <3>2 DEF Right, IsResult, Valid, Without, IsSeq, ToolInv
    <3>5. Without(asked, {Junk, Blank} \cup NonMembers)' = Without(asked, {Junk, Blank} \cup NonMembers)
      BY <3>1, <3>3 DEF Without
    <3>6. Len(out) = 0 <=> out = <<>>
      BY EmptySeq DEF ToolInv, IsSeq
    <3> QED
      BY <2>1, <3>1, <3>4, <3>5, <3>6 DEF ToolInv
  <2> QED
    BY <1>3, <2>2, <2>3 DEF ToolNext
<1> QED
  BY <1>2, <1>3 DEF ServicesNext, allVars
-----------------------------------------------------------------------------
(* example/http: what it answers comes from a spec that is loaded. *)
HttpInv ==
  /\ body \in Seq(Inputs) /\ IsSeq(answers) /\ Right(answers)
  /\ request = "none" => body = <<>> /\ answers = <<>>
  /\ request # "none" => lpc = "loaded"
  /\ request = "batch" => AnswersEach(answers, body)

LEMMA HttpInvInit == ServicesInit => HttpInv
<1> SUFFICES ASSUME ServicesInit PROVE HttpInv
  OBVIOUS
<1>1. request = "none" /\ body = <<>> /\ answers = <<>>
  BY DEF ServicesInit, HttpInit
<1>2. IsSeq(<<>>) /\ Right(<<>>)
  BY ShortSeqs DEF Right
<1>3. <<>> \in Seq(Inputs)
  OBVIOUS
<1> QED
  BY <1>1, <1>2, <1>3 DEF HttpInv

(* What the sequences of the servers are of, wherever they are kept. *)
LEMMA PrimedRight ==
  ASSUME UNCHANGED <<file, loader>>
  PROVE  /\ Right(out') => Right(out)'
         /\ Right(answers') => Right(answers)'
         /\ Right(sent') => Right(sent)'
<1>1. \A r : RightResult(r)' <=> RightResult(r)
  BY TextStable
<1> QED
  BY <1>1 DEF Right, IsResult

(* A step to a state that the server may be in keeps the invariant. *)
LEMMA HttpPrimed ==
  ASSUME UNCHANGED <<file, loader>>, body' \in Seq(Inputs), IsSeq(answers'), Right(answers'),
         request' = "none" => body' = <<>> /\ answers' = <<>>,
         request' # "none" => lpc' = "loaded",
         request' = "batch" => AnswersEach(answers', body')
  PROVE  HttpInv'
<1>1. Right(answers)'
  BY PrimedRight
<1>2. (request = "batch" => AnswersEach(answers, body))' <=> (request' = "batch" => AnswersEach(answers', body'))
  BY DEF AnswersEach, Without
<1> QED
  BY <1>1, <1>2 DEF HttpInv, IsSeq

(* One more line of a batch. *)
LEMMA BatchLineStep ==
  ASSUME LoadInv, HttpInv, NEW line \in Inputs, BatchLine(line), UNCHANGED loadVars
  PROVE  HttpInv'
<1>1. /\ request = "batch" /\ request' = request /\ body' = Append(body, line)
      /\ answers' = answers \o AnswerTo(entries, line)
      /\ UNCHANGED <<file, loader, lpc>>
  BY DEF BatchLine, Answer, AnswerTo, loadVars
<1>2. lpc = "loaded" /\ body \in Seq(Inputs) /\ IsSeq(answers) /\ Right(answers) /\ AnswersEach(answers, body)
  BY <1>1 DEF HttpInv
<1>3. Whole(entries)
  BY <1>2, LoadedIsWhole
<1>4. /\ IsSeq(answers') /\ Right(answers') /\ AnswersEach(answers', body')
  BY <1>1, <1>2, <1>3, NextAnswer
<1>5. body' \in Seq(Inputs)
  BY <1>1, <1>2
<1> QED
  BY <1>1, <1>2, <1>4, <1>5, HttpPrimed

LEMMA HttpInvStep ==
  ASSUME LoadInv, HttpInv, [ServicesNext]_allVars
  PROVE  HttpInv'
<1>1. UNCHANGED <<file, loader>> /\ (lpc = "loaded" => UNCHANGED <<entries, lpc>>)
  BY LoadInvStep
<1>2. CASE UNCHANGED httpVars
  <2>1. UNCHANGED <<request, body, answers>>
    BY <1>2 DEF httpVars
  <2> QED
    BY <1>1, <2>1, HttpPrimed DEF HttpInv
<1>3. CASE HttpNext /\ UNCHANGED loadVars
  <2>0. UNCHANGED <<file, loader, lpc, entries>>
    BY <1>3 DEF loadVars
  <2>1. ASSUME NEW line \in Inputs, BatchLine(line)
        PROVE  HttpInv'
    BY <1>3, <2>1, BatchLineStep
  <2>2. CASE BatchEnds
    BY <2>0, <2>2, HttpPrimed DEF BatchEnds, HttpInv
  <2>3. CASE handleBatch
    <3>1. request' = "batch" /\ body' = <<>> /\ answers' = <<>> /\ lpc = "loaded"
      BY <2>3 DEF handleBatch, Asked, HttpInv
    <3>2. IsSeq(<<>>) /\ Right(<<>>)
      BY ShortSeqs DEF Right
    <3>4. <<>> \in Seq(Inputs)
      OBVIOUS
    <3>3. AnswersEach(<<>>, <<>>)
      <4>1. Without(<<>>, {Blank}) = <<>>
        BY WithoutEmpty
      <4> QED
        BY <4>1 DEF AnswersEach
    <3> QED
      BY <2>0, <3>1, <3>2, <3>3, <3>4, HttpPrimed
  <2>4. CASE handleStats
    <3>1. request' = "stats" /\ body' = <<>> /\ answers' = <<Stats(entries)>> /\ lpc = "loaded"
      BY <2>4 DEF handleStats, Asked
    <3>2. ~IsResult(Stats(entries))
      BY DEF Stats, IsResult
    <3>3. IsSeq(answers') /\ Right(answers') /\ body' \in Seq(Inputs)
      BY <3>1, <3>2, ShortSeqs DEF Right
    <3> QED
      BY <2>0, <3>1, <3>3, HttpPrimed
  <2>5. ASSUME NEW line \in Inputs, handleContains(line) \/ handleLookup(line)
        PROVE  HttpInv'
    <3>1. request' \in {"contains", "lookup"} /\ body' = <<line>> /\ lpc = "loaded"
      BY <2>5 DEF handleContains, handleLookup, Asked
    <3>2. \/ line \in {Junk, Blank} /\ answers' = <<>>
          \/ /\ line \notin {Junk, Blank}
             /\ answers' = <<[ip |-> line, member |-> Contains(Freeze(entries), line)]>> \/ answers' = <<resolve(entries, line)>>
      BY <2>5 DEF handleContains, handleLookup, Answer
    <3>3. Whole(entries)
      BY <3>1, LoadedIsWhole
    <3>4. IsSeq(answers') /\ Right(answers')
      <4>1. CASE line \in {Junk, Blank}
        BY <3>2, <4>1, ShortSeqs DEF Right
      <4>2. CASE line \notin {Junk, Blank}
        <5>1. line \in Addresses
          BY <4>2, InputAssumption
        <5>2. PICK x : answers' = <<x>> /\ RightResult(x)
          BY <3>2, <3>3, <4>2, <5>1, ResolveRight
        <5> QED
          BY <5>2, ShortSeqs DEF Right
      <4> QED
        BY <4>1, <4>2
    <3>5. body' \in Seq(Inputs)
      BY <2>5, <3>1
    <3> QED
      BY <2>0, <3>1, <3>4, <3>5, HttpPrimed
  <2> QED
    BY <1>3, <2>1, <2>2, <2>3, <2>4, <2>5 DEF HttpNext
<1> QED
  BY <1>2, <1>3 DEF ServicesNext, allVars
-----------------------------------------------------------------------------
(* example/mcp: a reply for each request that is owed one. *)
Silent == {r \in Requests : Unreplied(r)}
Owed(rs) == Without(rs, Silent)
ReplyRight(y) == "results" \in DOMAIN y.body => Right(y.body.results)

McpInv ==
  /\ requests \in Seq(Requests) /\ IsSeq(replies)
  /\ Len(replies) = Len(Owed(requests))
  /\ \A i \in DOMAIN Owed(requests) :
       replies[i].id = IF Owed(requests)[i].kind = "bad" THEN Null ELSE Owed(requests)[i].id
  /\ \A i \in DOMAIN replies : ReplyRight(replies[i])

LEMMA McpInvInit == ServicesInit => McpInv
<1> SUFFICES ASSUME ServicesInit PROVE McpInv
  OBVIOUS
<1>1. requests = <<>> /\ replies = <<>>
  BY DEF ServicesInit, McpInit
<1>2. IsSeq(<<>>) /\ Len(<<>>) = 0 /\ DOMAIN <<>> = {}
  BY ShortSeqs
<1>3. <<>> \in Seq(Requests)
  OBVIOUS
<1>4. Owed(<<>>) = <<>>
  BY WithoutEmpty DEF Owed
<1> QED
  BY <1>1, <1>2, <1>3, <1>4 DEF McpInv

(* The results of a batch are those of its addresses. *)
LEMMA ResultsRight ==
  ASSUME Whole(entries), NEW ips \in Seq(Inputs)
  PROVE  Right(Results(ips))
<1>1. Valid(ips) \in Seq(Inputs \ {Junk, Blank})
  BY WithoutType DEF Valid
<1>2. PICK v : v = Valid(ips)
  OBVIOUS
<1>3. Len(v) \in Nat /\ \A i \in 1 .. Len(v) : v[i] \in Addresses
  BY <1>1, <1>2, ElementOfSeq, InputAssumption
<1>4. Results(ips) = [i \in 1 .. Len(v) |-> resolve(entries, v[i])]
  BY <1>2 DEF Results
<1>5. \A i \in 1 .. Len(v) : RightResult(resolve(entries, v[i]))
  BY <1>3, ResolveRight
<1> QED
  BY <1>4, <1>5 DEF Right

(* Every tool answers with the id it was called with. *)
LEMMA callToolRight ==
  ASSUME Whole(entries), NEW r \in Requests, r.kind = "tools/call"
  PROVE  callTool(r).id = r.id /\ ReplyRight(callTool(r))
<1>1. r.tool \in Tools /\ r.ips \in Seq(Inputs)
  BY RequestAssumption
<1>2. Right(Results(r.ips))
  BY <1>1, ResultsRight
<1>3. \A code : Error(r.id, code).id = r.id /\ ReplyRight(Error(r.id, code))
  BY DEF Error, ReplyRight
<1>4. \A b : Ok(r.id, b).id = r.id /\ Ok(r.id, b).body = b
  BY DEF Ok
<1>5. /\ ReplyRight(Ok(r.id, [stats |-> Stats(entries)]))
      /\ ReplyRight(Ok(r.id, [member |-> Contains(Freeze(entries), r.ips[1])]))
      /\ ReplyRight(Ok(r.id, [toolError |-> r.tool]))
      /\ ReplyRight(Ok(r.id, [results |-> Results(r.ips)]))
  BY <1>2, <1>4 DEF ReplyRight
<1>6. \/ \E code : callTool(r) = Error(r.id, code)
      \/ callTool(r) \in {Ok(r.id, [stats |-> Stats(entries)]),
                          Ok(r.id, [member |-> Contains(Freeze(entries), r.ips[1])]),
                          Ok(r.id, [toolError |-> r.tool]),
                          Ok(r.id, [results |-> Results(r.ips)])}
  BY <1>1 DEF callTool, Tools
<1> QED
  BY <1>3, <1>4, <1>5, <1>6

(* What a line adds to the replies: nothing, or one reply with its id. *)
LEMMA OneReply ==
  ASSUME Whole(entries), NEW r \in Requests, r.kind \notin {"blank", "bad"}
  PROVE  \/ Unreplied(r) /\ dispatch(r) = <<>>
         \/ ~Unreplied(r) /\ \E y : dispatch(r) = <<y>> /\ y.id = r.id /\ ReplyRight(y)
<1>1. r.kind \in {"initialize", "ping", "tools/list", "notifications", "tools/call", "other"}
  BY RequestAssumption
<1>2. Unreplied(r) <=> r.kind = "notifications" \/ r.id = NoId
  BY DEF Unreplied
<1>3. ASSUME NEW y, y.id = r.id, ReplyRight(y), dispatch(r) = reply(y), r.kind # "notifications"
      PROVE  \/ Unreplied(r) /\ dispatch(r) = <<>>
             \/ ~Unreplied(r) /\ dispatch(r) = <<y>> /\ y.id = r.id /\ ReplyRight(y)
  BY <1>2, <1>3 DEF reply
<1>4. CASE r.kind = "notifications"
  BY <1>2, <1>4 DEF dispatch
<1>5. CASE r.kind \in {"initialize", "ping", "tools/list"}
  <2>1. dispatch(r) = reply(Ok(r.id, [result |-> r.kind]))
    BY <1>5 DEF dispatch
  <2>2. Ok(r.id, [result |-> r.kind]).id = r.id /\ ReplyRight(Ok(r.id, [result |-> r.kind]))
    BY DEF Ok, ReplyRight
  <2> QED
    BY <1>3, <1>5, <2>1, <2>2
<1>6. CASE r.kind = "tools/call"
  <2>1. dispatch(r) = reply(callTool(r))
    BY <1>6 DEF dispatch
  <2> QED
    BY <1>3, <1>6, <2>1, callToolRight
<1>7. CASE r.kind = "other"
  <2>1. dispatch(r) = reply(Error(r.id, "method not found"))
    BY <1>7 DEF dispatch
  <2>2. Error(r.id, "method not found").id = r.id /\ ReplyRight(Error(r.id, "method not found"))
    BY DEF Error, ReplyRight
  <2> QED
    BY <1>3, <1>7, <2>1, <2>2
<1> QED
  BY <1>1, <1>4, <1>5, <1>6, <1>7

(* A reply to a request that is owed one. *)
LEMMA ReplyAppended ==
  ASSUME McpInv, NEW r \in Requests, ~Unreplied(r), NEW y,
         y.id = IF r.kind = "bad" THEN Null ELSE r.id, ReplyRight(y)
  PROVE  LET rs == Append(requests, r)
             ys == Append(replies, y)
         IN /\ IsSeq(ys) /\ Len(ys) = Len(Owed(rs))
            /\ \A i \in DOMAIN Owed(rs) : ys[i].id = IF Owed(rs)[i].kind = "bad" THEN Null ELSE Owed(rs)[i].id
            /\ \A i \in DOMAIN ys : ReplyRight(ys[i])
<1>1. PICK o : o = Owed(requests)
  OBVIOUS
<1>2. PICK p : p = Append(o, r)
  OBVIOUS
<1>3. PICK ys : ys = Append(replies, y)
  OBVIOUS
<1>4. Owed(Append(requests, r)) = p /\ IsSeq(o)
  <2>1. requests \in Seq(Requests) /\ r \notin Silent
    <3>1. requests \in Seq(Requests)
      BY DEF McpInv
    <3>2. r \notin Silent
      BY DEF Silent
    <3> QED
      BY <3>1, <3>2
  <2>2. /\ Owed(requests) \in Seq(Requests \ Silent)
        /\ Owed(Append(requests, r)) = Append(Owed(requests), r)
    <3>1. r \in Requests
      OBVIOUS
    <3>2. /\ Without(requests, Silent) \in Seq(Requests \ Silent)
          /\ Without(Append(requests, r), Silent)
               = IF r \in Silent THEN Without(requests, Silent) ELSE Append(Without(requests, Silent), r)
      BY <2>1, <3>1, WithoutAppend, ZenonT(30)
    <3> QED
      BY <2>1, <3>2 DEF Owed
  <2> QED
    BY <1>1, <1>2, <2>2 DEF IsSeq
<1>5. /\ DOMAIN o = 1 .. Len(o) /\ DOMAIN p = 1 .. Len(o) + 1 /\ Len(o) \in Nat /\ Len(p) = Len(o) + 1
      /\ \A i \in 1 .. Len(o) : p[i] = o[i]
      /\ p[Len(o) + 1] = r
  BY <1>2, <1>4, SeqAppend
<1>6. /\ IsSeq(replies) /\ Len(replies) = Len(o)
      /\ \A i \in DOMAIN o : replies[i].id = IF o[i].kind = "bad" THEN Null ELSE o[i].id
      /\ \A i \in DOMAIN replies : ReplyRight(replies[i])
  BY <1>1 DEF McpInv
<1>7. /\ IsSeq(ys) /\ DOMAIN replies = 1 .. Len(o) /\ DOMAIN ys = 1 .. Len(o) + 1 /\ Len(ys) = Len(o) + 1
      /\ \A i \in 1 .. Len(o) : ys[i] = replies[i]
      /\ ys[Len(o) + 1] = y
  BY <1>3, <1>6, SeqAppend
<1>8. ASSUME NEW i \in 1 .. Len(o) + 1
      PROVE  ys[i].id = (IF p[i].kind = "bad" THEN Null ELSE p[i].id) /\ ReplyRight(ys[i])
  <2>1. CASE i \in 1 .. Len(o)
    BY <1>5, <1>6, <1>7, <2>1
  <2>2. CASE i = Len(o) + 1
    BY <1>5, <1>7, <2>2
  <2> QED
    BY <1>5, <2>1, <2>2
<1> QED
  BY <1>3, <1>4, <1>5, <1>7, <1>8

(* One more line: answered, or owed nothing. *)
LEMMA RequestStep ==
  ASSUME LoadInv, McpInv, NEW r \in Requests, Request(r)
  PROVE  /\ requests' \in Seq(Requests) /\ IsSeq(replies')
         /\ Len(replies') = Len(Owed(requests'))
         /\ \A i \in DOMAIN Owed(requests') :
              replies'[i].id = IF Owed(requests')[i].kind = "bad" THEN Null ELSE Owed(requests')[i].id
         /\ \A i \in DOMAIN replies' : ReplyRight(replies'[i])
<1>1. /\ lpc = "loaded" /\ requests' = Append(requests, r)
      /\ replies' = replies \o CASE r.kind = "blank" -> <<>>
                                 [] r.kind = "bad" -> <<Error(Null, "parse error")>>
                                 [] OTHER -> dispatch(r)
  BY DEF Request
<1>2. Whole(entries) /\ requests \in Seq(Requests) /\ IsSeq(replies)
  BY <1>1, LoadedIsWhole DEF McpInv
<1>8. PICK xs : xs = CASE r.kind = "blank" -> <<>>
                     [] r.kind = "bad" -> <<Error(Null, "parse error")>>
                     [] OTHER -> dispatch(r)
  OBVIOUS
<1>9. requests' = Append(requests, r) /\ replies' = replies \o xs
  BY <1>1, <1>8
<1>3. requests' \in Seq(Requests)
  BY <1>2, <1>9
<1>4. \/ Unreplied(r) /\ replies' = replies
      \/ /\ ~Unreplied(r)
         /\ \E y : /\ replies' = Append(replies, y)
                   /\ y.id = (IF r.kind = "bad" THEN Null ELSE r.id)
                   /\ ReplyRight(y)
  <2>1. CASE r.kind = "blank"
    <3>1. replies' = replies \o <<>>
      BY <1>1, <2>1
    <3> QED
      BY <1>2, <2>1, <3>1, SeqAppend DEF Unreplied
  <2>2. CASE r.kind = "bad"
    <3>1. PICK y : y = Error(Null, "parse error")
      OBVIOUS
    <3>2. replies' = replies \o <<y>>
      BY <1>1, <2>2, <3>1
    <3>3. replies' = Append(replies, y)
      BY <1>2, <3>2, SeqAppend
    <3>4. y.id = Null /\ ReplyRight(y)
      BY <3>1 DEF Error, ReplyRight
    <3>5. ~Unreplied(r)
      BY <2>2 DEF Unreplied
    <3> QED
      BY <2>2, <3>3, <3>4, <3>5
  <2>3. CASE r.kind \notin {"blank", "bad"}
    <3>1. replies' = replies \o dispatch(r)
      BY <1>1, <2>3
    <3>2. CASE Unreplied(r) /\ dispatch(r) = <<>>
      BY <1>2, <3>1, <3>2, SeqAppend
    <3>3. ASSUME ~Unreplied(r), NEW y, dispatch(r) = <<y>>, y.id = r.id, ReplyRight(y)
          PROVE  replies' = Append(replies, y)
      BY <1>2, <3>1, <3>3, SeqAppend
    <3>4. \/ Unreplied(r) /\ dispatch(r) = <<>>
          \/ ~Unreplied(r) /\ \E y : dispatch(r) = <<y>> /\ y.id = r.id /\ ReplyRight(y)
      BY <1>2, <2>3, OneReply
    <3> QED
      BY <2>3, <3>2, <3>3, <3>4
  <2> QED
    BY <2>1, <2>2, <2>3
<1>5. CASE Unreplied(r) /\ replies' = replies
  <2>1. Owed(requests') = Owed(requests)
    <3>1. r \in Silent
      BY <1>5 DEF Silent
    <3> QED
      BY <1>2, <1>9, <3>1, WithoutAppend, ZenonT(30) DEF Owed
  <2> QED
    BY <1>3, <1>5, <2>1 DEF McpInv
<1>6. CASE ~Unreplied(r) /\ \E y : replies' = Append(replies, y) /\ y.id = (IF r.kind = "bad" THEN Null ELSE r.id) /\ ReplyRight(y)
  <2>1. PICK y : replies' = Append(replies, y) /\ y.id = (IF r.kind = "bad" THEN Null ELSE r.id) /\ ReplyRight(y)
    BY <1>6
  <2> QED
    BY <1>3, <1>6, <1>9, <2>1, ReplyAppended
<1> QED
  BY <1>4, <1>5, <1>6

(* A step to a state that the server may be in keeps the invariant. *)
LEMMA McpPrimed ==
  ASSUME UNCHANGED <<file, loader>>, requests' \in Seq(Requests), IsSeq(replies'),
         Len(replies') = Len(Owed(requests')),
         \A i \in DOMAIN Owed(requests') :
            replies'[i].id = IF Owed(requests')[i].kind = "bad" THEN Null ELSE Owed(requests')[i].id,
         \A i \in DOMAIN replies' : ReplyRight(replies'[i])
  PROVE  McpInv'
<1>1. \A r : RightResult(r)' <=> RightResult(r)
  BY TextStable
<1>2. Owed(requests)' = Owed(requests')
  BY DEF Owed, Silent, Without, Unreplied
<1>3. (\A i \in DOMAIN replies : ReplyRight(replies[i]))'
  BY <1>1 DEF ReplyRight, Right, IsResult
<1>4. IsSeq(replies)'
  BY DEF IsSeq
<1> QED
  BY <1>2, <1>3, <1>4 DEF McpInv

LEMMA McpInvStep ==
  ASSUME LoadInv, McpInv, [ServicesNext]_allVars
  PROVE  McpInv'
<1>1. UNCHANGED <<file, loader>>
  BY LoadInvStep
<1>2. CASE UNCHANGED <<requests, replies>>
  BY <1>1, <1>2, McpPrimed DEF McpInv
<1>3. CASE \E r \in Requests : Request(r)
  BY <1>1, <1>3, RequestStep, McpPrimed
<1>4. UNCHANGED mcpVars \/ McpNext
  BY DEF ServicesNext, allVars
<1> QED
  BY <1>2, <1>3, <1>4 DEF mcpVars, McpNext, McpEnds
-----------------------------------------------------------------------------
(* example/unix: the processes on one path. *)
Mains == {"off", "fatal", "started", "removed", "accept", "close", "remove"}
Processes == [main : Mains, sig : {"wait", "unlink", "close", "remove"}, open : BOOLEAN, unlinked : BOOLEAN]

UnixTypes ==
  /\ proc \in [Servers -> Processes]
  /\ path \in Servers \cup {NoOne}

(* Two that live at the same time have met. *)
LivingMet == \A s, t \in Servers : s # t /\ Alive(s) /\ Alive(t) => s \in met

(* A server that no other one meets finds no socket file after it has removed
   the stale one, and then holds the path until it is told to stop. *)
Undisturbed ==
  \A s \in Servers \ met :
    /\ Main(s) # "fatal"
    /\ Main(s) = "removed" => path = NoOne
    /\ Main(s) = "accept" /\ proc[s].sig = "wait" => path = s

(* Between removing and binding the socket file is not one's own. *)
NotYetBound == \A s \in Servers : Main(s) = "removed" => path # s

(* Only a killed server leaves its file. *)
LeftByKilled == \A s \in Servers : path = s /\ ~Alive(s) => s \in killed

UnixInv == UnixTypes /\ LivingMet /\ Undisturbed /\ NotYetBound /\ LeftByKilled

ServerStep(s) ==
  \/ Start(s) \/ RemoveStale(s) \/ Listen(s) \/ AcceptFails(s)
  \/ Signal(s) \/ SignalUnlink(s) \/ SignalClose(s) \/ SignalExit(s)
  \/ DeferredClose(s) \/ DeferredRemove(s) \/ Kill(s) \/ Connect(s)
-----------------------------------------------------------------------------
LEMMA InvInit == ServicesInit => UnixInv
<1> SUFFICES ASSUME UnixInit PROVE UnixInv
  BY DEF ServicesInit
<1>1. Fresh("off") \in Processes
  BY DEF Fresh, Processes, Mains
<1>2. \A s \in Servers : proc[s] = Fresh("off") /\ Main(s) = "off" /\ ~Alive(s)
  BY DEF UnixInit, Main, Alive, Fresh
<1>3. UnixTypes
  BY <1>1 DEF UnixInit, UnixTypes
<1> QED
  BY <1>2, <1>3, ServerAssumption DEF UnixInv, LivingMet, Undisturbed, NotYetBound, LeftByKilled, UnixInit

(* What a step of one process does to its own record, the others keep theirs. *)
LEMMA OwnRecord ==
  ASSUME UnixTypes, NEW s \in Servers, ServerStep(s)
  PROVE  /\ proc' \in [Servers -> Processes]
         /\ \A t \in Servers \ {s} : proc'[t] = proc[t]
<1>1. \A m \in Mains : Fresh(m) \in Processes
  BY DEF Fresh, Processes
<1>2. proc[s] \in Processes
  BY DEF UnixTypes
<1>3. /\ [proc[s] EXCEPT !.main = "accept", !.open = TRUE] \in Processes
      /\ [proc[s] EXCEPT !.sig = "unlink"] \in Processes
      /\ [proc[s] EXCEPT !.sig = "close", !.unlinked = TRUE] \in Processes
      /\ [proc[s] EXCEPT !.sig = "remove", !.open = FALSE] \in Processes
      /\ [proc[s] EXCEPT !.main = "close"] \in Processes
      /\ [proc[s] EXCEPT !.main = "remove", !.unlinked = TRUE, !.open = FALSE] \in Processes
  BY <1>2 DEF Processes, Mains
<1>4. proc' = proc \/ \E p \in Processes : proc' = [proc EXCEPT ![s] = p]
  <2>1. CASE Start(s) \/ RemoveStale(s) \/ SignalExit(s) \/ DeferredRemove(s) \/ Kill(s)
    BY <2>1, <1>1 DEF Start, RemoveStale, SignalExit, DeferredRemove, Kill, Ends, To, Mains
  <2>2. CASE Listen(s)
    BY <2>2, <1>1, <1>3 DEF Listen, To, Mains
  <2>3. CASE AcceptFails(s) \/ Signal(s) \/ SignalUnlink(s) \/ SignalClose(s) \/ DeferredClose(s)
    BY <2>3, <1>3 DEF AcceptFails, Signal, SignalUnlink, SignalClose, DeferredClose, To
  <2>4. CASE Connect(s)
    BY <2>4 DEF Connect
  <2> QED
    BY <2>1, <2>2, <2>3, <2>4 DEF ServerStep
<1> QED
  BY <1>4 DEF UnixTypes

(* The two histories of a step: a process begins next to those that live, and
   any other step is one of a process that lives and forgets nobody. *)
LEMMA Histories ==
  ASSUME UnixTypes, NEW s \in Servers, ServerStep(s)
  PROVE  \/ /\ Start(s) /\ ~Alive(s)
            /\ \A t \in Servers : t # s => (t \in met' <=> t \in met \/ Alive(t))
            /\ (\E t \in Servers : Alive(t)) => s \in met'
         \/ /\ ~Start(s) /\ Alive(s) /\ met' = met
            /\ killed \subseteq killed'
<1>1. CASE Start(s)
  <2>1. ~Alive(s)
    BY <1>1 DEF Start
  <2> DEFINE others == {t \in Servers : Alive(t)}
  <2>2. met' = IF others = {} THEN met \ {s} ELSE met \cup others \cup {s}
    BY <1>1 DEF Start
  <2>3. CASE others = {}
    BY <1>1, <2>1, <2>2, <2>3
  <2>4. CASE others # {}
    BY <1>1, <2>1, <2>2, <2>4
  <2> QED
    BY <2>3, <2>4
<1>2. CASE ~Start(s)
  <2>1. Alive(s)
    BY <1>2, ServerAssumption
    DEF ServerStep, Alive, RemoveStale, Listen, AcceptFails, Signal, SignalUnlink, SignalClose, SignalExit,
        DeferredClose, DeferredRemove, Kill, Connect
  <2>2. met' = met /\ killed \subseteq killed'
    BY <1>2 DEF ServerStep, To, RemoveStale, Listen, AcceptFails, Signal, SignalUnlink, SignalClose, SignalExit,
        DeferredClose, DeferredRemove, Kill, Connect
  <2> QED
    BY <1>2, <2>1, <2>2
<1> QED
  BY <1>1, <1>2

(* A process that lives keeps the records of the others, which it has met. *)
LEMMA OthersAsBefore ==
  ASSUME UnixTypes, NEW s \in Servers, ServerStep(s)
  PROVE  \A t \in Servers \ {s} : Main(t)' = Main(t) /\ (Alive(t)' <=> Alive(t))
BY OwnRecord DEF Main, Alive

LEMMA LivingMetStep ==
  ASSUME UnixTypes, LivingMet, NEW s \in Servers, ServerStep(s)
  PROVE  LivingMet'
<1> SUFFICES ASSUME NEW a \in Servers, NEW b \in Servers, a # b, Alive(a)', Alive(b)'
             PROVE  a \in met'
  BY DEF LivingMet
<1>1. CASE Start(s)
  <2>1. /\ \A t \in Servers : t # s => (t \in met' <=> t \in met \/ Alive(t))
        /\ (\E t \in Servers : Alive(t)) => s \in met'
    BY <1>1, Histories
  <2>2. CASE a = s
    BY <2>1, <2>2, OthersAsBefore
  <2>3. CASE a # s
    BY <2>1, <2>3, OthersAsBefore
  <2> QED
    BY <2>2, <2>3
<1>2. CASE ~Start(s)
  <2>1. Alive(s) /\ met' = met
    BY <1>2, Histories
  <2>2. Alive(a) /\ Alive(b)
    BY <2>1, OthersAsBefore
  <2> QED
    BY <2>1, <2>2 DEF LivingMet
<1> QED
  BY <1>1, <1>2

(* A server that has met nobody is disturbed neither by what it does itself
   nor by what others do, for it is not alive while another one is. *)
LEMMA UndisturbedStep ==
  ASSUME UnixTypes, LivingMet, Undisturbed, NEW s \in Servers, ServerStep(s)
  PROVE  Undisturbed'
<1> SUFFICES ASSUME NEW a \in Servers, a \notin met'
             PROVE  /\ Main(a)' # "fatal"
                    /\ Main(a)' = "removed" => path' = NoOne
                    /\ Main(a)' = "accept" /\ proc'[a].sig = "wait" => path' = a
  BY DEF Undisturbed
<1>1. CASE a # s
  <2>1. ~Alive(a) /\ a \notin met
    BY <1>1, Histories DEF LivingMet
  <2>2. Main(a)' = Main(a) /\ Main(a) # "fatal"
    BY <1>1, <2>1, OthersAsBefore DEF Undisturbed
  <2> QED
    BY <2>1, <2>2 DEF Alive
<1>2. CASE a = s /\ Start(s)
  BY <1>2 DEF Start, Main, Fresh, UnixTypes
<1>3. CASE a = s /\ ~Start(s)
  <2>1. /\ Main(s) # "fatal"
        /\ Main(s) = "removed" => path = NoOne
        /\ Main(s) = "accept" /\ proc[s].sig = "wait" => path = s
    BY <1>3, Histories DEF Undisturbed
  <2>2. proc[s] \in Processes /\ proc \in [Servers -> Processes]
    BY DEF UnixTypes
  <2>3. CASE RemoveStale(s)
    BY <1>3, <2>2, <2>3 DEF RemoveStale, To, Fresh, Main
  <2>4. CASE Listen(s)
    <3>1. path = NoOne
      BY <2>1, <2>4 DEF Listen
    <3> QED
      BY <1>3, <2>2, <2>4, <3>1, ZenonT(30) DEF Listen, To, Main, Processes
  <2>5. CASE AcceptFails(s) \/ DeferredClose(s)
    <3>1. AcceptFails(s) => Main(s)' = "close"
      BY <2>2 DEF AcceptFails, To, Main, Processes
    <3>2. DeferredClose(s) => Main(s)' = "remove"
      BY <2>2 DEF DeferredClose, To, Main, Processes
    <3> QED
      BY <1>3, <2>5, <3>1, <3>2
  <2>6. CASE Signal(s)
    <3>1. Main(s)' = Main(s) /\ proc'[s].sig = "unlink" /\ Main(s) # "removed"
      BY <2>2, <2>6 DEF Signal, To, Main, Processes
    <3> QED
      BY <1>3, <2>1, <3>1
  <2>7. CASE SignalUnlink(s) \/ SignalClose(s)
    <3>1. Main(s)' = Main(s) /\ proc'[s].sig # "wait" /\ Main(s) \in Mains /\ Alive(s)
      BY <2>2, <2>7, ZenonT(30) DEF SignalUnlink, SignalClose, To, Main, Processes
    <3>2. CASE Main(s) = "removed"
      BY <1>3, <2>1, <2>7, <3>1, <3>2 DEF SignalUnlink, SignalClose, Unlink
    <3>3. CASE Main(s) # "removed"
      BY <1>3, <2>1, <3>1, <3>3
    <3> QED
      BY <3>2, <3>3
  <2>8. CASE SignalExit(s) \/ DeferredRemove(s) \/ Kill(s)
    BY <1>3, <2>2, <2>8 DEF SignalExit, DeferredRemove, Kill, Ends, Fresh, Main
  <2>9. CASE Connect(s)
    BY <1>3, <2>1, <2>9 DEF Connect, Main
  <2> QED
    BY <1>3, <2>3, <2>4, <2>5, <2>6, <2>7, <2>8, <2>9 DEF ServerStep
<1> QED
  BY <1>1, <1>2, <1>3

(* What a step does to the path: it is bound by a server that was about to, or
   removed, or left as it is. *)
LEMMA PathStep ==
  ASSUME UnixTypes, NEW s \in Servers, ServerStep(s)
  PROVE  \/ path' = path
         \/ path' = NoOne
         \/ path' = s /\ Main(s)' = "accept" /\ Alive(s)'
<1>1. CASE Listen(s)
  BY <1>1, ZenonT(30) DEF Listen, To, Main, Alive, UnixTypes, Processes
<1>2. CASE ~Listen(s)
  BY <1>2 DEF ServerStep, Start, RemoveStale, AcceptFails, Signal, SignalUnlink, SignalClose, SignalExit,
              DeferredClose, DeferredRemove, Kill, Connect, Unlink
<1> QED
  BY <1>1, <1>2

LEMMA NotYetBoundStep ==
  ASSUME UnixTypes, NotYetBound, NEW s \in Servers, ServerStep(s)
  PROVE  NotYetBound'
<1> SUFFICES ASSUME NEW a \in Servers, Main(a)' = "removed"
             PROVE  path' # a
  BY DEF NotYetBound
<1>1. path' = path \/ path' # a
  BY PathStep, OthersAsBefore, ServerAssumption
<1>2. CASE Main(a) = "removed"
  BY <1>1, <1>2 DEF NotYetBound
<1>3. CASE Main(a) # "removed"
  <2>1. a = s
    BY <1>3, OthersAsBefore
  <2>2. proc \in [Servers -> Processes] /\ proc[s] \in Processes
    BY DEF UnixTypes
  <2>3. ~Start(s)
    BY <1>3, <2>1, <2>2 DEF Start, Fresh, Main
  <2>4. ~Listen(s) /\ ~AcceptFails(s) /\ ~DeferredClose(s)
    BY <1>3, <2>1, <2>2, ZenonT(30) DEF Listen, AcceptFails, DeferredClose, To, Fresh, Main, Processes
  <2>5. ~Signal(s) /\ ~SignalUnlink(s) /\ ~SignalClose(s)
    <3>1. Signal(s) \/ SignalUnlink(s) \/ SignalClose(s) => Main(s)' = Main(s)
      BY <2>2, ZenonT(30) DEF Signal, SignalUnlink, SignalClose, To, Main, Processes
    <3> QED
      BY <1>3, <2>1, <3>1
  <2>6. ~SignalExit(s) /\ ~DeferredRemove(s) /\ ~Kill(s)
    BY <1>3, <2>1, <2>2 DEF SignalExit, DeferredRemove, Kill, Ends, Fresh, Main
  <2>7. ~Connect(s)
    BY <1>3, <2>1 DEF Connect, Main
  <2>8. RemoveStale(s)
    BY <2>3, <2>4, <2>5, <2>6, <2>7 DEF ServerStep
  <2> QED
    BY <2>8, ServerAssumption DEF RemoveStale
<1> QED
  BY <1>2, <1>3

LEMMA LeftByKilledStep ==
  ASSUME UnixTypes, NotYetBound, LeftByKilled, NEW s \in Servers, ServerStep(s)
  PROVE  LeftByKilled'
<1> SUFFICES ASSUME NEW a \in Servers, path' = a, ~Alive(a)'
             PROVE  a \in killed'
  BY DEF LeftByKilled
<1>1. path = a
  BY PathStep, ServerAssumption
<1>2. CASE a # s
  <2>1. a \in killed
    BY <1>1, <1>2, OthersAsBefore DEF LeftByKilled
  <2> QED
    BY <1>2, <2>1, Histories DEF Start
<1>3. CASE a = s
  <2>1. ~Start(s)
    BY <1>3 DEF Start, Main, Alive, Fresh, UnixTypes
  <2>2. Alive(s)
    BY <2>1, Histories
  <2>3. CASE Listen(s)
    BY <1>1, <1>3, <2>3 DEF Listen, NotYetBound
  <2>4. CASE SignalExit(s) \/ DeferredRemove(s)
    BY <1>3, <2>4, ServerAssumption DEF SignalExit, DeferredRemove
  <2>5. CASE Kill(s)
    BY <1>3, <2>5 DEF Kill
  <2>6. CASE ~Listen(s) /\ ~SignalExit(s) /\ ~DeferredRemove(s) /\ ~Kill(s)
    <3>1. proc \in [Servers -> Processes] /\ proc[s] \in Processes
      BY DEF UnixTypes
    <3>2. RemoveStale(s) => Alive(s)'
      BY <3>1 DEF RemoveStale, To, Fresh, Main, Alive
    <3>3. /\ AcceptFails(s) => Alive(s)'
          /\ DeferredClose(s) => Alive(s)'
      BY <3>1, ZenonT(30) DEF AcceptFails, DeferredClose, To, Main, Alive, Processes
    <3>4. Signal(s) \/ SignalUnlink(s) \/ SignalClose(s) => Main(s)' = Main(s)
      BY <3>1, ZenonT(30) DEF Signal, SignalUnlink, SignalClose, To, Main, Processes
    <3>5. Connect(s) => Main(s)' = Main(s)
      BY DEF Connect, Main
    <3>6. Main(s)' = Main(s) => Alive(s)'
      BY <2>2 DEF Alive
    <3>7. Alive(s)'
      BY <2>1, <2>6, <3>2, <3>3, <3>4, <3>5, <3>6 DEF ServerStep
    <3> QED
      BY <1>3, <3>7
  <2> QED
    BY <2>3, <2>4, <2>5, <2>6
<1> QED
  BY <1>2, <1>3

LEMMA InvStep == UnixInv /\ [ServicesNext]_allVars => UnixInv'
<1> SUFFICES ASSUME UnixInv, [ServicesNext]_allVars PROVE UnixInv'
  OBVIOUS
<1>1. CASE \E s \in Servers : ServerStep(s)
  <2>1. PICK s \in Servers : ServerStep(s)
    BY <1>1
  <2>2. UnixTypes'
    BY <2>1, OwnRecord, PathStep DEF UnixInv, UnixTypes
  <2>3. LivingMet' /\ Undisturbed' /\ NotYetBound' /\ LeftByKilled'
    BY <2>1, LivingMetStep, UndisturbedStep, NotYetBoundStep, LeftByKilledStep DEF UnixInv
  <2> QED
    BY <2>2, <2>3 DEF UnixInv
<1>2. CASE UNCHANGED <<path, proc, killed, met>>
  BY <1>2 DEF UnixInv, UnixTypes, LivingMet, Undisturbed, NotYetBound, LeftByKilled, Main, Alive
<1>3. (\E s \in Servers : ServerStep(s)) \/ UNCHANGED <<path, proc, killed, met>>
  <2>1. CASE UNCHANGED unixVars
    BY <2>1 DEF unixVars
  <2>2. CASE UnixNext
    BY <2>2 DEF UnixNext, ServerStep, ConnectionEnds, Serve
  <2> QED
    BY <2>1, <2>2 DEF ServicesNext, allVars
<1> QED
  BY <1>1, <1>2, <1>3

(* A server runs only on a spec that is loaded, and a client is of one. *)
ConnInv ==
  /\ lines \in Seq(Inputs) /\ IsSeq(sent) /\ Right(sent)
  /\ AnswersEach(sent, lines)
  /\ (conn # NoOne \/ \E s \in Servers : Main(s) # "off") => lpc = "loaded"

LEMMA ConnInvInit == ServicesInit => ConnInv
<1> SUFFICES ASSUME ServicesInit PROVE ConnInv
  OBVIOUS
<1>1. lines = <<>> /\ sent = <<>> /\ conn = NoOne /\ proc = [s \in Servers |-> Fresh("off")]
  BY DEF ServicesInit, UnixInit
<1>2. IsSeq(<<>>) /\ Right(<<>>)
  BY ShortSeqs DEF Right
<1>3. <<>> \in Seq(Inputs)
  OBVIOUS
<1>4. AnswersEach(<<>>, <<>>)
  <2>1. Without(<<>>, {Blank}) = <<>>
    BY WithoutEmpty
  <2> QED
    BY <2>1 DEF AnswersEach
<1>5. \A s \in Servers : Main(s) = "off"
  BY <1>1 DEF Main, Fresh
<1> QED
  BY <1>1, <1>2, <1>3, <1>4, <1>5 DEF ConnInv

(* A step to a state that the servers may be in keeps the invariant. *)
LEMMA ConnPrimed ==
  ASSUME UNCHANGED <<file, loader>>, lines' \in Seq(Inputs), IsSeq(sent'), Right(sent'), AnswersEach(sent', lines'),
         (conn' # NoOne \/ \E s \in Servers : Main(s)' # "off") => lpc' = "loaded"
  PROVE  ConnInv'
<1>1. Right(sent)'
  BY PrimedRight
<1>2. AnswersEach(sent, lines)' <=> AnswersEach(sent', lines')
  BY DEF AnswersEach, Without
<1> QED
  BY <1>1, <1>2 DEF ConnInv, IsSeq

LEMMA ConnInvStep ==
  ASSUME LoadInv, UnixInv, ConnInv, [ServicesNext]_allVars
  PROVE  ConnInv'
<1>1. UNCHANGED <<file, loader>> /\ (lpc = "loaded" => UNCHANGED <<entries, lpc>>)
  BY LoadInvStep
<1>2. CASE UNCHANGED <<conn, lines, sent, proc>>
  <2>1. \A s : Main(s)' = Main(s)
    BY <1>2 DEF Main
  <2> QED
    BY <1>1, <1>2, <2>1, ConnPrimed DEF ConnInv
<1>3. HangUp => lines' \in Seq(Inputs) /\ IsSeq(sent') /\ Right(sent') /\ AnswersEach(sent', lines') /\ conn' = NoOne
  <2>1. IsSeq(<<>>) /\ Right(<<>>)
    BY ShortSeqs DEF Right
  <2>2. <<>> \in Seq(Inputs)
    OBVIOUS
  <2>3. AnswersEach(<<>>, <<>>)
    <3>1. Without(<<>>, {Blank}) = <<>>
      BY WithoutEmpty
    <3> QED
      BY <3>1 DEF AnswersEach
  <2> QED
    BY <2>1, <2>2, <2>3 DEF HangUp
<1>4. CASE UnixNext /\ UNCHANGED loadVars
  <2>0. UNCHANGED <<file, loader, lpc, entries>>
    BY <1>4 DEF loadVars
  <2>1. ASSUME NEW line \in Probes, Serve(line)
        PROVE  ConnInv'
    <3>1. /\ conn # NoOne /\ lines' = Append(lines, line) /\ UNCHANGED <<conn, proc>>
          /\ sent' = sent \o AnswerTo(entries, line)
      BY <2>1, InputAssumption DEF Serve, AnswerTo
    <3>2. lpc = "loaded" /\ lines \in Seq(Inputs) /\ IsSeq(sent) /\ Right(sent) /\ AnswersEach(sent, lines)
      BY <3>1 DEF ConnInv
    <3>3. Whole(entries) /\ line \in Inputs
      BY <3>2, LoadedIsWhole, ProbeAssumption
    <3>4. lines' \in Seq(Inputs)
      BY <3>1, <3>2, <3>3
    <3>5. IsSeq(sent') /\ Right(sent') /\ AnswersEach(sent', lines')
      BY <3>1, <3>2, <3>3, NextAnswer
    <3> QED
      BY <2>0, <3>2, <3>4, <3>5, ConnPrimed
  <2>2. CASE ConnectionEnds
    <3>1. HangUp /\ UNCHANGED proc
      BY <2>2 DEF ConnectionEnds
    <3>2. \A s : Main(s)' = Main(s)
      BY <3>1 DEF Main
    <3> QED
      BY <1>3, <2>0, <3>1, <3>2, ConnPrimed DEF ConnInv
  <2>3. ASSUME NEW s \in Servers, ServerStep(s)
        PROVE  ConnInv'
    <3>1. lpc = "loaded"
      <4>1. UnixTypes
        BY DEF UnixInv
      <4>2. Start(s) \/ Alive(s)
        BY <2>3, <4>1, Histories
      <4> QED
        BY <4>2 DEF Start, Alive, ConnInv
    <3>2. HangUp \/ UNCHANGED <<lines, sent>>
      BY <2>3 DEF ServerStep, Start, RemoveStale, Listen, AcceptFails, Signal, SignalUnlink, SignalClose, SignalExit,
                  DeferredClose, DeferredRemove, Kill, Connect, To, Ends, connVars
    <3> QED
      BY <1>3, <2>0, <3>1, <3>2, ConnPrimed DEF ConnInv
  <2> QED
    BY <1>4, <2>1, <2>2, <2>3 DEF UnixNext, ServerStep
<1>5. UNCHANGED unixVars \/ (UnixNext /\ UNCHANGED loadVars)
  BY DEF ServicesNext, allVars
<1> QED
  BY <1>2, <1>4, <1>5 DEF unixVars, connVars
-----------------------------------------------------------------------------
(* All that holds of the programs at once: what a loader has is in every part. *)
ServicesInv == LoadInv /\ ToolInv /\ HttpInv /\ McpInv /\ UnixInv /\ ConnInv

LEMMA ServicesInvariant == ServicesSpec => []ServicesInv
<1>1. ServicesInit => ServicesInv
  BY LoadInvInit, ToolInvInit, HttpInvInit, McpInvInit, InvInit, ConnInvInit DEF ServicesInv
<1>2. ServicesInv /\ [ServicesNext]_allVars => ServicesInv'
  BY LoadInvStep, ToolInvStep, HttpInvStep, McpInvStep, InvStep, ConnInvStep DEF ServicesInv
<1> QED
  BY <1>1, <1>2, PTL DEF ServicesSpec

(* A load without an error has every entry of the spec, and one with an error
   nothing or the entries of the lines before it (input.go:43-46). *)
THEOREM LoadCorrect == ServicesSpec => []LoadIsWhole
<1>1. ServicesInv => LoadIsWhole
  BY DEF ServicesInv, LoadInv
<1> QED
  BY <1>1, ServicesInvariant, PTL

(* Every result that any program gives is the one the text of the spec calls
   for, for any spec, query and order of lines. *)
THEOREM AnswersCorrect == ServicesSpec => []AnswersLongestMatch
<1>1. ServicesInv => AnswersLongestMatch
  <2> SUFFICES ASSUME ServicesInv PROVE AnswersLongestMatch
    OBVIOUS
  <2>1. \A r \in GivenTo(out) \cup GivenTo(answers) \cup GivenTo(sent) : RightResult(r)
    BY RightGiven DEF ServicesInv, ToolInv, HttpInv, ConnInv
  <2>2. \A i \in DOMAIN replies :
          "results" \in DOMAIN replies[i].body => \A r \in GivenTo(replies[i].body.results) : RightResult(r)
    BY RightGiven DEF ServicesInv, McpInv, ReplyRight
  <2> QED
    BY <2>1, <2>2 DEF AnswersLongestMatch
<1> QED
  BY <1>1, ServicesInvariant, PTL

(* -match prints the members among what it was asked, in order, and exits as
   grep does (cmd/cidr/main.go:123). *)
THEOREM MatchCorrect == ServicesSpec => []MatchStatus
<1>1. ServicesInv => MatchStatus
  BY DEF ServicesInv, ToolInv, MatchStatus, NonMembers
<1> QED
  BY <1>1, ServicesInvariant, PTL

(* A batch, a connection and the MCP server answer in order what is owed an
   answer, and nothing else. *)
THEOREM StreamsInOrder == ServicesSpec => []RepliesInOrder
<1>1. ServicesInv => RepliesInOrder
  BY DEF ServicesInv, HttpInv, McpInv, ConnInv, RepliesInOrder, Owed, Silent
<1> QED
  BY <1>1, ServicesInvariant, PTL

(* Whatever number of servers share the path and however often they are killed
   and started again: one that no other meets binds and is reached by clients
   until it is told to stop (example/unix/main.go:46), and only a killed one
   leaves its file. *)
THEOREM RestartCorrect == ServicesSpec => []RestartServes
<1>1. ServicesInv => RestartServes
  BY DEF ServicesInv, UnixInv, Undisturbed, LeftByKilled, RestartServes
<1> QED
  BY <1>1, ServicesInvariant, PTL
-----------------------------------------------------------------------------
(* The nomenclature: what is gathered of the rows, and what is written of it. *)

(* What is gathered of the rows of a country. *)
GatheredOf(rs, acc) ==
  /\ acc.gid \in {r.gid : r \in rs} /\ (acc.gid = 0 => \A r \in rs : r.gid = 0)
  /\ (acc.name = 0 <=> \A r \in rs : NameOf(r) = 0)
  /\ acc.eu \in BOOLEAN /\ (acc.eu <=> \E r \in rs : r.eu)
  /\ acc.continents = {r.continent : r \in rs} \ {0}

CodesOf(rs) == {r.code : r \in rs}

NomInv ==
  /\ npc \in {"countries", "continents", "write", "done", "failed"}
  /\ rows \in Seq(CountryRows)
  /\ DOMAIN accs = {rows[i].code : i \in 1 .. Len(rows)} \ {NoCode}
  /\ \A c \in DOMAIN accs : GatheredOf(RowsOf(c), accs[c])
  /\ DOMAIN conts \subseteq CodesOf(ContinentRows)
  /\ nomenclature.state = "new" => npc = "done"
  /\ nomenclature.continents \subseteq CodesOf(ContinentRows)
  /\ ContinentDecided

(* A row more, of a country that has rows and of one that has none. *)
LEMMA GatherIs ==
  ASSUME NEW rs \in SUBSET CountryRows, NEW row \in CountryRows, NEW acc,
         GatheredOf(rs, acc) \/ (rs = {} /\ acc = NewAcc)
  PROVE  GatheredOf(rs \cup {row}, Gather(acc, row))
<1>1. row.gid \in Nat /\ row.continent \in Nat /\ row.eu \in BOOLEAN
  BY CountryRowAssumption
<1>2. PICK g : g = Gather(acc, row)
  OBVIOUS
<1>3. /\ g.gid = (IF acc.gid = 0 THEN row.gid ELSE acc.gid)
      /\ g.name = (IF acc.name = 0 THEN NameOf(row) ELSE acc.name)
      /\ g.eu = (acc.eu \/ row.eu)
      /\ g.continents = acc.continents \cup ({row.continent} \ {0})
  BY <1>2 DEF Gather
<1>4. \A P : \A r \in rs \cup {row} : r \in rs \/ r = row
  OBVIOUS
<1>5. CASE GatheredOf(rs, acc)
  <2>1. g.gid \in {r.gid : r \in rs \cup {row}} /\ (g.gid = 0 => \A r \in rs \cup {row} : r.gid = 0)
    BY <1>3, <1>5 DEF GatheredOf
  <2>2. g.name = 0 <=> \A r \in rs \cup {row} : NameOf(r) = 0
    BY <1>3, <1>5 DEF GatheredOf
  <2>3. g.eu \in BOOLEAN /\ (g.eu <=> \E r \in rs \cup {row} : r.eu)
    BY <1>1, <1>3, <1>5 DEF GatheredOf
  <2>4. g.continents = {r.continent : r \in rs \cup {row}} \ {0}
    BY <1>3, <1>5 DEF GatheredOf
  <2> QED
    BY <1>2, <2>1, <2>2, <2>3, <2>4 DEF GatheredOf
<1>6. CASE rs = {} /\ acc = NewAcc
  <2>1. acc.gid = 0 /\ acc.name = 0 /\ acc.eu = FALSE /\ acc.continents = {}
    BY <1>6 DEF NewAcc
  <2>2. rs \cup {row} = {row}
    BY <1>6
  <2>3. g.gid = row.gid /\ g.name = NameOf(row) /\ g.eu = row.eu /\ g.continents = {row.continent} \ {0}
    BY <1>1, <1>3, <2>1
  <2>4. GatheredOf({row}, g)
    BY <1>1, <2>3 DEF GatheredOf
  <2> QED
    BY <1>2, <2>2, <2>4
<1> QED
  BY <1>5, <1>6

(* No row was read and nothing was written. *)
LEMMA NomInvInit ==
  ASSUME NomInit
  PROVE  NomInv
<1>1. /\ npc = "countries" /\ rows = <<>> /\ accs = <<>> /\ conts = <<>>
      /\ nomenclature.state = "old" /\ nomenclature.continents = {}
  BY DEF NomInit, NoFile
<1>2. DOMAIN accs = {} /\ DOMAIN conts = {} /\ 1 .. Len(rows) = {} /\ rows \in Seq(CountryRows)
  BY <1>1
<1> QED
  BY <1>1, <1>2 DEF NomInv, ContinentDecided

(* A row of a country is gathered with those the country had before. *)
LEMMA CountryRowStep ==
  ASSUME NomInv, NEW row \in CountryRows, CountryRow(row)
  PROVE  NomInv'
<1>1. /\ npc = "countries" /\ npc' = npc /\ conts' = conts /\ nomenclature' = nomenclature
      /\ rows' = Append(rows, row) /\ rows \in Seq(CountryRows)
      /\ accs' = IF row.code = NoCode THEN accs ELSE GatherInto(accs, row)
  BY DEF NomInv, CountryRow
<1>2. /\ rows' \in Seq(CountryRows) /\ Len(rows) \in Nat /\ Len(rows') = Len(rows) + 1
      /\ \A i \in 1 .. Len(rows) : rows'[i] = rows[i]
      /\ rows'[Len(rows) + 1] = row
  BY <1>1
<1>3. PICK n \in Nat : n = Len(rows)
  BY <1>2
<1>4. 1 .. Len(rows') = 1 .. n \cup {n + 1}
  BY <1>2, <1>3
<1>5. {rows'[i].code : i \in 1 .. Len(rows')} = {rows[i].code : i \in 1 .. Len(rows)} \cup {row.code}
  BY <1>2, <1>3, <1>4
<1>6. ASSUME NEW c PROVE RowsOf(c)' = RowsOf(c) \cup (IF row.code = c THEN {row} ELSE {})
  BY <1>2, <1>3, <1>4 DEF RowsOf
<1>7. ASSUME NEW c PROVE RowsOf(c) \in SUBSET CountryRows
  BY <1>1 DEF RowsOf
<1>8. DOMAIN accs' = {rows'[i].code : i \in 1 .. Len(rows')} \ {NoCode}
  <2>1. DOMAIN accs = {rows[i].code : i \in 1 .. Len(rows)} \ {NoCode}
    BY DEF NomInv
  <2>2. CASE row.code = NoCode
    BY <1>1, <1>5, <2>1, <2>2
  <2>3. CASE row.code # NoCode
    <3>1. DOMAIN accs' = DOMAIN accs \cup {row.code}
      BY <1>1, <2>3 DEF GatherInto
    <3> QED
      BY <1>5, <2>1, <2>3, <3>1
  <2> QED
    BY <2>2, <2>3
<1>9. ASSUME NEW c \in DOMAIN accs' PROVE GatheredOf(RowsOf(c)', accs'[c])
  <2>0. c # NoCode
    BY <1>8
  <2>1. CASE c # row.code
    <3>1. c \in DOMAIN accs /\ accs'[c] = accs[c]
      <4>1. CASE row.code = NoCode
        BY <1>1, <4>1
      <4>2. CASE row.code # NoCode
        BY <1>1, <2>1, <4>2 DEF GatherInto
      <4> QED
        BY <4>1, <4>2
    <3>2. RowsOf(c)' = RowsOf(c)
      BY <1>6, <2>1
    <3> QED
      BY <3>1, <3>2 DEF NomInv
  <2>2. CASE c = row.code
    <3>1. PICK acc : acc = IF c \in DOMAIN accs THEN accs[c] ELSE NewAcc
      OBVIOUS
    <3>2. accs'[c] = Gather(acc, row)
      BY <1>1, <2>0, <2>2, <3>1 DEF GatherInto
    <3>3. RowsOf(c)' = RowsOf(c) \cup {row}
      BY <1>6, <2>2
    <3>4. GatheredOf(RowsOf(c), acc) \/ (RowsOf(c) = {} /\ acc = NewAcc)
      <4>1. CASE c \in DOMAIN accs
        BY <3>1, <4>1 DEF NomInv
      <4>2. CASE c \notin DOMAIN accs
        <5>1. c \notin {rows[i].code : i \in 1 .. Len(rows)}
          BY <2>0, <4>2 DEF NomInv
        <5>2. DOMAIN rows = 1 .. Len(rows)
          BY <1>1
        <5>3. \A i \in DOMAIN rows : rows[i].code # c
          BY <5>1, <5>2
        <5>4. {j \in DOMAIN rows : rows[j].code = c} = {}
          BY <5>3
        <5>5. RowsOf(c) = {}
          BY <5>4 DEF RowsOf
        <5> QED
          BY <3>1, <4>2, <5>5
      <4> QED
        BY <4>1, <4>2
    <3>5. GatheredOf(RowsOf(c) \cup {row}, Gather(acc, row))
      BY <1>7, <3>4, GatherIs
    <3> QED
      BY <3>2, <3>3, <3>5
  <2> QED
    BY <2>1, <2>2
<1>10. nomenclature.state # "new" /\ nomenclature.continents \subseteq CodesOf(ContinentRows)
       /\ DOMAIN conts \subseteq CodesOf(ContinentRows)
  BY <1>1 DEF NomInv
<1>11. ContinentDecided'
  BY <1>1, <1>10 DEF ContinentDecided
<1> QED
  BY <1>1, <1>2, <1>8, <1>9, <1>10, <1>11 DEF NomInv, CodesOf

(* The rest of what is asked for each country, of the rows and of the continents
   in the file. *)
LEMMA ContinentIs ==
  ASSUME NEW c \in DOMAIN accs, NEW rs \in SUBSET CountryRows, GatheredOf(rs, accs[c]),
         NEW listed, listed = {r.continent : r \in rs} \ {0}
  PROVE  ContinentOf(c) = IF c \in DOMAIN Override THEN Override[c]
                          ELSE Min(IF listed # {} THEN listed
                                   ELSE {IF c \in DOMAIN Fallback THEN Fallback[c] ELSE 0})
<1>1. accs[c].continents = listed
  BY DEF GatheredOf
<1>2. \A x : Min({x}) = x
  BY DEF Min
<1>3. CASE c \in DOMAIN Override
  BY <1>3 DEF ContinentOf
<1>4. CASE c \notin DOMAIN Override /\ listed # {}
  BY <1>1, <1>4 DEF ContinentOf, pickContinent
<1>5. CASE c \notin DOMAIN Override /\ listed = {} /\ c \in DOMAIN Fallback
  <2>1. ContinentOf(c) = Fallback[c]
    BY <1>1, <1>5 DEF ContinentOf
  <2> QED
    BY <1>2, <1>5, <2>1
<1>6. CASE c \notin DOMAIN Override /\ listed = {} /\ c \notin DOMAIN Fallback
  <2>1. ContinentOf(c) = 0
    BY <1>1, <1>6 DEF ContinentOf
  <2> QED
    BY <1>2, <1>6, <2>1
<1> QED
  BY <1>3, <1>4, <1>5, <1>6

(* The nomenclature written is of the rows gathered. *)
LEMMA WriteStep ==
  ASSUME NomInv, WriteNomenclature
  PROVE  NomInv'
<1>1. /\ npc' = "done" /\ rows' = rows /\ accs' = accs /\ conts' = conts
      /\ nomenclature'.state = "new" /\ nomenclature'.continents = DOMAIN conts
      /\ DOMAIN nomenclature'.countries = DOMAIN accs
      /\ \A c \in DOMAIN accs :
           nomenclature'.countries[c] = [gid |-> accs[c].gid, name |-> accs[c].name,
                                         eu |-> accs[c].eu, continent |-> ContinentOf(c)]
  BY DEF WriteNomenclature
<1>2. rows \in Seq(CountryRows) /\ DOMAIN rows = 1 .. Len(rows)
  BY DEF NomInv
<1>3. DOMAIN nomenclature'.countries = {rows[i].code : i \in DOMAIN rows} \ {NoCode}
  BY <1>1, <1>2 DEF NomInv
<1>4. ASSUME NEW c \in DOMAIN accs PROVE Decided(c, nomenclature'.countries[c])
  <2>0. GatheredOf(RowsOf(c), accs[c])
    BY DEF NomInv
  <2>1. GatheredOf(RowsOf(c), accs[c]) /\ RowsOf(c) \in SUBSET CountryRows
    BY <1>2, <2>0 DEF RowsOf
  <2>2. PICK ci : ci = nomenclature'.countries[c]
    OBVIOUS
  <2>3. ci = [gid |-> accs[c].gid, name |-> accs[c].name, eu |-> accs[c].eu, continent |-> ContinentOf(c)]
    BY <1>1, <2>2
  <2>4. ci.eu = accs[c].eu /\ ci.gid = accs[c].gid /\ ci.name = accs[c].name /\ ci.continent = ContinentOf(c)
    BY <2>3
  <2>5. PICK listed : listed = {r.continent : r \in RowsOf(c)} \ {0}
    OBVIOUS
  <2>6. ci.continent = IF c \in DOMAIN Override THEN Override[c]
                       ELSE Min(IF listed # {} THEN listed
                                ELSE {IF c \in DOMAIN Fallback THEN Fallback[c] ELSE 0})
    BY <2>1, <2>4, <2>5, ContinentIs
  <2>7. /\ ci.eu = \E r \in RowsOf(c) : r.eu
        /\ ci.gid \in {r.gid : r \in RowsOf(c)} /\ (ci.gid = 0 => \A r \in RowsOf(c) : r.gid = 0)
        /\ (ci.name = 0 <=> \A r \in RowsOf(c) : NameOf(r) = 0)
    BY <2>1, <2>4 DEF GatheredOf
  <2>8. Decided(c, ci)
    BY <2>5, <2>6, <2>7 DEF Decided
  <2> QED
    BY <2>2, <2>8
<1>7. \A c : RowsOf(c)' = RowsOf(c)
  BY <1>1 DEF RowsOf
<1>5. ContinentDecided'
  <2>1. \A c, ci : Decided(c, ci)' <=> Decided(c, ci)
    BY <1>7 DEF Decided, NameOf
  <2> QED
    BY <1>1, <1>3, <1>4, <2>1 DEF ContinentDecided
<1>6. nomenclature'.continents \subseteq CodesOf(ContinentRows) /\ DOMAIN conts \subseteq CodesOf(ContinentRows)
  BY <1>1 DEF NomInv
<1>8. DOMAIN accs' = {rows'[i].code : i \in 1 .. Len(rows')} \ {NoCode}
      /\ \A c \in DOMAIN accs' : GatheredOf(RowsOf(c)', accs'[c])
  BY <1>1, <1>7 DEF NomInv
<1> QED
  BY <1>1, <1>2, <1>5, <1>6, <1>8 DEF NomInv, CodesOf

(* The rest of the build leaves the rows and what is gathered of them. *)
LEMMA NomInvKept ==
  ASSUME NomInv, rows' = rows, accs' = accs, DOMAIN conts' \subseteq CodesOf(ContinentRows),
         npc' \in {"countries", "continents", "write", "done", "failed"},
         \/ nomenclature' = nomenclature /\ (npc = "done" => npc' = "done")
         \/ nomenclature'.state # "new" /\ nomenclature'.continents = {}
  PROVE  NomInv'
<1>1. \A c : RowsOf(c)' = RowsOf(c)
  BY DEF RowsOf
<1>2. DOMAIN accs' = {rows'[i].code : i \in 1 .. Len(rows')} \ {NoCode}
      /\ \A c \in DOMAIN accs' : GatheredOf(RowsOf(c)', accs'[c])
  BY <1>1 DEF NomInv
<1>3. ContinentDecided'
  <2>1. CASE nomenclature' = nomenclature
    <3>1. \A c, ci : Decided(c, ci)' <=> Decided(c, ci)
      BY <1>1 DEF Decided, NameOf
    <3> QED
      BY <2>1, <3>1 DEF NomInv, ContinentDecided
  <2>2. CASE nomenclature'.state # "new"
    BY <2>2 DEF ContinentDecided
  <2> QED
    BY <2>1, <2>2
<1>4. (nomenclature'.state = "new" => npc' = "done") /\ nomenclature'.continents \subseteq CodesOf(ContinentRows)
  BY DEF NomInv
<1> QED
  BY <1>2, <1>3, <1>4 DEF NomInv, CodesOf

(* Every step keeps the invariant, those of the other programs too. *)
LEMMA NomInvStep ==
  ASSUME NomInv, [Next]_vars
  PROVE  NomInv'
<1>1. ASSUME NEW row \in CountryRows, CountryRow(row) PROVE NomInv'
  BY <1>1, CountryRowStep
<1>2. ASSUME NEW row \in ContinentRows, ContinentRow(row) PROVE NomInv'
  <2>1. rows' = rows /\ accs' = accs /\ npc' = npc /\ nomenclature' = nomenclature
        /\ conts' = IF row.code = NoCode THEN conts ELSE GatherInto(conts, row)
    BY <1>2 DEF ContinentRow
  <2>2. DOMAIN conts' \subseteq CodesOf(ContinentRows)
    <3>1. DOMAIN conts' \subseteq DOMAIN conts \cup {row.code}
      BY <2>1 DEF GatherInto
    <3> QED
      BY <3>1 DEF NomInv, CodesOf
  <2>3. npc' \in {"countries", "continents", "write", "done", "failed"}
    BY <2>1 DEF NomInv
  <2> QED
    BY <2>1, <2>2, <2>3, NomInvKept
<1>3. CASE CountriesEnd \/ ContinentsEnd \/ FetchFails
  <2>1. /\ rows' = rows /\ accs' = accs /\ conts' = conts /\ nomenclature' = nomenclature
        /\ npc # "done" /\ npc' \in {"continents", "write", "failed"}
    BY <1>3 DEF CountriesEnd, ContinentsEnd, FetchFails
  <2>2. DOMAIN conts' \subseteq CodesOf(ContinentRows)
    BY <2>1 DEF NomInv
  <2> QED
    BY <2>1, <2>2, NomInvKept
<1>4. CASE WriteNomenclature
  BY <1>4, WriteStep
<1>5. CASE WriteNomenclatureFails
  <2>1. (nomenclature' = nomenclature /\ npc # "done") \/ (nomenclature'.state # "new" /\ nomenclature'.continents = {})
    BY <1>5 DEF WriteNomenclatureFails, NoFile
  <2>2. rows' = rows /\ accs' = accs /\ conts' = conts /\ npc' = "failed"
    BY <1>5 DEF WriteNomenclatureFails
  <2>3. DOMAIN conts' \subseteq CodesOf(ContinentRows)
    BY <2>2 DEF NomInv
  <2> QED
    BY <2>1, <2>2, <2>3, NomInvKept
<1>6. CASE Embed
  <2>1. /\ rows' = <<>> /\ accs' = <<>> /\ conts' = <<>> /\ npc' = npc
        /\ nomenclature'.state = "old" /\ nomenclature'.continents = {}
    BY <1>6 DEF Embed, NoFile
  <2>2. DOMAIN accs' = {} /\ DOMAIN conts' = {} /\ 1 .. Len(rows') = {} /\ rows' \in Seq(CountryRows)
    BY <2>1
  <2> QED
    BY <2>1, <2>2 DEF NomInv, ContinentDecided
<1>7. CASE UNCHANGED nomVars
  <2>1. rows' = rows /\ accs' = accs /\ conts' = conts /\ npc' = npc /\ nomenclature' = nomenclature
    BY <1>7 DEF nomVars
  <2>2. DOMAIN conts' \subseteq CodesOf(ContinentRows) /\ npc' \in {"countries", "continents", "write", "done", "failed"}
    BY <2>1 DEF NomInv
  <2> QED
    BY <2>1, <2>2, NomInvKept
<1> QED
  BY <1>1, <1>2, <1>3, <1>4, <1>5, <1>6, <1>7 DEF Next, NomNext, vars

(* The nomenclature says of every country what its rows say. *)
THEOREM ContinentCorrect == Spec => []ContinentDecided
<1>1. Init => NomInv
  BY NomInvInit DEF Init
<1>2. NomInv /\ [Next]_vars => NomInv'
  BY NomInvStep
<1>3. NomInv => ContinentDecided
  BY DEF NomInv
<1> QED
  BY <1>1, <1>2, <1>3, PTL DEF Spec
-----------------------------------------------------------------------------
(* mmdb-write: what is left in the tree is what the last entry over an
   address says. *)

(* The positions, up to n, whose entries reach an address of the tree, and what
   the last of them leaves there. *)
Reach(a, n) == {i \in 1 .. n : ~Skipped(spec[i]) /\ ~Aliased(spec[i]) /\ a \in Under(spec[i])}
Last(a, n) == IF Reach(a, n) = {} THEN NoData ELSE Record(spec[Max(Reach(a, n))])

InAlias(a) == \E b \in Aliases : a \in AliasBlock(b)

SpecRead == spec \in Specs /\ spec # <<>>

WriteInv ==
  /\ wpc \in {"idle", "read", "create", "insert", "done", "failed"}
  /\ version \in {4, 6} /\ country \in BOOLEAN
  /\ embedded.continents \subseteq CodesOf(ContinentRows)
  /\ (life = "foreign" => wpc = "idle")
  /\ (wpc \in {"idle", "read"} => at = 0 /\ db.state = "old")
  /\ (wpc = "create" => at = 0 /\ SpecRead /\ db.state = "old")
  /\ (wpc = "insert" =>
        /\ SpecRead /\ at \in 0 .. Len(spec) /\ db.state = "partial"
        /\ DOMAIN tree = Space(version)
        /\ \A a \in Space(version) : ~InAlias(a) => tree[a] = Last(a, at))
  /\ (wpc = "failed" => db.state \in {"old", "partial"} /\ (db.state # "old" => SpecRead))
  /\ (wpc = "done" =>
        /\ SpecRead /\ db.state = "new" /\ db.version = version
        /\ DOMAIN db.tree = Space(version)
        /\ \A a \in Space(version) : db.tree[a] = Last(Base(a), Len(spec)))

(* The addresses of the two families, and the aliases among them. *)
LEMMA AddrFacts ==
  /\ V4!TopAddr \in Nat /\ V6!TopAddr \in Nat /\ V4!TopAddr <= V6!TopAddr
  /\ V4!Addr = 0 .. V4!TopAddr /\ V6!Addr = 0 .. V6!TopAddr
  /\ V4!TopAddr = 2^W4 - 1 /\ V6!TopAddr = 2^W6 - 1
<1>1. 2^W4 \in Nat \ {0} /\ 2^W6 \in Nat \ {0}
  BY WidthAssumption, PowerAssumption
<1>2. /\ V4!TopAddr = 2^W4 - 1 /\ V6!TopAddr = 2^W6 - 1
      /\ V4!Addr = 0 .. V4!TopAddr /\ V6!Addr = 0 .. V6!TopAddr
  BY DEF V4!TopAddr, V6!TopAddr, V4!Addr, V6!Addr
<1>3. V4!TopAddr \in Nat /\ V6!TopAddr \in Nat
  BY <1>1, <1>2
<1>4. Mapped \in Nat /\ Mapped + V4!TopAddr \in V6!Addr
  BY <1>2, <1>3, MappedAssumption DEF MappedBlock
<1> QED
  BY <1>2, <1>3, <1>4

(* An alias has as many addresses for each IPv4 address as bits behind it say. *)
LEMMA AliasIs ==
  ASSUME NEW b \in Aliases, NEW u, u = 2^(W6 - b.length - W4)
  PROVE  /\ u \in Nat \ {0} /\ b.lo \in Nat /\ b.lo > V4!TopAddr
         /\ b.hi = b.lo + 2^W4 * u - 1
<1>1. b \in V6!AllPrefixes /\ V4!TopAddr < b.lo /\ b.length + W4 <= W6
  BY AliasAssumption
<1>2. PICK x \in V6!Addr, n \in 0 .. W6 : b = V6!Prefix(x, n)
  BY <1>1 DEF V6!AllPrefixes
<1>3. b.lo = V6!Masked(x, n) /\ b.hi = b.lo + (2^(W6 - n) - 1) /\ b.length = n
  BY <1>2 DEF V6!Prefix, V6!lastAddr, V6!lowMask
<1>4. W4 \in Nat /\ W6 \in Nat /\ n \in Nat
  BY WidthAssumption
<1>5. PICK j : j = W6 - n /\ j \in 0 .. W6 /\ W4 \in 0 .. j /\ j - W4 = W6 - n - W4 /\ j - W4 \in 0 .. W6
  BY <1>1, <1>3, <1>4
<1>6. 2^j = 2^W4 * 2^(j - W4)
  BY <1>5, TreeAssumption
<1>7. 2^j \in Nat \ {0} /\ 2^(j - W4) \in Nat \ {0}
  BY <1>4, <1>5, PowerAssumption
<1>8. u = 2^(j - W4)
  BY <1>3, <1>5
<1>9. b.lo \in Nat
  <2>1. x \in Nat
    BY <1>2, AddrFacts
  <2>2. PICK m \in Nat \ {0} : m = 2^j
    BY <1>7
  <2>3. x - (x % m) \in Nat
    <3>1. PICK y \in Nat : y = x
      BY <2>1
    <3>2. y - (y % m) \in 0 .. y
      BY <2>2, BlockStart
    <3>3. y - (y % m) \in Nat
      BY <3>1, <3>2
    <3> QED
      BY <3>1, <3>3
  <2>4. b.lo = x - (x % m)
    BY <1>3, <1>5, <2>2 DEF V6!Masked
  <2> QED
    BY <2>3, <2>4
<1>10. b.hi = b.lo + 2^W4 * u - 1
  <2>1. PICK m \in Nat : m = 2^j /\ m = 2^W4 * u
    BY <1>6, <1>7, <1>8
  <2>2. b.hi = b.lo + (m - 1)
    BY <1>3, <1>5, <2>1
  <2>3. b.hi = b.lo + m - 1
    BY <1>9, <2>1, <2>2
  <2> QED
    BY <2>1, <2>3
<1> QED
  BY <1>1, <1>7, <1>8, <1>9, <1>10, AddrFacts

(* The address an alias leads to is an IPv4 address, and no alias. *)
LEMMA BaseFacts ==
  ASSUME NEW a \in Nat
  PROVE  /\ InAlias(a) => a > V4!TopAddr
         /\ ~InAlias(a) \/ version # 6 => Base(a) = a
         /\ InAlias(a) /\ version = 6 => Base(a) \in V4!Addr /\ Base(a) # a
<1>1. InAlias(a) => a > V4!TopAddr
  <2> SUFFICES ASSUME NEW b \in Aliases, a \in AliasBlock(b) PROVE a > V4!TopAddr
    BY DEF InAlias
  <2>1. b.lo \in Nat /\ b.lo > V4!TopAddr
    BY AliasIs
  <2> QED
    BY <2>1, AddrFacts DEF AliasBlock
<1>2. ASSUME InAlias(a), version = 6 PROVE Base(a) \in V4!Addr /\ Base(a) # a
  <2>1. PICK b : b = CHOOSE c \in Aliases : a \in AliasBlock(c)
    OBVIOUS
  <2>2. b \in Aliases /\ a \in AliasBlock(b)
    BY <1>2, <2>1 DEF InAlias
  <2>3. PICK u : u = 2^(W6 - b.length - W4)
    OBVIOUS
  <2>4. Base(a) = (a - b.lo) \div u
    BY <1>2, <2>1, <2>3 DEF InAlias, Base
  <2>5. u \in Nat \ {0} /\ b.lo \in Nat /\ b.hi = b.lo + 2^W4 * u - 1
    BY <2>2, <2>3, AliasIs
  <2>6. PICK N \in Nat : N = 2^W4 /\ V4!TopAddr = N - 1
    BY AddrFacts, WidthAssumption, PowerAssumption
  <2>7. PICK x \in Nat, m \in Nat : x = a - b.lo /\ m = N * u /\ x <= m - 1
    <3>1. PICK m \in Nat : m = N * u
      BY <2>5, <2>6
    <3>2. a \in b.lo .. b.lo + m - 1
      BY <2>2, <2>5, <2>6, <3>1 DEF AliasBlock
    <3> QED
      BY <2>5, <3>1, <3>2
  <2>8. PICK q \in Nat : q = x \div u
    BY <2>5, Division
  <2>9. PICK n \in Nat : n = q * u /\ n <= x
    <3>1. PICK n \in Nat : n = q * u
      BY <2>5
    <3>2. PICK r : r = x % u
      OBVIOUS
    <3>3. x = n + r /\ r \in Nat
      BY <2>5, <2>8, <3>1, <3>2, Division
    <3> QED
      BY <3>1, <3>3
  <2>10. q < N
    <3> SUFFICES ASSUME N <= q PROVE FALSE
      OBVIOUS
    <3>1. PICK d \in Nat : q = N + d
      <4>1. q - N \in Nat /\ q = N + (q - N)
        OBVIOUS
      <4> QED
        BY <4>1
    <3>2. PICK k \in Nat : k = d * u
      BY <2>5
    <3>3. n = m + k
      BY <2>5, <2>7, <2>9, <3>1, <3>2
    <3> QED
      BY <2>7, <2>9, <3>2, <3>3
  <2>11. Base(a) = q /\ q <= V4!TopAddr
    BY <2>4, <2>6, <2>7, <2>8, <2>10
  <2> QED
    BY <1>1, <1>2, <2>11, AddrFacts
<1>3. ~InAlias(a) \/ version # 6 => Base(a) = a
  BY DEF InAlias, Base
<1> QED
  BY <1>1, <1>2, <1>3

(* The entries of a spec are what the assumption on them says. *)
LEMMA SpecFacts ==
  ASSUME NEW sp \in Specs
  PROVE  /\ Len(sp) \in Nat /\ DOMAIN sp = 1 .. Len(sp)
         /\ \A i \in 1 .. Len(sp) :
              /\ sp[i].v4 \in BOOLEAN /\ sp[i].lo \in Nat /\ sp[i].hi \in Nat /\ sp[i].length \in Nat
              /\ sp[i].v4 => sp[i].hi <= V4!TopAddr
<1>1. Len(sp) \in Nat /\ DOMAIN sp = 1 .. Len(sp)
  BY EntryAssumption
<1>2. ASSUME NEW i \in 1 .. Len(sp)
      PROVE  /\ sp[i].v4 \in BOOLEAN /\ sp[i].lo \in Nat /\ sp[i].hi \in Nat /\ sp[i].length \in Nat
             /\ sp[i].v4 => sp[i].hi <= V4!TopAddr
  <2>1. /\ sp[i].v4 \in BOOLEAN /\ sp[i].length \in Nat
        /\ sp[i].lo \in Nat /\ sp[i].hi \in IF sp[i].v4 THEN V4!Addr ELSE V6!Addr
    BY EntryAssumption
  <2> QED
    BY <2>1, AddrFacts
<1> QED
  BY <1>1, <1>2

(* One entry more reaches the address, or not. *)
LEMMA ReachNext ==
  ASSUME SpecRead, NEW n \in 0 .. Len(spec) - 1, NEW a, NEW e, e = spec[n + 1]
  PROVE  /\ ~Skipped(e) /\ ~Aliased(e) /\ a \in Under(e) => Last(a, n + 1) = Record(e)
         /\ ~(~Skipped(e) /\ ~Aliased(e) /\ a \in Under(e)) => Last(a, n + 1) = Last(a, n)
<1>1. Len(spec) \in Nat
  BY SpecFacts DEF SpecRead
<1>2. n \in Nat /\ 1 .. n + 1 = 1 .. n \cup {n + 1}
  BY <1>1
<1>3. Reach(a, n) \subseteq 1 .. n /\ n + 1 \notin 1 .. n
  BY <1>2 DEF Reach
<1>4. Reach(a, n + 1) = Reach(a, n) \cup
        (IF ~Skipped(e) /\ ~Aliased(e) /\ a \in Under(e) THEN {n + 1} ELSE {})
  BY <1>2 DEF Reach
<1>5. ASSUME ~Skipped(e), ~Aliased(e), a \in Under(e) PROVE Last(a, n + 1) = Record(e)
  <2>1. PICK R : R = Reach(a, n + 1)
    OBVIOUS
  <2>2. R \in SUBSET Int /\ n + 1 \in R /\ \A x \in R : n + 1 >= x
    BY <1>2, <1>3, <1>4, <1>5, <2>1
  <2>3. Max(R) = n + 1
    BY <1>2, <2>2, MaxIs
  <2>4. R # {}
    BY <2>2
  <2> QED
    BY <2>1, <2>3, <2>4 DEF Last
<1>6. ASSUME ~(~Skipped(e) /\ ~Aliased(e) /\ a \in Under(e)) PROVE Last(a, n + 1) = Last(a, n)
  <2>1. Reach(a, n + 1) = Reach(a, n)
    BY <1>4, <1>6
  <2> QED
    BY <2>1 DEF Last
<1> QED
  BY <1>5, <1>6

(* What the last entry leaves depends on what the entries are read with. *)
LEMMA LastKept ==
  ASSUME UNCHANGED <<country, embedded, version, spec>>
  PROVE  /\ \A a, n : Last(a, n)' = Last(a, n)
         /\ \A a : Base(a)' = Base(a) /\ (SpecRead' <=> SpecRead)
<1>1. \A e : (Skipped(e)' <=> Skipped(e)) /\ (Aliased(e)' <=> Aliased(e)) /\ Record(e)' = Record(e) /\ Under(e)' = Under(e)
  BY DEF Skipped, Aliased, Record, Under, AliasBlock
<1>2. \A a, n : Reach(a, n)' = Reach(a, n)
  BY <1>1 DEF Reach
<1>3. \A a, n : Last(a, n)' = Last(a, n)
  BY <1>1, <1>2 DEF Last
<1>4. \A a : Base(a)' = Base(a)
  BY DEF Base, AliasBlock
<1> QED
  BY <1>3, <1>4 DEF SpecRead

(* mmdb-write has not begun. *)
LEMMA WriteInvInit ==
  ASSUME Init
  PROVE  WriteInv
<1>1. /\ life \in {"country", "asn", "foreign"} /\ country = (life = "country")
      /\ wpc = (IF life = "asn" THEN "read" ELSE "idle")
      /\ version \in Versions /\ at = 0 /\ db.state = "old" /\ embedded.continents = {}
  BY DEF Init, WriteInit, OldDb
<1>2. version \in {4, 6}
  BY <1>1, VersionAssumption
<1> QED
  BY <1>1, <1>2 DEF WriteInv

(* mmdb-write starts with the nomenclature of the first program. *)
LEMMA EmbedStep ==
  ASSUME WriteInv, NomInv, Embed, UNCHANGED life
  PROVE  WriteInv'
<1>1. /\ life = "country" /\ wpc = "idle" /\ wpc' = "read"
      /\ embedded'.continents = nomenclature.continents
      /\ UNCHANGED <<country, version, spec, at, tree, db, life>>
  BY DEF Embed
<1>2. embedded'.continents \subseteq CodesOf(ContinentRows)
  BY <1>1 DEF NomInv
<1>3. at' = 0 /\ db'.state = "old" /\ version' \in {4, 6} /\ country' \in BOOLEAN
  BY <1>1 DEF WriteInv
<1> QED
  BY <1>1, <1>2, <1>3 DEF WriteInv, CodesOf

(* One entry: the tree has what the last of one more leaves. *)
LEMMA InsertStep ==
  ASSUME WriteInv, Insert, UNCHANGED life
  PROVE  WriteInv'
<1>1. /\ wpc = "insert" /\ at < Len(spec) /\ at' = at + 1
      /\ UNCHANGED <<country, embedded, version, spec, db>>
  BY DEF Insert
<1>2. PICK e : e = spec[at + 1]
  OBVIOUS
<1>3. /\ SpecRead /\ at \in 0 .. Len(spec) /\ db.state = "partial" /\ DOMAIN tree = Space(version)
      /\ \A a \in Space(version) : ~InAlias(a) => tree[a] = Last(a, at)
      /\ version \in {4, 6} /\ country \in BOOLEAN
      /\ embedded.continents \subseteq CodesOf(ContinentRows) /\ life # "foreign"
  BY <1>1 DEF WriteInv
<1>4. Len(spec) \in Nat
  BY <1>3, SpecFacts DEF SpecRead
<1>5. at \in Nat /\ at + 1 \in 0 .. Len(spec) /\ at \in 0 .. Len(spec) - 1
  BY <1>1, <1>3, <1>4
<1>6. /\ \A a, n : Last(a, n)' = Last(a, n)
      /\ SpecRead'
  BY <1>1, <1>3, LastKept
<1>7. CASE wpc' = "failed"
  BY <1>1, <1>3, <1>6, <1>7 DEF WriteInv, CodesOf
<1>8. CASE wpc' # "failed"
  <2>1. /\ wpc' = "insert"
        /\ \/ (Skipped(e) \/ Aliased(e)) /\ tree' = tree
           \/ ~Skipped(e) /\ ~Aliased(e) /\ tree' = Inserted(e)
    BY <1>1, <1>2, <1>8 DEF Insert
  <2>2. DOMAIN tree' = Space(version)
    BY <1>3, <2>1 DEF Inserted
  <2>3. ASSUME NEW a \in Space(version), ~InAlias(a) PROVE tree'[a] = Last(a, at + 1)
    <3>1. tree[a] = Last(a, at)
      BY <1>3, <2>3
    <3>2. CASE (Skipped(e) \/ Aliased(e)) /\ tree' = tree
      BY <1>2, <1>3, <1>5, <3>1, <3>2, ReachNext
    <3>3. CASE ~Skipped(e) /\ ~Aliased(e) /\ tree' = Inserted(e)
      <4>1. a \notin UNION {AliasBlock(b) : b \in Aliases}
        BY <2>3 DEF InAlias
      <4>2. tree'[a] = IF a \in Under(e) THEN Record(e) ELSE tree[a]
        BY <1>3, <3>3, <4>1 DEF Inserted
      <4> QED
        BY <1>2, <1>3, <1>5, <3>1, <3>3, <4>2, ReachNext
    <3> QED
      BY <2>1, <3>2, <3>3
  <2>4. \A a \in Space(version)' : ~InAlias(a)' => tree'[a] = Last(a, at)'
    <3>1. Space(version)' = Space(version) /\ \A a : InAlias(a)' <=> InAlias(a)
      BY <1>1 DEF Space, InAlias, AliasBlock
    <3>2. \A a : Last(a, at)' = Last(a, at + 1)
      BY <1>1, <1>6
    <3> QED
      BY <2>3, <3>1, <3>2
  <2>5. DOMAIN tree' = Space(version)' /\ db'.state = "partial"
    BY <1>1, <1>3, <2>2 DEF Space
  <2>6. (at \in 0 .. Len(spec))'
    BY <1>1, <1>5
  <2> QED
    BY <1>1, <1>3, <1>6, <2>1, <2>4, <2>5, <2>6 DEF WriteInv, CodesOf
<1> QED
  BY <1>7, <1>8

(* An alias is filled with what the tree has at its IPv4 address. *)
LEMMA WriteToStep ==
  ASSUME WriteInv, WriteTo, UNCHANGED life
  PROVE  WriteInv'
<1>1. /\ wpc = "insert" /\ at = Len(spec) /\ wpc' = "done"
      /\ UNCHANGED <<country, embedded, version, spec, at, tree>>
  BY DEF WriteTo
<1>2. /\ SpecRead /\ DOMAIN tree = Space(version)
      /\ \A a \in Space(version) : ~InAlias(a) => tree[a] = Last(a, Len(spec))
      /\ version \in {4, 6} /\ country \in BOOLEAN
      /\ embedded.continents \subseteq CodesOf(ContinentRows) /\ life # "foreign"
  BY <1>1 DEF WriteInv
<1>3. \A a : Space(version) \subseteq Nat /\ (a \in V4!Addr => a \in Space(version) /\ a \in Nat /\ a <= V4!TopAddr)
  BY <1>2, AddrFacts DEF Space
<1>4. /\ db'.state = "new" /\ db'.version = version /\ DOMAIN db'.tree = Space(version)
      /\ \A a \in Space(version) : db'.tree[a] = tree[Base(a)]
  <2>1. PICK t : t = [a \in DOMAIN tree |-> tree[Base(a)]]
    OBVIOUS
  <2>2. db' = [state |-> "new", version |-> version, tree |-> t]
    BY <2>1 DEF WriteTo
  <2>3. DOMAIN t = Space(version) /\ \A a \in Space(version) : t[a] = tree[Base(a)]
    BY <1>2, <2>1
  <2> QED
    BY <2>2, <2>3
<1>5. ASSUME NEW a \in Space(version) PROVE db'.tree[a] = Last(Base(a), Len(spec))
  <2>1. a \in Nat
    BY <1>3
  <2>2. Base(a) \in Space(version) /\ ~InAlias(Base(a))
    <3>1. CASE InAlias(a) /\ version = 6
      <4>1. Base(a) \in V4!Addr
        BY <2>1, <3>1, BaseFacts
      <4>2. Base(a) \in Nat /\ Base(a) <= V4!TopAddr /\ V4!TopAddr \in Nat /\ Base(a) \in Space(version)
        BY <1>3, <4>1, AddrFacts
      <4>3. PICK c \in Nat : c = Base(a)
        BY <4>2
      <4>4. InAlias(c) => c > V4!TopAddr
        BY <4>3, BaseFacts
      <4> QED
        BY <4>2, <4>3, <4>4
    <3>2. CASE version = 4
      <4>1. Base(a) = a
        BY <2>1, <3>2, BaseFacts
      <4>2. a <= V4!TopAddr /\ V4!TopAddr \in Nat
        BY <3>2, AddrFacts DEF Space
      <4> QED
        BY <2>1, <4>1, <4>2, BaseFacts
    <3>3. CASE ~InAlias(a)
      BY <2>1, <3>3, BaseFacts
    <3> QED
      BY <1>2, <3>1, <3>2, <3>3
  <2> QED
    BY <1>2, <1>4, <2>2
<1>6. \A a \in Space(version)' : db'.tree[a] = (Last(Base(a), Len(spec)))'
  <2>1. \A a : Last(Base(a), Len(spec))' = Last(Base(a), Len(spec))
    BY <1>1, LastKept
  <2>2. Space(version)' = Space(version)
    BY <1>1 DEF Space
  <2> QED
    BY <1>5, <2>1, <2>2
<1>7. SpecRead' /\ DOMAIN db'.tree = Space(version)' /\ db'.version = version'
  BY <1>1, <1>2, <1>4 DEF Space, SpecRead
<1> QED
  BY <1>1, <1>2, <1>4, <1>6, <1>7 DEF WriteInv, CodesOf

(* Every step keeps the invariant; the reader changes nothing of it. *)
LEMMA WriteInvStep ==
  ASSUME WriteInv, NomInv, [Next]_vars
  PROVE  WriteInv'
<1>0. UNCHANGED life
  BY DEF Next, vars
<1>1. CASE ReadSpec
  <2>1. /\ wpc = "read" /\ spec' \in Specs /\ wpc' = (IF spec' = <<>> THEN "failed" ELSE "create")
        /\ UNCHANGED <<country, embedded, version, at, tree, db>>
    BY <1>1 DEF ReadSpec
  <2>2. at' = 0 /\ db'.state = "old" /\ version' \in {4, 6} /\ country' \in BOOLEAN
        /\ embedded'.continents \subseteq CodesOf(ContinentRows) /\ life' # "foreign"
    BY <1>0, <2>1 DEF WriteInv
  <2>3. wpc' = "create" => SpecRead'
    BY <2>1 DEF SpecRead
  <2> QED
    BY <2>1, <2>2, <2>3 DEF WriteInv, CodesOf
<1>2. CASE ReadSpecFails
  BY <1>0, <1>2 DEF ReadSpecFails, WriteInv, CodesOf
<1>3. CASE Create
  <2>1. /\ wpc = "create" /\ UNCHANGED <<country, embedded, version, spec, at>>
        /\ \/ wpc' = "insert" /\ db' = PartialDb /\ tree' = [a \in Space(version) |-> NoData]
           \/ wpc' = "failed" /\ db' \in {db, PartialDb}
    BY <1>3 DEF Create
  <2>2. SpecRead /\ at = 0 /\ db.state = "old" /\ version \in {4, 6} /\ country \in BOOLEAN
        /\ embedded.continents \subseteq CodesOf(ContinentRows) /\ life # "foreign"
    BY <2>1 DEF WriteInv
  <2>3. SpecRead' /\ PartialDb.state = "partial" /\ Space(version)' = Space(version)
    BY <2>1, <2>2 DEF SpecRead, PartialDb, OldDb, Space
  <2>4. CASE wpc' = "failed" /\ db' \in {db, PartialDb}
    BY <1>0, <2>1, <2>2, <2>3, <2>4 DEF WriteInv, CodesOf
  <2>5. CASE wpc' = "insert" /\ db' = PartialDb /\ tree' = [a \in Space(version) |-> NoData]
    <3>1. \A a : (Last(a, at))' = NoData
      <4>1. 1 .. at' = {}
        BY <2>1, <2>2
      <4>2. \A a : Reach(a, at)' = {}
        BY <4>1 DEF Reach
      <4> QED
        BY <4>2 DEF Last
    <3>2. \A a \in Space(version)' : tree'[a] = NoData
      BY <2>3, <2>5
    <3>3. \A a \in Space(version)' : ~InAlias(a)' => tree'[a] = (Last(a, at))'
      BY <3>1, <3>2
    <3>4. DOMAIN tree' = Space(version)'
      BY <2>3, <2>5
    <3>5. (at \in 0 .. Len(spec))'
      <4>1. Len(spec) \in Nat
        BY <2>2, SpecFacts DEF SpecRead
      <4> QED
        BY <2>1, <2>2, <4>1
    <3> QED
      BY <1>0, <2>1, <2>2, <2>3, <2>5, <3>3, <3>4, <3>5 DEF WriteInv, CodesOf
  <2> QED
    BY <2>1, <2>4, <2>5
<1>4. CASE Insert
  BY <1>0, <1>4, InsertStep
<1>5. CASE WriteTo
  BY <1>0, <1>5, WriteToStep
<1>6. CASE WriteToFails
  BY <1>0, <1>6 DEF WriteToFails, WriteInv, CodesOf, SpecRead
<1>7. CASE Embed
  BY <1>0, <1>7, EmbedStep
<1>8. CASE UNCHANGED writeVars
  <2>1. UNCHANGED <<wpc, country, embedded, version, spec, at, tree, db>>
    BY <1>8 DEF writeVars
  <2>2. /\ \A a, n : Last(a, n)' = Last(a, n)
        /\ \A a : Base(a)' = Base(a) /\ (SpecRead' <=> SpecRead)
    BY <2>1, LastKept
  <2>3. Space(version)' = Space(version) /\ \A a : InAlias(a)' <=> InAlias(a)
    BY <2>1 DEF Space, InAlias, AliasBlock
  <2>4. \A a : Last(Base(a), Len(spec))' = Last(Base(a), Len(spec))
    BY <2>1, LastKept
  <2>5. wpc' = "insert" => \A a \in Space(version)' : ~InAlias(a)' => tree'[a] = (Last(a, at))'
    BY <2>1, <2>2, <2>3 DEF WriteInv
  <2>6. wpc' = "done" => \A a \in Space(version)' : db'.tree[a] = (Last(Base(a), Len(spec)))'
    BY <2>1, <2>3, <2>4 DEF WriteInv
  <2> QED
    BY <1>0, <2>1, <2>2, <2>3, <2>5, <2>6 DEF WriteInv, CodesOf
<1> QED
  BY <1>1, <1>2, <1>3, <1>4, <1>5, <1>6, <1>7, <1>8 DEF Next, WriteNext, vars
-----------------------------------------------------------------------------
(* The file: its nodes, its records, and that it opens. *)

(* A tree has a bit to branch on, and the powers of two below its width. *)
LEMMA BitsAre == Bits \in Nat \ {0} /\ Powers(Bits)
<1>1. ASSUME NEW w \in {W4, W6} PROVE w \in Nat \ {0} /\ Powers(w)
  <2>1. w \in Nat \ {0}
    BY WidthAssumption, TreeAssumption
  <2>2. w \in 0 .. w
    BY <2>1
  <2>3. 2^w \in Nat \ {0}
    BY <2>1, <2>2, PowerAssumption, TreeAssumption
  <2>4. \A j \in 0 .. w : 2^j \in Nat \ {0}
    BY <2>3, PowerAssumption
  <2>5. \A j \in 0 .. w : \A k \in 0 .. j : 2^j = 2^k * 2^(j - k)
    BY TreeAssumption
  <2> QED
    BY <2>1, <2>4, <2>5, TreeAssumption DEF Powers
<1> QED
  BY <1>1 DEF Bits

(* The nodes are finitely many pairs of a depth and a number. *)
LEMMA NodesAre ==
  /\ IsFiniteSet(Nodes) /\ Cardinality(Nodes) \in Nat
  /\ \A c \in Nodes : c = <<c[1], c[2]>> /\ c[1] \in 0 .. Bits - 1 /\ c[2] \in Nat
<1>1. Bits \in Nat \ {0} /\ 2^(Bits - 1) \in Nat
  <2>1. Bits - 1 \in 0 .. Bits
    BY BitsAre
  <2> QED
    BY <2>1, BitsAre DEF Powers
<1>2. PICK m \in Nat : m = 2^(Bits - 1)
  BY <1>1
<1>3. IsFiniteSet(0 .. Bits - 1) /\ IsFiniteSet(0 .. m - 1)
  BY <1>1, FS_Interval
<1>4. IsFiniteSet((0 .. Bits - 1) \X (0 .. m - 1))
  BY <1>3, FS_Product
<1>5. Nodes \in SUBSET ((0 .. Bits - 1) \X (0 .. m - 1))
  BY <1>2 DEF Nodes
<1>6. IsFiniteSet(Nodes)
  BY <1>4, <1>5, FS_Subset
<1>7. Cardinality(Nodes) \in Nat
  BY <1>6, FS_CardinalityType
<1>8. \A c \in Nodes : c = <<c[1], c[2]>> /\ c[1] \in 0 .. Bits - 1 /\ c[2] \in 0 .. m - 1
  BY <1>5
<1> QED
  BY <1>2, <1>6, <1>7, <1>8

(* The records of a tree over finitely many addresses, each once. *)
LEMMA RecordsAre ==
  ASSUME IsFiniteSet(DOMAIN db.tree)
  PROVE  /\ Len(Records) \in Nat /\ DOMAIN Records = 1 .. Len(Records)
         /\ \A i, j \in 1 .. Len(Records) : Records[i] = Records[j] => i = j
         /\ \A a \in DOMAIN db.tree : db.tree[a] # NoData => \E i \in 1 .. Len(Records) : Records[i] = db.tree[a]
         /\ \A i \in 1 .. Len(Records) : Records[i] # NoData /\ \E a \in DOMAIN db.tree : Records[i] = db.tree[a]
<1>1. PICK S : S = {db.tree[a] : a \in DOMAIN db.tree} \ {NoData}
  OBVIOUS
<1>2. IsFiniteSet({db.tree[a] : a \in DOMAIN db.tree})
  BY ImageFinite
<1>3. IsFiniteSet(S)
  BY <1>1, <1>2, FS_Subset
<1>4. PICK s : s = SeqExt!SetToSeq(S)
  OBVIOUS
<1>5. /\ s \in Seq(S) /\ Len(s) = Cardinality(S) /\ Len(s) \in Nat
      /\ \A i, j \in 1 .. Len(s) : s[i] = s[j] => i = j
      /\ \A x \in S : \E i \in 1 .. Len(s) : s[i] = x
  BY <1>3, <1>4, SetToSeqIs
<1>6. Records = s
  BY <1>1, <1>4 DEF Records
<1>7. DOMAIN s = 1 .. Len(s) /\ \A i \in 1 .. Len(s) : s[i] \in S
  BY <1>5
<1>8. \A i \in 1 .. Len(s) : s[i] # NoData /\ \E a \in DOMAIN db.tree : s[i] = db.tree[a]
  BY <1>1, <1>7
<1>9. \A a \in DOMAIN db.tree : db.tree[a] # NoData => \E i \in 1 .. Len(s) : s[i] = db.tree[a]
  <2>1. \A a \in DOMAIN db.tree : db.tree[a] # NoData => db.tree[a] \in S
    BY <1>1
  <2> QED
    BY <1>5, <2>1
<1> QED
  BY <1>5, <1>6, <1>7, <1>8, <1>9

(* What a database that was written is: at each address the record that the
   last entry over it left. *)
LEMMA WholeFacts ==
  ASSUME WriteInv, wpc = "done"
  PROVE  /\ SpecRead /\ db.state = "new" /\ db.version = version /\ version \in {4, 6}
         /\ DOMAIN db.tree = 0 .. 2^Bits - 1 /\ IsFiniteSet(DOMAIN db.tree)
         /\ \A a \in 0 .. 2^Bits - 1 : db.tree[a] = Last(Base(a), Len(spec))
<1>1. /\ SpecRead /\ db.state = "new" /\ db.version = version /\ version \in {4, 6}
      /\ DOMAIN db.tree = Space(version)
      /\ \A a \in Space(version) : db.tree[a] = Last(Base(a), Len(spec))
  BY DEF WriteInv
<1>2. Space(version) = 0 .. 2^Bits - 1
  BY <1>1, AddrFacts DEF Space, Bits
<1>3. 2^Bits \in Nat
  <2>1. Bits \in 0 .. Bits
    BY BitsAre
  <2> QED
    BY <2>1, BitsAre DEF Powers
<1>4. IsFiniteSet(0 .. 2^Bits - 1)
  BY <1>3, FS_Interval
<1> QED
  BY <1>1, <1>2, <1>4

(* What is written opens. *)
LEMMA WrittenFits ==
  ASSUME WriteInv, wpc = "done"
  PROVE  /\ Written.valid /\ Written.length \in Nat /\ Written.nodeCount \in Nat /\ Fits(Written)
         /\ Written # NoMm
<1>1. PICK n \in Nat : n = Cardinality(Nodes)
  BY NodesAre
<1>2. PICK m \in Nat : m = RecordSize * Len(Records)
  <2>1. Len(Records) \in Nat
    BY WholeFacts, RecordsAre
  <2>2. RecordSize \in Nat
    BY DEF RecordSize
  <2> QED
    BY <2>1, <2>2
<1>3. Written.valid = TRUE /\ Written.nodeCount = n /\ Written.length = n * NodeSize + Separator + m
  BY <1>1, <1>2 DEF Written
<1>4. NodeSize \in Nat \ {0} /\ Separator \in Nat \ {0}
  BY ReaderAssumption
<1>5. n * NodeSize \in Nat
  BY <1>4
<1>6. PICK y \in Nat : y = n * NodeSize
  BY <1>5
<1>7. n <= (y + m) \div NodeSize
  <2>1. PICK d \in Nat : d = (y + m) \div NodeSize
    BY <1>4, Division
  <2>2. y + m = d * NodeSize + ((y + m) % NodeSize) /\ (y + m) % NodeSize \in 0 .. NodeSize - 1
    BY <1>4, <2>1, Division
  <2>3. ASSUME d < n PROVE FALSE
    <3>1. d * NodeSize + NodeSize <= n * NodeSize
      BY <1>4, <2>3, NextMultiple
    <3>2. PICK x \in Nat : x = d * NodeSize
      BY <1>4
    <3> QED
      BY <1>4, <1>6, <2>2, <3>1, <3>2
  <2> QED
    BY <2>1, <2>3
<1>8. y + Separator + m - Separator = y + m /\ y + Separator + m >= Separator
  BY <1>4
<1>9. Fits(Written)
  <2>1. PICK f : f = Written
    OBVIOUS
  <2>2. f.nodeCount = n /\ f.length = y + Separator + m
    BY <1>3, <1>6, <2>1
  <2>3. f.length >= Separator /\ f.length - Separator = y + m
    BY <1>4, <2>2
  <2>4. Fits(f)
    BY <1>7, <2>2, <2>3 DEF Fits
  <2> QED
    BY <2>1, <2>4
<1>10. NoMm.valid = FALSE
  BY DEF NoMm
<1> QED
  BY <1>3, <1>4, <1>6, <1>9, <1>10

(* The reader: the file it has, and what it holds once it is open. *)
OpenInv ==
  /\ rpc \in {"closed", "opened", "walk", "decode", "return", "found", "absent", "error"}
  /\ mm.length \in Nat /\ mm.nodeCount \in Nat
  /\ (rpc \notin {"closed", "error"} => mm.length >= Separator /\ mm.nodeCount <= (mm.length - Separator) \div NodeSize)
  /\ (life # "foreign" => \/ mm = NoMm /\ rpc = "closed"
                          \/ wpc = "done" /\ mm = Written
                          \/ wpc = "failed" /\ ~mm.valid /\ rpc \in {"closed", "error"})

(* Once mmdb-write has ended its output stays as it is. *)
LEMMA EndedKept ==
  ASSUME wpc \in {"done", "failed"}, [Next]_vars
  PROVE  UNCHANGED writeVars
BY DEF Next, vars, Embed, WriteNext, ReadSpec, ReadSpecFails, Create, Insert, WriteTo, WriteToFails

(* The layout is a function of the database. *)
LEMMA WrittenKept ==
  ASSUME UNCHANGED writeVars
  PROVE  Written' = Written
<1>1. db' = db /\ country' = country
  BY DEF writeVars
<1>2. Bits' = Bits /\ Records' = Records /\ RecordSize' = RecordSize
  BY <1>1 DEF Bits, Records, RecordSize
<1>3. \A d, i : NodeBlock(d, i)' = NodeBlock(d, i)
  BY <1>2 DEF NodeBlock
<1>4. Nodes' = Nodes
  BY <1>1, <1>2, <1>3 DEF Nodes
<1>5. \A c : NodeOf(c)' = NodeOf(c)
  BY <1>4 DEF NodeOf
<1>6. \A rec : Leaf(rec)' = Leaf(rec)
  BY <1>2, <1>4 DEF Leaf
<1>7. \A d, i : Side(d, i)' = Side(d, i)
  BY <1>1, <1>3, <1>4, <1>5, <1>6 DEF Side
<1>8. \A r : RecordCells(r)' = RecordCells(r)
  BY <1>1, <1>2 DEF RecordCells, KeyCell
<1>9. Cardinality(Nodes)' = Cardinality(Nodes) /\ Len(Records)' = Len(Records)
  BY <1>2, <1>4
<1>10. [r \in 1 .. Len(Records) |-> RecordCells(r)]' = [r \in 1 .. Len(Records) |-> RecordCells(r)]
  BY <1>8, <1>9
<1>11. \A n : Sides(n)' = Sides(n)
  BY <1>4, <1>5, <1>7 DEF Sides
<1>12. [n \in 1 .. Cardinality(Nodes) |-> Sides(n - 1)]' = [n \in 1 .. Cardinality(Nodes) |-> Sides(n - 1)]
  BY <1>9, <1>11
<1> QED
  BY <1>1, <1>2, <1>9, <1>10, <1>12 DEF Written

(* Nothing is open. *)
LEMMA OpenInvInit ==
  ASSUME Init
  PROVE  OpenInv
<1>1. rpc = "closed" /\ (IF life = "foreign" THEN mm \in Foreign /\ version = 6 ELSE mm = NoMm)
  BY DEF Init, ReaderIdle
<1>2. NoMm.length = 0 /\ NoMm.nodeCount = 0
  BY DEF NoMm
<1>3. mm.length \in Nat /\ mm.nodeCount \in Nat
  BY <1>1, <1>2, ForeignAssumption
<1> QED
  BY <1>1, <1>3 DEF OpenInv

(* What the steps of the reader do to its counter. *)
LEMMA ReaderSteps ==
  ASSUME ReaderNext
  PROVE  /\ mm' = mm
         /\ \/ rpc = "closed" /\ mm # NoMm /\ rpc' = (IF mm.valid /\ Fits(mm) THEN "opened" ELSE "error")
            \/ rpc = "opened" /\ rpc' \in {"walk", "error"}
            \/ rpc = "walk" /\ rpc' \in {"walk", "absent", "decode"}
            \/ rpc \in {"decode", "return"} /\ rpc' \in {"decode", "return", "found", "error"}
<1>1. CASE mm # NoMm /\ OpenMMDB
  BY <1>1 DEF OpenMMDB
<1>2. ASSUME NEW q \in Queries, LookupValue(q) PROVE mm' = mm /\ rpc = "opened" /\ rpc' \in {"walk", "error"}
  BY <1>2 DEF LookupValue
<1>3. CASE WalkStep \/ WalkEnds
  BY <1>3 DEF WalkStep, WalkEnds
<1>4. CASE Decode
  <2>1. rpc = "decode" /\ mm' = mm
    BY <1>4 DEF Decode
  <2>2. PICK c : c = Cell(off)
    OBVIOUS
  <2>3. CASE rpc' \notin {"decode", "return", "error"}
    BY <1>4, <2>2, <2>3 DEF Decode, Fail, Return, Call, Pointer
  <2> QED
    BY <2>1, <2>3
<1>5. CASE Resume
  BY <1>5, Zenon DEF Resume, Done, Again, Fail
<1>6. CASE LookupReturns
  BY <1>6 DEF LookupReturns
<1> QED
  BY <1>1, <1>2, <1>3, <1>4, <1>5, <1>6 DEF ReaderNext, DecodeStep

(* Every step keeps the invariant: a file is not written once it can be opened. *)
LEMMA OpenInvStep ==
  ASSUME OpenInv, WriteInv, [Next]_vars
  PROVE  OpenInv'
<1>0. UNCHANGED life
  BY DEF Next, vars
<1>1. CASE UNCHANGED readerVars
  <2>1. mm' = mm /\ rpc' = rpc
    BY <1>1 DEF readerVars
  <2>2. CASE wpc \in {"done", "failed"}
    <3>1. UNCHANGED writeVars
      BY <2>2, EndedKept
    <3>2. wpc' = wpc /\ Written' = Written
      BY <3>1, WrittenKept DEF writeVars
    <3> QED
      BY <1>0, <2>1, <3>2 DEF OpenInv
  <2>3. CASE wpc \notin {"done", "failed"}
    BY <1>0, <2>1, <2>3 DEF OpenInv
  <2> QED
    BY <2>2, <2>3
<1>2. CASE Appear /\ UNCHANGED writeVars
  <2>1. /\ life # "foreign" /\ rpc = "closed" /\ rpc' = rpc /\ wpc \in {"done", "failed"} /\ db.state # "old"
        /\ mm' = IF db.state = "new" THEN Written ELSE [NoMm EXCEPT !.length = 1]
    BY <1>2 DEF Appear
  <2>2. wpc' = wpc /\ Written' = Written
    BY <1>2, WrittenKept DEF writeVars
  <2>3. CASE wpc = "done"
    <3>1. db.state = "new"
      BY <2>3 DEF WriteInv
    <3>2. Written.length \in Nat /\ Written.nodeCount \in Nat
      BY <2>3, WrittenFits
    <3> QED
      BY <2>1, <2>2, <2>3, <3>1, <3>2 DEF OpenInv
  <2>4. CASE wpc = "failed"
    <3>1. db.state # "new"
      BY <2>4 DEF WriteInv
    <3>2. mm'.length = 1 /\ mm'.nodeCount = 0 /\ mm'.valid = FALSE
      BY <2>1, <3>1 DEF NoMm
    <3> QED
      BY <2>1, <2>2, <2>4, <3>2 DEF OpenInv
  <2> QED
    BY <2>1, <2>3, <2>4
<1>3. CASE ReaderNext /\ UNCHANGED writeVars
  <2>1. /\ mm' = mm
        /\ \/ rpc = "closed" /\ mm # NoMm /\ rpc' = (IF mm.valid /\ Fits(mm) THEN "opened" ELSE "error")
           \/ rpc = "opened" /\ rpc' \in {"walk", "error"}
           \/ rpc = "walk" /\ rpc' \in {"walk", "absent", "decode"}
           \/ rpc \in {"decode", "return"} /\ rpc' \in {"decode", "return", "found", "error"}
    BY <1>3, ReaderSteps
  <2>2. wpc' = wpc /\ Written' = Written
    BY <1>3, WrittenKept DEF writeVars
  <2>3. rpc' \notin {"closed", "error"} => mm.length >= Separator /\ mm.nodeCount <= (mm.length - Separator) \div NodeSize
    <3>1. CASE rpc = "closed"
      BY <2>1, <3>1 DEF Fits
    <3>2. CASE rpc # "closed"
      BY <2>1, <3>2 DEF OpenInv
    <3> QED
      BY <3>1, <3>2
  <2>4. life # "foreign" => \/ wpc = "done" /\ mm = Written
                            \/ wpc = "failed" /\ ~mm.valid /\ rpc' = "error"
    BY <2>1 DEF OpenInv
  <2>5. rpc' \in {"closed", "opened", "walk", "decode", "return", "found", "absent", "error"}
    BY <2>1
  <2> QED
    BY <1>0, <2>1, <2>2, <2>3, <2>4, <2>5 DEF OpenInv
<1> QED
  BY <1>1, <1>2, <1>3 DEF Next, vars, Embed

(* Only what was read from a spec replaces a file, and only a whole file is
   ever opened. *)
LEMMA FileIsWhole ==
  ASSUME WriteInv, OpenInv
  PROVE  FileWhole
<1>1. db.state # "old" => spec # <<>>
  BY DEF WriteInv, SpecRead
<1>2. wpc = "done" <=> db.state = "new"
  BY DEF WriteInv
<1>3. wpc = "failed" => life # "foreign"
  BY DEF WriteInv
<1>4. wpc = "failed" => rpc \in {"closed", "error"}
  BY <1>3 DEF OpenInv
<1> QED
  BY <1>1, <1>2, <1>4 DEF FileWhole

(* The two checks of OpenMMDB suffice for every node count. *)
LEMMA TreeIsInside ==
  ASSUME OpenInv
  PROVE  TreeInside
<1> SUFFICES ASSUME rpc \notin {"closed", "error"}
             PROVE  mm.nodeCount * NodeSize + Separator <= mm.length
  BY DEF TreeInside
<1>1. PICK n \in Nat, l \in Nat : n = mm.nodeCount /\ l = mm.length
  BY DEF OpenInv
<1>2. NodeSize \in Nat \ {0} /\ Separator \in Nat \ {0}
  BY ReaderAssumption
<1>3. l >= Separator /\ n <= (l - Separator) \div NodeSize
  BY <1>1 DEF OpenInv
<1>4. PICK x \in Nat : x = l - Separator
  BY <1>2, <1>3
<1>5. PICK d \in Nat : d = x \div NodeSize
  BY <1>2, Division
<1>6. x = d * NodeSize + (x % NodeSize) /\ x % NodeSize \in 0 .. NodeSize - 1
  BY <1>2, <1>5, Division
<1>7. n * NodeSize <= d * NodeSize
  <2>1. CASE n = d
    BY <1>2, <2>1
  <2>2. CASE n < d
    <3>1. n * NodeSize + NodeSize <= d * NodeSize
      BY <1>2, <2>2, NextMultiple
    <3> QED
      BY <1>2, <3>1
  <2> QED
    BY <1>3, <1>4, <1>5, <2>1, <2>2
<1>8. PICK y \in Nat, z \in Nat : y = n * NodeSize /\ z = d * NodeSize
  BY <1>2
<1>9. y + Separator <= l
  BY <1>2, <1>4, <1>6, <1>7, <1>8
<1> QED
  BY <1>1, <1>8, <1>9

(* The three invariants up to the opened file. *)
LEMMA FilesInvariant == Spec => [](NomInv /\ WriteInv /\ OpenInv)
<1>1. Init => NomInv /\ WriteInv /\ OpenInv
  BY NomInvInit, WriteInvInit, OpenInvInit DEF Init
<1>2. (NomInv /\ WriteInv /\ OpenInv) /\ [Next]_vars => (NomInv /\ WriteInv /\ OpenInv)'
  BY NomInvStep, WriteInvStep, OpenInvStep
<1> QED
  BY <1>1, <1>2, PTL DEF Spec

(* The output of mmdb-write is replaced only for a spec that was read and is not
   empty, a run that ends well has written all of it, and what a failed run
   leaves never opens (mmdb-write 111-136). *)
THEOREM FilesCorrect == Spec => []FileWhole
<1>1. NomInv /\ WriteInv /\ OpenInv => FileWhole
  BY FileIsWhole
<1> QED
  BY <1>1, FilesInvariant, PTL

(* The tree of a file that OpenMMDB accepts lies in the file, for every node
   count the file may give, also one whose size wraps (mmdb.go:70-77). *)
THEOREM TreeCorrect == Spec => []TreeInside
<1>1. NomInv /\ WriteInv /\ OpenInv => TreeInside
  BY TreeIsInside
<1> QED
  BY <1>1, FilesInvariant, PTL
-----------------------------------------------------------------------------
(* The walk: where it is in the tree, and where it ends. *)

(* The nodes in their order: by depth, then from left to right. *)
Before(c, b) == c[1] < b[1] \/ (c[1] = b[1] /\ c[2] < b[2])

(* The root is the first node, and each node has a number of its own. *)
LEMMA NodeOrder ==
  /\ <<0, 0>> \in Nodes /\ NodeOf(<<0, 0>>) = 0
  /\ \A c \in Nodes : NodeOf(c) \in 0 .. Cardinality(Nodes) - 1
  /\ \A b, c \in Nodes : NodeOf(b) = NodeOf(c) => b = c
<1>0. \A c \in Nodes : c = <<c[1], c[2]>> /\ c[1] \in 0 .. Bits - 1 /\ c[1] \in Nat /\ c[2] \in Nat
  BY NodesAre, BitsAre
<1>1. <<0, 0>> \in Nodes
  <2>1. Bits - 1 \in 0 .. Bits /\ 0 \in 0 .. Bits - 1
    BY BitsAre
  <2>2. 2^(Bits - 1) \in Nat \ {0} /\ 2^0 = 1
    BY <2>1, BitsAre DEF Powers
  <2>3. 0 \in 0 .. 2^(Bits - 1) - 1
    BY <2>2
  <2>4. PICK c : c = <<0, 0>>
    OBVIOUS
  <2>5. c \in (0 .. Bits - 1) \X (0 .. 2^(Bits - 1) - 1) /\ c[1] = 0 /\ c[2] = 0 /\ c[2] < 2^c[1]
    BY <2>1, <2>2, <2>3, <2>4
  <2>6. c \in Nodes
    BY <2>5 DEF Nodes
  <2> QED
    BY <2>4, <2>6
<1>2. ASSUME NEW b \in Nodes
      PROVE  /\ {c \in Nodes : Before(c, b)} \in SUBSET (Nodes \ {b})
             /\ NodeOf(b) = Cardinality({c \in Nodes : Before(c, b)})
  <2>1. ~Before(b, b)
    BY <1>0 DEF Before
  <2> QED
    BY <2>1 DEF NodeOf, Before
<1>3. NodeOf(<<0, 0>>) = 0
  <2>1. PICK o : o = <<0, 0>>
    OBVIOUS
  <2>2. \A c \in Nodes : ~Before(c, o)
    BY <1>0, <2>1 DEF Before
  <2>3. {c \in Nodes : Before(c, o)} = {}
    BY <2>2
  <2> QED
    BY <1>1, <1>2, <2>1, <2>3, FS_EmptySet
<1>4. ASSUME NEW b \in Nodes PROVE NodeOf(b) \in 0 .. Cardinality(Nodes) - 1
  <2>1. IsFiniteSet(Nodes \ {b}) /\ Cardinality(Nodes \ {b}) = Cardinality(Nodes) - 1
    BY NodesAre, FS_RemoveElement
  <2>2. PICK B \in SUBSET (Nodes \ {b}) : NodeOf(b) = Cardinality(B)
    BY <1>2
  <2>3. IsFiniteSet(B) /\ Cardinality(B) <= Cardinality(Nodes \ {b})
    BY <2>1, <2>2, FS_Subset
  <2>4. Cardinality(B) \in Nat
    BY <2>3, FS_CardinalityType
  <2> QED
    BY <2>1, <2>2, <2>3, <2>4, NodesAre
<1>5. ASSUME NEW b \in Nodes, NEW c \in Nodes, Before(b, c) PROVE NodeOf(b) # NodeOf(c)
  <2>1. PICK B \in SUBSET Nodes : B = {d \in Nodes : Before(d, b)} /\ NodeOf(b) = Cardinality(B)
    BY <1>2
  <2>2. PICK C \in SUBSET Nodes : C = {d \in Nodes : Before(d, c)} /\ NodeOf(c) = Cardinality(C)
    BY <1>2
  <2>3. \A d \in Nodes : Before(d, b) => Before(d, c)
    BY <1>0, <1>5 DEF Before
  <2>4. B \in SUBSET C /\ b \in C /\ b \notin B
    <3>1. ~Before(b, b)
      BY <1>0 DEF Before
    <3> QED
      BY <1>5, <2>1, <2>2, <2>3, <3>1
  <2>5. IsFiniteSet(C)
    BY <2>2, NodesAre, FS_Subset
  <2>6. Cardinality(B) = Cardinality(C) => C = B
    BY <2>4, <2>5, FS_Subset
  <2> QED
    BY <2>1, <2>2, <2>4, <2>6
<1>6. ASSUME NEW b \in Nodes, NEW c \in Nodes, NodeOf(b) = NodeOf(c) PROVE b = c
  <2>1. b # c => Before(b, c) \/ Before(c, b)
    BY <1>0 DEF Before
  <2> QED
    BY <1>5, <1>6, <2>1
<1> QED
  BY <1>1, <1>3, <1>4, <1>6

(* What the reader is about: an address of the database. *)
Within(q) == ~(db.version = 4 /\ ~Unmap(q).v4)

(* The address that is walked is one of the tree. *)
LEMMA AddressWithin ==
  ASSUME WriteInv, wpc = "done", NEW q \in Queries, Within(q)
  PROVE  normalize(q) \in 0 .. 2^Bits - 1 /\ normalize(q) \in Nat
<1>1. q \in Addresses
  BY QueryAssumption
<1>2. (q.v4 = TRUE /\ q.ip \in V4!Addr) \/ (q.v4 = FALSE /\ q.ip \in V6!Addr)
  BY <1>1 DEF Addresses
<1>3. normalize(q) \in IF Unmap(q).v4 THEN V4!Addr ELSE V6!Addr
  <2>1. CASE ~q.v4 /\ q.ip \in MappedBlock
    <3>1. q.ip - Mapped \in 0 .. V4!TopAddr
      BY <2>1, <1>2, AddrFacts, MappedAssumption DEF MappedBlock
    <3>2. Unmap(q).v4 = TRUE /\ Unmap(q).ip = q.ip - Mapped
      BY <2>1 DEF Unmap
    <3> QED
      BY <3>1, <3>2, AddrFacts DEF normalize
  <2>2. CASE ~(~q.v4 /\ q.ip \in MappedBlock)
    <3>1. Unmap(q) = q
      BY <2>2 DEF Unmap
    <3> QED
      BY <1>2, <3>1 DEF normalize
  <2> QED
    BY <2>1, <2>2
<1>4. Bits = IF version = 4 THEN W4 ELSE W6
  BY WholeFacts DEF Bits
<1>5. Unmap(q).v4 \/ version # 4
  BY WholeFacts DEF Within
<1> QED
  BY <1>3, <1>4, <1>5, AddrFacts

(* What a node points to: an empty place as the count of the nodes, a record
   beyond it. *)
LEMMA LeafIs ==
  ASSUME WriteInv, wpc = "done", NEW a \in 0 .. 2^Bits - 1
  PROVE  /\ db.tree[a] = NoData => Leaf(db.tree[a]) = Cardinality(Nodes)
         /\ db.tree[a] # NoData =>
              \E p \in 1 .. Len(Records) :
                Records[p] = db.tree[a] /\ Leaf(db.tree[a]) = Cardinality(Nodes) + Separator + RecordSize * (p - 1)
         /\ Leaf(db.tree[a]) \in Nat /\ Leaf(db.tree[a]) >= Cardinality(Nodes)
<1>1. /\ Len(Records) \in Nat /\ DOMAIN Records = 1 .. Len(Records)
      /\ \A i, j \in 1 .. Len(Records) : Records[i] = Records[j] => i = j
      /\ db.tree[a] # NoData => \E i \in 1 .. Len(Records) : Records[i] = db.tree[a]
  BY WholeFacts, RecordsAre
<1>2. PICK r : r = db.tree[a]
  OBVIOUS
<1>3. PICK N \in Nat : N = Cardinality(Nodes)
  BY NodesAre
<1>4. CASE r = NoData
  BY <1>2, <1>3, <1>4 DEF Leaf
<1>5. CASE r # NoData
  <2>1. PICK p \in 1 .. Len(Records) : Records[p] = r
    BY <1>1, <1>2, <1>5
  <2>2. (CHOOSE x \in DOMAIN Records : Records[x] = r) = p
    BY <1>1, <2>1
  <2>3. Leaf(r) = N + Separator + RecordSize * (p - 1)
    BY <1>3, <1>5, <2>2 DEF Leaf
  <2>4. PICK m \in Nat : m = RecordSize * (p - 1)
    <3>1. RecordSize \in Nat /\ p - 1 \in Nat
      BY <1>1 DEF RecordSize
    <3> QED
      BY <3>1
  <2>5. N + Separator + m \in Nat /\ N + Separator + m >= N
    BY ReaderAssumption
  <2> QED
    BY <1>2, <1>3, <1>5, <2>1, <2>3, <2>4, <2>5
<1> QED
  BY <1>4, <1>5

(* Where the walk leaves the nodes there is one record for the whole block. *)
LEMMA BlockIsOne ==
  ASSUME NEW n \in 0 .. 2^Bits - 1, NEW d \in 0 .. Bits, NEW i, i = n \div 2^(Bits - d),
         <<d, i>> \notin Nodes
  PROVE  db.tree[Min(NodeBlock(d, i))] = db.tree[n]
<1>0. Bits \in Nat \ {0} /\ Powers(Bits) /\ 2^Bits \in Nat \ {0} /\ n \in Nat
  <2>1. Bits \in Nat \ {0} /\ Powers(Bits) /\ Bits \in 0 .. Bits
    BY BitsAre
  <2>2. 2^Bits \in Nat \ {0}
    BY <2>1 DEF Powers
  <2> QED
    BY <2>1, <2>2
<1>1. PICK u \in Nat \ {0} : u = 2^(Bits - d)
  <2>1. Bits - d \in 0 .. Bits
    BY <1>0
  <2>2. 2^(Bits - d) \in Nat \ {0}
    BY <1>0, <2>1 DEF Powers
  <2> QED
    BY <2>2
<1>2. i \in Nat /\ i = n \div u
  BY <1>0, <1>1, Division
<1>3. n \in i * u .. (i + 1) * u - 1 /\ i * u \in Nat /\ i * u <= (i + 1) * u - 1
  <2>0. n % u \in 0 .. u - 1 /\ n = ((n \div u) * u) + (n % u)
    BY <1>0, Division
  <2>1. PICK r \in 0 .. u - 1 : n = i * u + r
    BY <1>2, <2>0
  <2>2. PICK y \in Nat : y = i * u
    BY <1>2
  <2>3. (i + 1) * u = y + u
    BY <1>2, <2>2
  <2> QED
    BY <2>1, <2>2, <2>3
<1>4. PICK lo \in Nat, hi \in Int : lo = i * u /\ hi = (i + 1) * u - 1 /\ NodeBlock(d, i) = lo .. hi /\ lo <= hi
  <2>1. PICK lo \in Nat : lo = i * u
    BY <1>3
  <2>2. PICK hi \in Int : hi = (i + 1) * u - 1
    <3>1. PICK v \in Int : v = (i + 1) * u
      BY <1>1, <1>2
    <3> QED
      BY <3>1
  <2>3. lo <= hi
    BY <1>3, <2>1, <2>2
  <2>4. NodeBlock(d, i) = lo .. hi
    BY <1>1, <2>1, <2>2 DEF NodeBlock
  <2> QED
    BY <2>1, <2>2, <2>3, <2>4
<1>5. n \in lo .. hi /\ lo \in lo .. hi /\ Min(lo .. hi) = lo
  <2>1. n \in lo .. hi /\ lo \in lo .. hi
    BY <1>3, <1>4
  <2>2. PICK B : B = lo .. hi
    OBVIOUS
  <2>3. B \in SUBSET Int /\ lo \in B /\ \A y \in B : lo <= y
    BY <2>1, <2>2
  <2>4. Min(B) = lo
    BY <2>3, MinIs
  <2> QED
    BY <2>1, <2>2, <2>4
<1>6. CASE d = Bits
  <2>1. u = 1
    BY <1>0, <1>1, <1>6 DEF Powers
  <2>2. lo = hi
    BY <1>2, <1>4, <2>1
  <2> QED
    BY <1>4, <1>5, <2>2
<1>7. CASE d # Bits
  <2>1. d \in 0 .. Bits - 1 /\ d \in Nat
    BY <1>0, <1>7
  <2>2. i < 2^d
    BY <1>0, <1>1, <1>2, <2>1, HalfOf
  <2>3. 2^d <= 2^(Bits - 1) /\ 2^d \in Nat /\ 2^(Bits - 1) \in Nat
    <3>1. Bits - 1 \in 0 .. Bits /\ d \in 0 .. Bits - 1
      BY <1>0, <2>1
    <3> QED
      BY <1>0, <3>1, PowerProduct
  <2>4. i \in 0 .. 2^(Bits - 1) - 1
    <3>1. PICK x \in Nat, y \in Nat : x = 2^d /\ y = 2^(Bits - 1)
      BY <2>3
    <3>2. i \in 0 .. y - 1
      BY <1>2, <2>2, <2>3, <3>1
    <3> QED
      BY <3>1, <3>2
  <2>5. d # 0
    <3>1. ASSUME d = 0 PROVE FALSE
      <4>1. 2^d = 1
        BY <1>0, <3>1 DEF Powers
      <4>2. i = 0
        BY <1>2, <2>2, <4>1
      <4> QED
        BY <3>1, <4>2, NodeOrder
    <3> QED
      BY <3>1
  <2>6. PICK c : c = <<d, i>>
    OBVIOUS
  <2>7. c \in (0 .. Bits - 1) \X (0 .. 2^(Bits - 1) - 1) /\ c[1] = d /\ c[2] = i
    BY <2>1, <2>4, <2>6
  <2>8. \A a, b \in NodeBlock(d, i) : db.tree[a] = db.tree[b]
    BY <2>2, <2>5, <2>6, <2>7 DEF Nodes
  <2> QED
    BY <1>4, <1>5, <2>8
<1> QED
  BY <1>6, <1>7

(* The walk is at the node of a block around the address, or at what the
   address has. *)
Point == normalize(query)
AtBlock(d) == Side(d, Point \div 2^(Bits - d))

(* What leads to the block around the address is its node or its record. *)
LEMMA AtBlockIs ==
  ASSUME Point \in 0 .. 2^Bits - 1, NEW d \in 0 .. Bits, NEW i, i = Point \div 2^(Bits - d)
  PROVE  /\ <<d, i>> \in Nodes => AtBlock(d) = NodeOf(<<d, i>>)
         /\ <<d, i>> \notin Nodes => AtBlock(d) = Leaf(db.tree[Point])
BY BlockIsOne DEF AtBlock, Side

(* At the root. *)
LEMMA WalkBegins ==
  ASSUME NEW n \in 0 .. 2^Bits - 1
  PROVE  Side(0, n \div 2^(Bits - 0)) = 0
<1>1. Bits \in Nat /\ 2^Bits \in Nat \ {0} /\ Bits - 0 = Bits
  <2>1. Bits \in Nat /\ Bits \in 0 .. Bits
    BY BitsAre
  <2> QED
    BY <2>1, BitsAre DEF Powers
<1>2. n \div 2^Bits = 0
  BY <1>1, SmallRemainder
<1> QED
  BY <1>1, <1>2, NodeOrder DEF Side

(* One bit more leads to the half of the block with the address. *)
LEMMA WalkOn ==
  ASSUME WriteInv, wpc = "done", mm = Written, Within(query), query \in Queries,
         bit \in 0 .. Bits, node = AtBlock(bit), WalkStep
  PROVE  bit' \in 0 .. Bits /\ node' = AtBlock(bit + 1) /\ bit' = bit + 1
<1>1. /\ bit < Width(query) /\ node < mm.nodeCount /\ bit' = bit + 1
      /\ node' = record(node, BitOf(query, bit))
  BY DEF WalkStep
<1>2. mm.version = db.version /\ mm.nodeCount = Cardinality(Nodes)
      /\ mm.nodes = [n \in 1 .. Cardinality(Nodes) |-> Sides(n - 1)]
  BY DEF Written
<1>3. Width(query) = Bits /\ Bits \in Nat \ {0} /\ Powers(Bits)
  BY <1>2, BitsAre DEF Width, Bits
<1>4. bit \in 0 .. Bits - 1 /\ bit + 1 \in 0 .. Bits
  BY <1>1, <1>3
<1>5. Point \in 0 .. 2^Bits - 1
  BY AddressWithin DEF Point
<1>6. PICK N \in Nat : N = Cardinality(Nodes)
  BY NodesAre
<1>7. PICK i : i = Point \div 2^(Bits - bit)
  OBVIOUS
<1>8. <<bit, i>> \in Nodes /\ node = NodeOf(<<bit, i>>)
  <2>1. ASSUME <<bit, i>> \notin Nodes PROVE FALSE
    <3>1. node = Leaf(db.tree[Point])
      BY <1>5, <1>7, <2>1, AtBlockIs
    <3>2. node >= Cardinality(Nodes) /\ node \in Nat
      BY <1>5, <3>1, LeafIs
    <3> QED
      BY <1>1, <1>2, <1>6, <3>2
  <2> QED
    BY <1>5, <1>7, <2>1, AtBlockIs
<1>9. node \in 0 .. N - 1
  BY <1>6, <1>8, NodeOrder
<1>10. mm.nodes[node + 1] = Sides(node)
  BY <1>2, <1>6, <1>9
<1>11. Sides(node) = <<Side(bit + 1, 2 * i), Side(bit + 1, 2 * i + 1)>>
  <2>1. PICK b : b = CHOOSE c \in Nodes : NodeOf(c) = node
    OBVIOUS
  <2>2. b \in Nodes /\ NodeOf(b) = node
    BY <1>8, <2>1
  <2>3. b = <<bit, i>>
    BY <1>8, <2>2, NodeOrder
  <2>4. b[1] = bit /\ b[2] = i
    BY <2>3
  <2> QED
    BY <2>1, <2>4 DEF Sides
<1>12. PICK x : x = BitOf(query, bit)
  OBVIOUS
<1>13. x \in 0 .. 1 /\ Point \div 2^(Bits - (bit + 1)) = 2 * i + x /\ i \in Nat
  BY <1>3, <1>4, <1>5, <1>7, <1>12, HalfOf DEF BitOf, Point
<1>14. node' = Side(bit + 1, 2 * i + x)
  <2>1. node' = Sides(node)[x + 1]
    BY <1>1, <1>10, <1>12 DEF record
  <2>2. CASE x = 0
    BY <1>11, <1>13, <2>1, <2>2
  <2>3. CASE x = 1
    BY <1>11, <1>13, <2>1, <2>3
  <2> QED
    BY <1>13, <2>2, <2>3
<1> QED
  BY <1>1, <1>4, <1>13, <1>14 DEF AtBlock

(* Where the walk ends there is nothing, or the record of the address. *)
LEMMA WalkOver ==
  ASSUME WriteInv, wpc = "done", mm = Written, Within(query), query \in Queries,
         bit \in 0 .. Bits, node = AtBlock(bit), WalkEnds
  PROVE  \/ db.tree[Point] = NoData /\ rpc' = "absent"
         \/ /\ db.tree[Point] # NoData /\ rpc' = "decode"
            /\ \E p \in 1 .. Len(Records) : Records[p] = db.tree[Point] /\ off' = Separator + RecordSize * (p - 1)
<1>1. /\ bit = Width(query) \/ node >= mm.nodeCount
      /\ IF node <= mm.nodeCount THEN rpc' = "absent" /\ UNCHANGED off
         ELSE rpc' = "decode" /\ off' = node - mm.nodeCount
  BY DEF WalkEnds
<1>2. mm.version = db.version /\ mm.nodeCount = Cardinality(Nodes)
  BY DEF Written
<1>3. Width(query) = Bits /\ Bits \in Nat \ {0}
  BY <1>2, BitsAre DEF Width, Bits
<1>4. Point \in 0 .. 2^Bits - 1
  BY AddressWithin DEF Point
<1>5. PICK N \in Nat : N = Cardinality(Nodes)
  BY NodesAre
<1>6. PICK i : i = Point \div 2^(Bits - bit)
  OBVIOUS
<1>7. <<bit, i>> \notin Nodes
  <2>1. ASSUME <<bit, i>> \in Nodes PROVE FALSE
    <3>1. node \in 0 .. N - 1
      BY <1>4, <1>5, <1>6, <2>1, AtBlockIs, NodeOrder
    <3>2. bit = Bits
      BY <1>1, <1>2, <1>3, <1>5, <3>1
    <3>3. bit \in 0 .. Bits - 1
      BY <2>1, NodesAre
    <3> QED
      BY <1>3, <3>2, <3>3
  <2> QED
    BY <2>1
<1>8. node = Leaf(db.tree[Point])
  BY <1>4, <1>6, <1>7, AtBlockIs
<1>9. CASE db.tree[Point] = NoData
  <2>1. node = N
    BY <1>4, <1>5, <1>8, <1>9, LeafIs
  <2> QED
    BY <1>1, <1>2, <1>5, <1>9, <2>1
<1>10. CASE db.tree[Point] # NoData
  <2>1. PICK p \in 1 .. Len(Records) :
          Records[p] = db.tree[Point] /\ node = N + Separator + RecordSize * (p - 1)
    BY <1>4, <1>5, <1>8, <1>10, LeafIs
  <2>2. PICK m \in Nat : m = RecordSize * (p - 1)
    <3>1. RecordSize \in Nat /\ p - 1 \in Nat
      BY WholeFacts, RecordsAre DEF RecordSize
    <3> QED
      BY <3>1
  <2>3. node = N + Separator + m /\ Separator \in Nat \ {0}
    BY <2>1, <2>2, ReaderAssumption
  <2>4. ~(node <= N) /\ node - N = Separator + m
    BY <2>3
  <2>5. rpc' = "decode" /\ off' = Separator + m
    BY <1>1, <1>2, <1>5, <2>4
  <2> QED
    BY <1>10, <2>1, <2>2, <2>5
<1> QED
  BY <1>9, <1>10
-----------------------------------------------------------------------------
(* The data: where the cells of a record are, and how one is decoded. *)

(* The cells of a record. *)
LEMMA CellsAre ==
  ASSUME NEW p
  PROVE  /\ Len(RecordCells(p)) = RecordSize /\ RecordSize \in {5, 7}
         /\ DOMAIN RecordCells(p) = 1 .. RecordSize
<1>1. CASE country
  <2>1. RecordSize = 7 /\ Len(RecordCells(p)) = 7 /\ DOMAIN RecordCells(p) = 1 .. 7
    BY <1>1 DEF RecordCells, RecordSize
  <2> QED
    BY <2>1
<1>2. CASE ~country
  <2>1. RecordSize = 5 /\ Len(RecordCells(p)) = 5 /\ DOMAIN RecordCells(p) = 1 .. 5
    BY <1>2 DEF RecordCells, RecordSize
  <2> QED
    BY <2>1
<1> QED
  BY <1>1, <1>2

(* Where the cells of a record are, and how much there is behind each. *)
LEMMA SectionIs ==
  ASSUME WriteInv, wpc = "done", mm = Written,
         NEW p \in 1 .. Len(Records), NEW o, o = Separator + RecordSize * (p - 1),
         NEW j \in 0 .. RecordSize - 1
  PROVE  /\ o \in Nat /\ Cell(o + j) = RecordCells(p)[j + 1]
         /\ avail(o + j + 1) >= RecordSize - (j + 1) /\ avail(o + j + 1) \in Int
<1>1. PICK L \in Nat : L = Len(Records)
  BY WholeFacts, RecordsAre
<1>2. PICK k \in Nat : k = RecordSize /\ k \in {5, 7}
  BY CellsAre
<1>3. PICK s : s = [r \in 1 .. L |-> RecordCells(r)]
  OBVIOUS
<1> DEFINE X == {RecordCells(r)[i] : r \in 1 .. L, i \in 1 .. k}
<1>4. \A r \in 1 .. L, i \in 1 .. k : RecordCells(r)[i] \in X
  OBVIOUS
<1> HIDE DEF X
<1>5. s \in Seq(Seq(X)) /\ Len(s) = L /\ \A r \in 1 .. L : s[r] = RecordCells(r)
  <2>1. ASSUME NEW r \in 1 .. L PROVE RecordCells(r) \in Seq(X)
    <3>1. PICK c : c = RecordCells(r)
      OBVIOUS
    <3>2. DOMAIN c = 1 .. k /\ \A i \in 1 .. k : c[i] \in X
      BY <1>2, <1>4, <3>1, CellsAre
    <3>3. c = [i \in 1 .. k |-> c[i]]
      <4>1. CASE country
        <5>1. c = <<c[1], c[2], c[3], c[4], c[5], c[6], c[7]>> /\ k = 7
          BY <1>2, <3>1, <4>1 DEF RecordCells, RecordSize
        <5> QED
          BY <5>1
      <4>2. CASE ~country
        <5>1. c = <<c[1], c[2], c[3], c[4], c[5]>> /\ k = 5
          BY <1>2, <3>1, <4>2 DEF RecordCells, RecordSize
        <5> QED
          BY <5>1
      <4> QED
        BY <4>1, <4>2
    <3>4. c \in [1 .. k -> X]
      BY <3>2, <3>3
    <3> QED
      BY <3>1, <3>4, MakeSeq
  <2>2. s \in [1 .. L -> Seq(X)]
    BY <1>3, <2>1
  <2>3. s \in Seq(Seq(X)) /\ Len(s) = L
    BY <2>2, MakeSeq
  <2> QED
    BY <1>3, <2>3
<1>6. \A i \in 1 .. Len(s) : Len(s[i]) = k
  BY <1>2, <1>5, CellsAre
<1>7. PICK t : t = SeqExt!FlattenSeq(s)
  OBVIOUS
<1>8. /\ t \in Seq(X) /\ Len(t) = k * L
      /\ \A r \in 1 .. L, i \in 1 .. k : k * (r - 1) + i \in 1 .. Len(t) /\ t[k * (r - 1) + i] = s[r][i]
  <2>1. s \in Seq(Seq(X)) /\ k \in Nat /\ \A i \in 1 .. Len(s) : Len(s[i]) = k
    BY <1>5, <1>6
  <2>2. t \in Seq(X) /\ Laid(s, Len(s), k, t)
    BY <2>1, <1>7, FlattenEqual
  <2>3. Laid(s, L, k, t)
    BY <2>2, <1>5
  <2> QED
    BY <2>2, <2>3 DEF Laid
<1>9. mm.section = t
  BY <1>1, <1>3, <1>7 DEF Written
<1>10. PICK y \in Nat : y = k * (p - 1)
  BY <1>1, <1>2
<1>11. Separator \in Nat \ {0} /\ o = Separator + y /\ o \in Nat
  BY <1>2, <1>10, ReaderAssumption
<1>12. j + 1 \in 1 .. k /\ j \in Nat /\ p \in 1 .. L
  BY <1>1, <1>2
<1>13. y + (j + 1) \in 1 .. Len(t) /\ t[y + (j + 1)] = RecordCells(p)[j + 1]
  BY <1>5, <1>8, <1>10, <1>12
<1>14. DOMAIN t = 1 .. Len(t)
  BY <1>8
<1>15. ~(o + j < Separator) /\ (o + j) - Separator + 1 = y + (j + 1)
  BY <1>11, <1>12
<1>16. Cell(o + j) = RecordCells(p)[j + 1]
  BY <1>9, <1>13, <1>14, <1>15 DEF Cell
<1>17. avail(o + j + 1) >= k - (j + 1) /\ avail(o + j + 1) \in Int
  <2>1. Len(t) \in Nat /\ Len(t) >= y + k
    <3>1. k * L = k * p + k * (L - p) /\ k * p = y + k /\ k * (L - p) >= 0
      <4>1. L - p \in Nat /\ k \in Nat
        BY <1>1, <1>2, <1>12
      <4>2. k * (L - p) \in Nat
        BY <4>1
      <4> QED
        BY <1>1, <1>2, <1>10, <1>12, <4>1, <4>2
    <3> QED
      BY <1>8, <1>10, <3>1
  <2>2. avail(o + j + 1) = Separator + Len(t) - (o + j + 1)
    BY <1>9 DEF avail
  <2> QED
    BY <1>2, <1>10, <1>11, <1>12, <2>1, <2>2
<1> QED
  BY <1>2, <1>11, <1>16, <1>17

(* The stack of the waiting calls. *)
Stack(b) == \E S : b \in Seq(S)

(* Pushing a call, and what is then on top and below. *)
LEMMA StackOps ==
  ASSUME NEW b, Stack(b), NEW f, NEW t, t = Append(b, f)
  PROVE  /\ Stack(t) /\ t # <<>> /\ t[Len(t)] = f /\ SeqExt!Front(t) = b
         /\ Len(b) \in Nat /\ Len(t) = Len(b) + 1
         /\ \A g : [t EXCEPT ![Len(t)] = g] = Append(b, g)
<1>1. PICK R : b \in Seq(R)
  BY DEF Stack
<1>2. PICK S : S = R \cup {f}
  OBVIOUS
<1>3. b \in Seq(S) /\ t \in Seq(S)
  <2>1. b \in Seq(S)
    BY <1>1, <1>2, SeqWider
  <2> QED
    BY <1>2, <2>1
<1>4. PICK n \in Nat : n = Len(b)
  BY <1>3
<1>5. /\ Len(t) = n + 1 /\ t[n + 1] = f /\ \A i \in 1 .. n : t[i] = b[i]
      /\ DOMAIN t = 1 .. n + 1
  BY <1>3, <1>4
<1>6. SeqExt!Front(t) = b
  <2>1. SeqExt!Front(t) = SubSeq(t, 1, n)
    BY <1>4, <1>5 DEF SeqExt!Front
  <2> QED
    BY <1>3, <1>4, <1>5, <2>1
<1>7. ASSUME NEW g PROVE [t EXCEPT ![Len(t)] = g] = Append(b, g)
  <2>1. PICK u : u = [t EXCEPT ![Len(t)] = g]
    OBVIOUS
  <2>2. PICK v : v = Append(b, g)
    OBVIOUS
  <2>3. PICK U : U = S \cup {g}
    OBVIOUS
  <2>4. b \in Seq(U) /\ g \in U
    BY <1>3, <2>3, SeqWider
  <2>5. v \in Seq(U) /\ Len(v) = n + 1 /\ v[n + 1] = g /\ \A i \in 1 .. n : v[i] = b[i]
    BY <1>4, <2>2, <2>4
  <2>6. u = [i \in 1 .. n + 1 |-> IF i = n + 1 THEN g ELSE b[i]]
    <3>1. u = [i \in DOMAIN t |-> IF i = Len(t) THEN g ELSE t[i]]
      BY <2>1
    <3>2. u = [i \in 1 .. n + 1 |-> IF i = n + 1 THEN g ELSE t[i]]
      BY <1>5, <3>1
    <3>3. \A i \in 1 .. n + 1 : i # n + 1 => t[i] = b[i]
      BY <1>5
    <3> QED
      BY <3>2, <3>3
  <2>7. v = [i \in 1 .. n + 1 |-> IF i = n + 1 THEN g ELSE b[i]]
    BY <2>5
  <2> QED
    BY <2>1, <2>2, <2>6, <2>7
<1>8. Stack(t) /\ t # <<>>
  BY <1>3, <1>5 DEF Stack
<1> QED
  BY <1>4, <1>5, <1>6, <1>7, <1>8

(* The calls that wait: for the value a pointer leads to, and for the keys and
   values of a map. *)
PtrFrame(x) == [k |-> "ptr", past |-> x]
MapFrame(n, w, g) == [k |-> "map", left |-> n, key |-> w, got |-> g]
With(g, w, v) == [key \in DOMAIN g \cup {w} |-> IF key = w THEN v ELSE g[key]]

(* Which step there is to take. *)
LEMMA StepKind ==
  ASSUME DecodeStep
  PROVE  /\ rpc = "decode" => Decode
         /\ rpc = "return" /\ stack # <<>> => Resume
         /\ rpc \in {"return", "found"} /\ stack = <<>> => LookupReturns
<1>1. Decode => rpc = "decode"
  BY DEF Decode
<1>2. Resume => rpc = "return" /\ stack # <<>>
  BY DEF Resume
<1>3. LookupReturns => rpc = "return" /\ stack = <<>>
  BY DEF LookupReturns
<1> QED
  BY <1>1, <1>2, <1>3 DEF DecodeStep

(* So deep decodeMMDB still goes. *)
LEMMA Shallow ==
  ASSUME Len(stack) \in 0 .. 3
  PROVE  Len(stack) <= maxMMDBDepth /\ ~(Len(stack) > maxMMDBDepth)
<1>1. PICK n \in 0 .. 3 : n = Len(stack)
  OBVIOUS
<1>2. PICK m \in Nat : m = maxMMDBDepth
  BY ReaderAssumption
<1>3. m >= 3
  BY <1>2, DepthAssumption
<1>4. n <= m /\ ~(n > m)
  BY <1>3
<1> QED
  BY <1>1, <1>2, <1>4

(* A string is read. *)
LEMMA DecodeString ==
  ASSUME rpc = "decode", Len(stack) \in 0 .. 3, NEW v, Cell(off) = StrCell(v), DecodeStep
  PROVE  rpc' = "return" /\ value' = Str(v) /\ off' = off + 1 /\ stack' = stack
<1>0. Decode
  BY StepKind
<1>1. Len(stack) <= maxMMDBDepth /\ ~(Len(stack) > maxMMDBDepth)
  BY Shallow
<1>2. Cell(off).k = "str" /\ Cell(off).v = v
  BY DEF StrCell
<1>3. Return(Str(Cell(off).v), off + 1)
  BY <1>0, <1>1, <1>2 DEF Decode
<1>4. Return(Str(v), off + 1)
  BY <1>2, <1>3
<1> QED
  BY <1>4 DEF Return

(* A number is read. *)
LEMMA DecodeUint ==
  ASSUME rpc = "decode", Len(stack) \in 0 .. 3, NEW v, Cell(off) = UintCell(v), DecodeStep
  PROVE  rpc' = "return" /\ value' = Uint(v) /\ off' = off + 1 /\ stack' = stack
<1>0. Decode
  BY StepKind
<1>1. Len(stack) <= maxMMDBDepth /\ ~(Len(stack) > maxMMDBDepth)
  BY Shallow
<1>2. Cell(off).k = "uint" /\ Cell(off).v = v
  BY DEF UintCell
<1>3. Return(Uint(Cell(off).v), off + 1)
  BY <1>0, <1>1, <1>2 DEF Decode
<1>4. Return(Uint(v), off + 1)
  BY <1>2, <1>3
<1> QED
  BY <1>4 DEF Return

(* A pointer is followed, and what comes after it is remembered. *)
LEMMA DecodePointer ==
  ASSUME rpc = "decode", Len(stack) \in 0 .. 3, NEW n, Cell(off) = [k |-> "ptr", to |-> n], DecodeStep
  PROVE  rpc' = "decode" /\ off' = Separator + n /\ stack' = Append(stack, PtrFrame(off + 1))
<1>0. Decode
  BY StepKind
<1>1. Len(stack) <= maxMMDBDepth /\ ~(Len(stack) > maxMMDBDepth)
  BY Shallow
<1>2. PICK c : c = Cell(off) /\ c.k = "ptr" /\ c.to = n
  OBVIOUS
<1> QED
  BY <1>0, <1>1, <1>2 DEF Decode, Pointer, Call, PtrFrame

(* A map begins, with its size in front of it. *)
LEMMA DecodeMap ==
  ASSUME rpc = "decode", Len(stack) \in 0 .. 3, NEW n \in {1, 2}, Cell(off) = MapCell(n), off \in Nat,
         avail(off + 1) >= n, avail(off + 1) \in Int, DecodeStep
  PROVE  rpc' = "decode" /\ off' = off + 1 /\ stack' = Append(stack, MapFrame(n, NoKey, <<>>))
<1>0. Decode
  BY StepKind
<1>1. Len(stack) <= maxMMDBDepth /\ ~(Len(stack) > maxMMDBDepth)
  BY Shallow
<1>2. PICK c : c = Cell(off) /\ c.k = "map" /\ c.n = n
  BY DEF MapCell
<1>3. ~(c.n > avail(off + 1)) /\ c.n # 0
  BY <1>2
<1> QED
  BY <1>0, <1>1, <1>2, <1>3 DEF Decode, Call, MapFrame

(* Back from a pointer, reading goes on behind it. *)
LEMMA ResumePointer ==
  ASSUME rpc = "return", NEW b, Stack(b), NEW x, stack = Append(b, PtrFrame(x)), DecodeStep
  PROVE  rpc' = "return" /\ value' = value /\ off' = x /\ stack' = b
<1>1. stack # <<>> /\ Top = PtrFrame(x) /\ SeqExt!Front(stack) = b
  BY StackOps DEF Top
<1>2. Resume
  BY <1>1, StepKind
<1>3. Top.k = "ptr" /\ Top.past = x
  BY <1>1 DEF PtrFrame
<1>4. Done(value, x)
  BY <1>2, <1>3 DEF Resume
<1> QED
  BY <1>1, <1>4 DEF Done

(* A key was read, and its value is next. *)
LEMMA ResumeKey ==
  ASSUME rpc = "return", NEW b, Stack(b), NEW n, NEW w, NEW g, stack = Append(b, MapFrame(n, NoKey, g)),
         value = Str(w), DecodeStep
  PROVE  rpc' = "decode" /\ off' = off /\ stack' = Append(b, MapFrame(n, w, g))
<1>1. /\ stack # <<>> /\ Top = MapFrame(n, NoKey, g)
      /\ \A h : [stack EXCEPT ![Len(stack)] = h] = Append(b, h)
  BY StackOps DEF Top
<1>2. Resume
  BY <1>1, StepKind
<1>3. Top.k = "map" /\ Top.key = NoKey
  BY <1>1 DEF MapFrame
<1>4. "str" \in DOMAIN value /\ value.str = w
  BY DEF Str
<1>5. Again([Top EXCEPT !.key = w])
  BY <1>2, <1>3, <1>4 DEF Resume
<1>6. [Top EXCEPT !.key = w] = MapFrame(n, w, g)
  BY <1>1 DEF MapFrame
<1> QED
  BY <1>1, <1>5, <1>6 DEF Again

(* A value was read: the map is whole, or its next key follows. *)
LEMMA ResumeValue ==
  ASSUME rpc = "return", NEW b, Stack(b), NEW n \in {1, 2}, NEW w, w # NoKey, NEW g,
         stack = Append(b, MapFrame(n, w, g)), DecodeStep
  PROVE  /\ off' = off
         /\ n = 1 => rpc' = "return" /\ value' = Map(With(g, w, value)) /\ stack' = b
         /\ n = 2 => rpc' = "decode" /\ stack' = Append(b, MapFrame(1, NoKey, With(g, w, value)))
<1>1. /\ stack # <<>> /\ Top = MapFrame(n, w, g) /\ SeqExt!Front(stack) = b
      /\ \A h : [stack EXCEPT ![Len(stack)] = h] = Append(b, h)
  <2>1. PICK f : f = MapFrame(n, w, g)
    OBVIOUS
  <2>2. PICK t : t = stack
    OBVIOUS
  <2>3. t = Append(b, f)
    BY <2>1, <2>2
  <2>4. t # <<>> /\ t[Len(t)] = f
    BY <2>3, StackOps
  <2>5. SeqExt!Front(t) = b
    BY <2>3, StackOps
  <2>6. \A h : [t EXCEPT ![Len(t)] = h] = Append(b, h)
    BY <2>3, StackOps
  <2> QED
    BY <2>1, <2>2, <2>4, <2>5, <2>6 DEF Top
<1>2. Resume
  BY <1>1, StepKind
<1>3. Top.k = "map" /\ Top.key = w /\ Top.left = n /\ Top.got = g
  BY <1>1 DEF MapFrame
<1>4. PICK h : h = With(g, w, value)
  OBVIOUS
<1>5. h = [key \in DOMAIN Top.got \cup {Top.key} |-> IF key = Top.key THEN value ELSE Top.got[key]]
  BY <1>3, <1>4 DEF With
<1>6. IF Top.left = 1 THEN Done(Map(h), off) ELSE Again([Top EXCEPT !.got = h, !.key = NoKey, !.left = @ - 1])
  BY <1>2, <1>3, <1>5 DEF Resume
<1>7. [Top EXCEPT !.got = h, !.key = NoKey, !.left = @ - 1] = MapFrame(n - 1, NoKey, h)
  <2>1. PICK m : m = n - 1
    OBVIOUS
  <2>2. Top.left - 1 = m
    BY <1>3, <2>1
  <2>3. Top = [i \in {"k", "left", "key", "got"} |->
                 IF i = "k" THEN "map" ELSE IF i = "left" THEN n ELSE IF i = "key" THEN w ELSE g]
    BY <1>1 DEF MapFrame
  <2>4. [Top EXCEPT !.got = h, !.key = NoKey, !.left = m] = MapFrame(m, NoKey, h)
    <3>1. PICK f : f = [Top EXCEPT !.got = h]
      OBVIOUS
    <3>2. f = [i \in {"k", "left", "key", "got"} |->
                 IF i = "k" THEN "map" ELSE IF i = "left" THEN n ELSE IF i = "key" THEN w ELSE h]
      BY <2>3, <3>1
    <3>3. PICK e : e = [f EXCEPT !.key = NoKey]
      OBVIOUS
    <3>4. e = [i \in {"k", "left", "key", "got"} |->
                 IF i = "k" THEN "map" ELSE IF i = "left" THEN n ELSE IF i = "key" THEN NoKey ELSE h]
      BY <3>2, <3>3
    <3>5. [e EXCEPT !.left = m] = MapFrame(m, NoKey, h)
      BY <3>4 DEF MapFrame
    <3> QED
      BY <3>1, <3>3, <3>5, Zenon
  <2> QED
    BY <2>1, <2>2, <2>4
<1>8. CASE n = 1
  <2>1. Done(Map(h), off)
    BY <1>3, <1>6, <1>8
  <2> QED
    BY <1>1, <1>4, <1>8, <2>1 DEF Done
<1>9. CASE n = 2
  <2>1. Again(MapFrame(1, NoKey, h))
    BY <1>3, <1>6, <1>7, <1>9
  <2> QED
    BY <1>1, <1>4, <1>9, <2>1 DEF Again
<1> QED
  BY <1>8, <1>9

(* The outermost call returns. *)
LEMMA ResumeEnds ==
  ASSUME rpc \in {"return", "found"}, stack = <<>>, DecodeStep
  PROVE  rpc' = "found" /\ UNCHANGED <<value, stack>>
BY StepKind DEF LookupReturns

(* A key is read at o, itself or by the pointer to where it was written first;
   and a value of one cell. *)
KeyAt(s, o, w, home) ==
  \/ rpc = "decode" /\ off = o /\ stack = s
  \/ rpc = "decode" /\ off = Separator + home /\ stack = Append(s, PtrFrame(o + 1))
  \/ rpc = "return" /\ value = Str(w) /\ stack = Append(s, PtrFrame(o + 1))
  \/ rpc = "return" /\ value = Str(w) /\ off = o + 1 /\ stack = s

LeafAt(s, o, v) ==
  \/ rpc = "decode" /\ off = o /\ stack = s
  \/ rpc = "return" /\ value = v /\ off = o + 1 /\ stack = s

On(b, n, w, g) == Append(b, MapFrame(n, w, g))

(* What is written at o. *)
KeyIs(o, w, home) ==
  /\ Cell(o) = StrCell(w) \/ Cell(o) = [k |-> "ptr", to |-> home]
  /\ Cell(Separator + home) = StrCell(w)

Holds(o, v) == \E x : (Cell(o) = StrCell(x) /\ v = Str(x)) \/ (Cell(o) = UintCell(x) /\ v = Uint(x))

(* The next step of a key stays with the key, or has read it. *)
LEMMA KeyStep ==
  ASSUME NEW b, Stack(b), Len(b) <= 1, NEW n, NEW w, NEW g, NEW home, NEW o \in Nat, NEW y, y = o + 1,
         KeyIs(o, w, home), KeyAt(On(b, n, NoKey, g), o, w, home), DecodeStep
  PROVE  \/ KeyAt(On(b, n, NoKey, g), o, w, home)'
         \/ rpc' = "decode" /\ off' = y /\ stack' = On(b, n, w, g)
<1>1. PICK s : s = On(b, n, NoKey, g) /\ s = Append(b, MapFrame(n, NoKey, g))
  BY DEF On
<1>2. Cell(o) = StrCell(w) \/ Cell(o) = [k |-> "ptr", to |-> home]
  BY DEF KeyIs
<1>3. Cell(Separator + home) = StrCell(w) /\ KeyAt(s, o, w, home)
  BY <1>1 DEF KeyIs
<1>4. Stack(s) /\ Len(b) \in Nat /\ Len(s) = Len(b) + 1
  <2>1. PICK f : f = MapFrame(n, NoKey, g)
    OBVIOUS
  <2>2. s = Append(b, f)
    BY <1>1, <2>1
  <2> QED
    BY <2>2, StackOps
<1>5. PICK t : t = Append(s, PtrFrame(o + 1))
  OBVIOUS
<1>6. Len(t) = Len(s) + 1
  <2>1. PICK f : f = PtrFrame(o + 1)
    OBVIOUS
  <2>2. t = Append(s, f)
    BY <1>5, <2>1
  <2> QED
    BY <1>4, <2>2, StackOps
<1>7. Len(s) \in 0 .. 3 /\ Len(t) \in 0 .. 3
  BY <1>4, <1>6
<1>8. CASE rpc = "decode" /\ off = o /\ stack = s
  <2>1. CASE Cell(o) = StrCell(w)
    <3>1. rpc' = "return" /\ value' = Str(w) /\ off' = o + 1 /\ stack' = s
      BY <1>7, <1>8, <2>1, DecodeString
    <3> QED
      BY <1>1, <3>1 DEF KeyAt
  <2>2. CASE Cell(o) = [k |-> "ptr", to |-> home]
    <3>1. rpc' = "decode" /\ off' = Separator + home /\ stack' = Append(s, PtrFrame(o + 1))
      BY <1>7, <1>8, <2>2, DecodePointer
    <3> QED
      BY <1>1, <3>1 DEF KeyAt
  <2> QED
    BY <1>2, <2>1, <2>2
<1>9. CASE rpc = "decode" /\ off = Separator + home /\ stack = t
  <2>1. rpc' = "return" /\ value' = Str(w) /\ stack' = t
    BY <1>3, <1>7, <1>9, DecodeString
  <2> QED
    BY <1>1, <1>5, <2>1 DEF KeyAt
<1>10. CASE rpc = "return" /\ value = Str(w) /\ stack = t
  <2>1. rpc' = "return" /\ value' = value /\ off' = o + 1 /\ stack' = s
    BY <1>4, <1>5, <1>10, ResumePointer
  <2> QED
    BY <1>1, <1>10, <2>1 DEF KeyAt
<1>11. CASE rpc = "return" /\ value = Str(w) /\ off = o + 1 /\ stack = s
  <2>1. rpc' = "decode" /\ off' = off /\ stack' = Append(b, MapFrame(n, w, g))
    BY <1>1, <1>11, ResumeKey
  <2> QED
    BY <1>11, <2>1 DEF On
<1> QED
  BY <1>3, <1>5, <1>8, <1>9, <1>10, <1>11 DEF KeyAt

(* The next step of a value of one cell stays with it, or has put it into its
   map. *)
LEMMA LeafStep ==
  ASSUME NEW b, Stack(b), Len(b) <= 1, NEW n \in {1, 2}, NEW w, w # NoKey, NEW g, NEW o \in Nat, NEW y, y = o + 1,
         NEW v, Holds(o, v), LeafAt(On(b, n, w, g), o, v), DecodeStep
  PROVE  \/ LeafAt(On(b, n, w, g), o, v)'
         \/ n = 1 /\ rpc' = "return" /\ value' = Map(With(g, w, v)) /\ off' = y /\ stack' = b
         \/ n = 2 /\ rpc' = "decode" /\ off' = y /\ stack' = On(b, 1, NoKey, With(g, w, v))
<1>0. PICK s : s = On(b, n, w, g) /\ s = Append(b, MapFrame(n, w, g))
  BY DEF On
<1>1. Len(s) \in 0 .. 3
  <2>1. PICK f : f = MapFrame(n, w, g)
    OBVIOUS
  <2>2. s = Append(b, f)
    BY <1>0, <2>1
  <2>3. Len(b) \in Nat /\ Len(s) = Len(b) + 1
    BY <2>2, StackOps
  <2> QED
    BY <2>3
<1>2. PICK x : (Cell(o) = StrCell(x) /\ v = Str(x)) \/ (Cell(o) = UintCell(x) /\ v = Uint(x))
  BY DEF Holds
<1>3. CASE rpc = "decode" /\ off = o /\ stack = s
  <2>1. CASE Cell(o) = StrCell(x) /\ v = Str(x)
    <3>1. rpc' = "return" /\ value' = v /\ off' = o + 1 /\ stack' = s
      BY <1>1, <1>3, <2>1, DecodeString
    <3> QED
      BY <1>0, <3>1 DEF LeafAt
  <2>2. CASE Cell(o) = UintCell(x) /\ v = Uint(x)
    <3>1. rpc' = "return" /\ value' = v /\ off' = o + 1 /\ stack' = s
      BY <1>1, <1>3, <2>2, DecodeUint
    <3> QED
      BY <1>0, <3>1 DEF LeafAt
  <2> QED
    BY <1>2, <2>1, <2>2
<1>4. CASE rpc = "return" /\ value = v /\ off = o + 1 /\ stack = s
  <2>1. /\ off' = off
        /\ n = 1 => rpc' = "return" /\ value' = Map(With(g, w, value)) /\ stack' = b
        /\ n = 2 => rpc' = "decode" /\ stack' = Append(b, MapFrame(1, NoKey, With(g, w, value)))
    BY <1>0, <1>4, ResumeValue
  <2> QED
    BY <1>4, <2>1 DEF On
<1> QED
  BY <1>0, <1>3, <1>4 DEF LeafAt

(* Reading the record of an AS: its cells begin at o, a, ... d. *)
Org(r) == With(<<>>, "org", Str(r.org))
AsnForm(r, o, a, b, c, d) ==
  \/ rpc = "decode" /\ off = o /\ stack = <<>>
  \/ KeyAt(On(<<>>, 2, NoKey, <<>>), a, "org", 1)
  \/ LeafAt(On(<<>>, 2, "org", <<>>), b, Str(r.org))
  \/ KeyAt(On(<<>>, 1, NoKey, Org(r)), c, "asn", 3)
  \/ LeafAt(On(<<>>, 1, "asn", Org(r)), d, Uint(r.asn))
  \/ rpc \in {"return", "found"} /\ value = Map(With(Org(r), "asn", Uint(r.asn))) /\ stack = <<>>

(* No call waits. *)
LEMMA NoCalls == Stack(<<>>) /\ Len(<<>>) = 0 /\ Len(<<>>) <= 1 /\ Len(<<>>) \in 0 .. 3
<1>1. <<>> \in Seq({})
  OBVIOUS
<1> QED
  BY <1>1 DEF Stack

(* Every step in a record of a network is to the next part of it. *)
LEMMA AsnStep ==
  ASSUME NEW r, NEW o \in Nat, NEW a \in Nat, NEW b \in Nat, NEW c \in Nat, NEW d \in Nat,
         a = o + 1, b = a + 1, c = b + 1, d = c + 1,
         Cell(o) = MapCell(2), avail(o + 1) >= 2, avail(o + 1) \in Int,
         KeyIs(a, "org", 1), Holds(b, Str(r.org)), KeyIs(c, "asn", 3), Holds(d, Uint(r.asn)),
         AsnForm(r, o, a, b, c, d), DecodeStep
  PROVE  AsnForm(r, o, a, b, c, d)'
<1>1. CASE rpc = "decode" /\ off = o /\ stack = <<>>
  <2>1. rpc' = "decode" /\ off' = o + 1 /\ stack' = Append(<<>>, MapFrame(2, NoKey, <<>>))
    BY <1>1, NoCalls, DecodeMap
  <2>2. KeyAt(On(<<>>, 2, NoKey, <<>>), a, "org", 1)'
    BY <2>1 DEF On, KeyAt
  <2> QED
    BY <2>2 DEF AsnForm
<1>2. CASE KeyAt(On(<<>>, 2, NoKey, <<>>), a, "org", 1)
  <2>1. \/ KeyAt(On(<<>>, 2, NoKey, <<>>), a, "org", 1)'
        \/ rpc' = "decode" /\ off' = b /\ stack' = On(<<>>, 2, "org", <<>>)
    BY <1>2, NoCalls, KeyStep
  <2> QED
    BY <2>1 DEF AsnForm, LeafAt
<1>3. CASE LeafAt(On(<<>>, 2, "org", <<>>), b, Str(r.org))
  <2>1. \/ LeafAt(On(<<>>, 2, "org", <<>>), b, Str(r.org))'
        \/ rpc' = "decode" /\ off' = c /\ stack' = On(<<>>, 1, NoKey, With(<<>>, "org", Str(r.org)))
    <3>1. "org" # NoKey
      BY DEF NoKey
    <3> QED
      BY <1>3, <3>1, NoCalls, LeafStep
  <2> QED
    BY <2>1 DEF AsnForm, KeyAt, Org
<1>4. CASE KeyAt(On(<<>>, 1, NoKey, Org(r)), c, "asn", 3)
  <2>1. \/ KeyAt(On(<<>>, 1, NoKey, Org(r)), c, "asn", 3)'
        \/ rpc' = "decode" /\ off' = d /\ stack' = On(<<>>, 1, "asn", Org(r))
    BY <1>4, NoCalls, KeyStep
  <2> QED
    BY <2>1 DEF AsnForm, LeafAt
<1>5. CASE LeafAt(On(<<>>, 1, "asn", Org(r)), d, Uint(r.asn))
  <2>1. \/ LeafAt(On(<<>>, 1, "asn", Org(r)), d, Uint(r.asn))'
        \/ rpc' = "return" /\ value' = Map(With(Org(r), "asn", Uint(r.asn))) /\ stack' = <<>>
    <3>1. "asn" # NoKey
      BY DEF NoKey
    <3> QED
      BY <1>5, <3>1, NoCalls, LeafStep
  <2> QED
    BY <2>1 DEF AsnForm
<1>6. CASE rpc \in {"return", "found"} /\ value = Map(With(Org(r), "asn", Uint(r.asn))) /\ stack = <<>>
  <2>1. rpc' = "found" /\ value' = value /\ stack' = stack
    BY <1>6, ResumeEnds
  <2> QED
    BY <1>6, <2>1 DEF AsnForm
<1> QED
  BY <1>1, <1>2, <1>3, <1>4, <1>5, <1>6 DEF AsnForm

(* Reading the record of a country: a map in a map. *)
Iso(r) == With(<<>>, "iso", Str(r.country.iso))
Inner(r) == With(<<>>, "country", Map(Iso(r)))
Outer == On(<<>>, 2, "country", <<>>)
CountryForm(r, o, a, b, c, d, e, f) ==
  \/ rpc = "decode" /\ off = o /\ stack = <<>>
  \/ KeyAt(On(<<>>, 2, NoKey, <<>>), a, "country", 1)
  \/ rpc = "decode" /\ off = b /\ stack = Outer
  \/ KeyAt(On(Outer, 1, NoKey, <<>>), c, "iso", 3)
  \/ LeafAt(On(Outer, 1, "iso", <<>>), d, Str(r.country.iso))
  \/ rpc = "return" /\ value = Map(Iso(r)) /\ off = e /\ stack = Outer
  \/ KeyAt(On(<<>>, 1, NoKey, Inner(r)), e, "continent", 5)
  \/ LeafAt(On(<<>>, 1, "continent", Inner(r)), f, Uint(r.continent))
  \/ rpc \in {"return", "found"} /\ value = Map(With(Inner(r), "continent", Uint(r.continent))) /\ stack = <<>>

(* One call waits while the inner map of a country is read. *)
LEMMA OuterIs == Stack(Outer) /\ Len(Outer) <= 1 /\ Len(Outer) \in 0 .. 3
<1>1. PICK f : f = MapFrame(2, "country", <<>>)
  OBVIOUS
<1>2. PICK b : b = <<>> /\ Stack(b) /\ Len(b) = 0
  BY NoCalls
<1>3. Outer = Append(b, f)
  BY <1>1, <1>2 DEF Outer, On
<1>4. Stack(Outer) /\ Len(Outer) = Len(b) + 1
  BY <1>2, <1>3, StackOps
<1> QED
  BY <1>2, <1>4

(* Every step in a record of a country is to the next part of it. *)
LEMMA CountryStep ==
  ASSUME NEW r, NEW o \in Nat, NEW a \in Nat, NEW b \in Nat, NEW c \in Nat, NEW d \in Nat, NEW e \in Nat, NEW f \in Nat,
         a = o + 1, b = a + 1, c = b + 1, d = c + 1, e = d + 1, f = e + 1,
         Cell(o) = MapCell(2), avail(o + 1) >= 2, avail(o + 1) \in Int, KeyIs(a, "country", 1),
         Cell(b) = MapCell(1), avail(b + 1) >= 1, avail(b + 1) \in Int, KeyIs(c, "iso", 3),
         Holds(d, Str(r.country.iso)), KeyIs(e, "continent", 5), Holds(f, Uint(r.continent)),
         CountryForm(r, o, a, b, c, d, e, f), DecodeStep
  PROVE  CountryForm(r, o, a, b, c, d, e, f)'
<1>1. CASE rpc = "decode" /\ off = o /\ stack = <<>>
  <2>1. rpc' = "decode" /\ off' = o + 1 /\ stack' = Append(<<>>, MapFrame(2, NoKey, <<>>))
    BY <1>1, NoCalls, DecodeMap
  <2>2. KeyAt(On(<<>>, 2, NoKey, <<>>), a, "country", 1)'
    BY <2>1 DEF On, KeyAt
  <2> QED
    BY <2>2 DEF CountryForm
<1>2. CASE KeyAt(On(<<>>, 2, NoKey, <<>>), a, "country", 1)
  <2>1. \/ KeyAt(On(<<>>, 2, NoKey, <<>>), a, "country", 1)'
        \/ rpc' = "decode" /\ off' = b /\ stack' = On(<<>>, 2, "country", <<>>)
    BY <1>2, NoCalls, KeyStep
  <2> QED
    BY <2>1 DEF CountryForm, Outer
<1>3. CASE rpc = "decode" /\ off = b /\ stack = Outer
  <2>1. rpc' = "decode" /\ off' = b + 1 /\ stack' = Append(Outer, MapFrame(1, NoKey, <<>>))
    BY <1>3, OuterIs, DecodeMap
  <2>2. KeyAt(On(Outer, 1, NoKey, <<>>), c, "iso", 3)'
    BY <2>1 DEF On, KeyAt
  <2> QED
    BY <2>2 DEF CountryForm
<1>4. CASE KeyAt(On(Outer, 1, NoKey, <<>>), c, "iso", 3)
  <2>1. \/ KeyAt(On(Outer, 1, NoKey, <<>>), c, "iso", 3)'
        \/ rpc' = "decode" /\ off' = d /\ stack' = On(Outer, 1, "iso", <<>>)
    BY <1>4, OuterIs, KeyStep
  <2> QED
    BY <2>1 DEF CountryForm, LeafAt
<1>5. CASE LeafAt(On(Outer, 1, "iso", <<>>), d, Str(r.country.iso))
  <2>1. \/ LeafAt(On(Outer, 1, "iso", <<>>), d, Str(r.country.iso))'
        \/ rpc' = "return" /\ value' = Map(With(<<>>, "iso", Str(r.country.iso))) /\ off' = e /\ stack' = Outer
    <3>1. "iso" # NoKey
      BY DEF NoKey
    <3> QED
      BY <1>5, <3>1, OuterIs, LeafStep
  <2> QED
    BY <2>1 DEF CountryForm, Iso
<1>6. CASE rpc = "return" /\ value = Map(Iso(r)) /\ off = e /\ stack = Outer
  <2>1. PICK g : g = With(<<>>, "country", value)
    OBVIOUS
  <2>2. rpc' = "decode" /\ off' = off /\ stack' = Append(<<>>, MapFrame(1, NoKey, g))
    <3>1. "country" # NoKey
      BY DEF NoKey
    <3>2. stack = Append(<<>>, MapFrame(2, "country", <<>>))
      BY <1>6 DEF Outer, On
    <3> QED
      BY <1>6, <2>1, <3>1, <3>2, NoCalls, ResumeValue
  <2>3. g = Inner(r)
    BY <1>6, <2>1 DEF Inner
  <2>4. KeyAt(On(<<>>, 1, NoKey, Inner(r)), e, "continent", 5)'
    BY <1>6, <2>2, <2>3 DEF On, KeyAt
  <2> QED
    BY <2>4 DEF CountryForm
<1>7. CASE KeyAt(On(<<>>, 1, NoKey, Inner(r)), e, "continent", 5)
  <2>1. \/ KeyAt(On(<<>>, 1, NoKey, Inner(r)), e, "continent", 5)'
        \/ rpc' = "decode" /\ off' = f /\ stack' = On(<<>>, 1, "continent", Inner(r))
    BY <1>7, NoCalls, KeyStep
  <2> QED
    BY <2>1 DEF CountryForm, LeafAt
<1>8. CASE LeafAt(On(<<>>, 1, "continent", Inner(r)), f, Uint(r.continent))
  <2>1. \/ LeafAt(On(<<>>, 1, "continent", Inner(r)), f, Uint(r.continent))'
        \/ rpc' = "return" /\ value' = Map(With(Inner(r), "continent", Uint(r.continent))) /\ stack' = <<>>
    <3>1. "continent" # NoKey
      BY DEF NoKey
    <3> QED
      BY <1>8, <3>1, NoCalls, LeafStep
  <2> QED
    BY <2>1 DEF CountryForm
<1>9. CASE rpc \in {"return", "found"} /\ value = Map(With(Inner(r), "continent", Uint(r.continent))) /\ stack = <<>>
  <2>1. rpc' = "found" /\ value' = value /\ stack' = stack
    BY <1>9, ResumeEnds
  <2> QED
    BY <1>9, <2>1 DEF CountryForm
<1> QED
  BY <1>1, <1>2, <1>3, <1>4, <1>5, <1>6, <1>7, <1>8, <1>9 DEF CountryForm

(* A record is read from the cell o on. *)
RecordAt(r, o) ==
  IF country THEN CountryForm(r, o, o + 1, o + 2, o + 3, o + 4, o + 5, o + 6)
  ELSE AsnForm(r, o, o + 1, o + 2, o + 3, o + 4)

(* Where record p begins. *)
Begin(p) == Separator + RecordSize * (p - 1)

(* The cells of a record lie behind its beginning, with room for what the maps
   announce; those of the first record have the keys the others point to. *)
LEMMA BeginIs ==
  ASSUME WriteInv, wpc = "done", mm = Written, NEW p \in 1 .. Len(Records)
  PROVE  /\ Begin(p) \in Nat /\ 1 \in 1 .. Len(Records) /\ Begin(1) = Separator
         /\ \A j \in 0 .. RecordSize - 1 :
              /\ Cell(Begin(p) + j) = RecordCells(p)[j + 1] /\ Cell(Separator + j) = RecordCells(1)[j + 1]
              /\ avail(Begin(p) + j + 1) >= RecordSize - (j + 1) /\ avail(Begin(p) + j + 1) \in Int
<1>1. PICK L \in Nat : L = Len(Records)
  BY WholeFacts, RecordsAre
<1>2. 1 \in 1 .. Len(Records) /\ RecordSize \in {5, 7}
  BY <1>1, CellsAre
<1>3. Begin(1) = Separator
  <2>1. RecordSize * (1 - 1) = 0 /\ Separator \in Nat
    BY <1>2, ReaderAssumption
  <2> QED
    BY <2>1 DEF Begin
<1>4. PICK o : o = Begin(p) /\ o = Separator + RecordSize * (p - 1)
  BY DEF Begin
<1>5. PICK h : h = Begin(1) /\ h = Separator + RecordSize * (1 - 1)
  BY DEF Begin
<1>6. ASSUME NEW j \in 0 .. RecordSize - 1
      PROVE  /\ o \in Nat /\ Cell(o + j) = RecordCells(p)[j + 1] /\ Cell(h + j) = RecordCells(1)[j + 1]
             /\ avail(o + j + 1) >= RecordSize - (j + 1) /\ avail(o + j + 1) \in Int
  <2>1. /\ o \in Nat /\ Cell(o + j) = RecordCells(p)[j + 1]
        /\ avail(o + j + 1) >= RecordSize - (j + 1) /\ avail(o + j + 1) \in Int
    BY <1>4, SectionIs
  <2>2. Cell(h + j) = RecordCells(1)[j + 1]
    BY <1>2, <1>5, SectionIs
  <2> QED
    BY <2>1, <2>2
<1>7. 0 \in 0 .. RecordSize - 1
  BY <1>2
<1> QED
  BY <1>2, <1>3, <1>4, <1>5, <1>6, <1>7

(* The record of a network in the file is what AsnStep reads. *)
LEMMA AsnRecordStep ==
  ASSUME WriteInv, wpc = "done", mm = Written, ~country, NEW p \in 1 .. Len(Records), NEW o, o = Begin(p),
         NEW r, r = Records[p], RecordAt(r, o), DecodeStep, country' = country
  PROVE  RecordAt(r, o)'
<1>1. /\ o \in Nat
      /\ \A j \in 0 .. 4 :
           /\ Cell(o + j) = RecordCells(p)[j + 1] /\ Cell(Separator + j) = RecordCells(1)[j + 1]
           /\ avail(o + j + 1) >= 5 - (j + 1) /\ avail(o + j + 1) \in Int
  BY BeginIs DEF RecordSize
<1>2. RecordCells(p) = <<MapCell(2), KeyCell(p, "org", 1), StrCell(r.org), KeyCell(p, "asn", 3), UintCell(r.asn)>>
  BY DEF RecordCells
<1>3. RecordCells(1)[2] = KeyCell(1, "org", 1) /\ RecordCells(1)[4] = KeyCell(1, "asn", 3)
  BY DEF RecordCells
<1>4. o \in Nat
  BY <1>1
<1>5. PICK a \in Nat, b \in Nat, c \in Nat, d \in Nat : a = o + 1 /\ b = o + 2 /\ c = o + 3 /\ d = o + 4
  BY <1>4
<1>6. Cell(o) = MapCell(2) /\ avail(o + 1) >= 2 /\ avail(o + 1) \in Int
  <2>1. PICK j : j = 0 /\ j \in 0 .. 4 /\ o + j = o /\ j + 1 = 1 /\ 5 - (j + 1) = 4
    BY <1>4
  <2>2. Cell(o + j) = RecordCells(p)[j + 1] /\ avail(o + j + 1) >= 5 - (j + 1) /\ avail(o + j + 1) \in Int
    BY <1>1, <2>1
  <2>3. Cell(o) = RecordCells(p)[1] /\ avail(o + 1) >= 4 /\ avail(o + 1) \in Int
    BY <2>1, <2>2
  <2> QED
    BY <1>2, <2>3
<1>7. /\ Cell(a) = KeyCell(p, "org", 1) /\ Cell(b) = StrCell(r.org)
      /\ Cell(c) = KeyCell(p, "asn", 3) /\ Cell(d) = UintCell(r.asn)
  BY <1>1, <1>2, <1>5
<1>8. Cell(Separator + 1) = StrCell("org") /\ Cell(Separator + 3) = StrCell("asn")
  <2>1. 1 \in 0 .. 4 /\ 3 \in 0 .. 4
    OBVIOUS
  <2>2. Cell(Separator + 1) = RecordCells(1)[2] /\ Cell(Separator + 3) = RecordCells(1)[4]
    BY <1>1, <2>1
  <2> QED
    BY <1>3, <2>2 DEF KeyCell
<1>9. KeyIs(a, "org", 1) /\ KeyIs(c, "asn", 3)
  BY <1>7, <1>8 DEF KeyIs, KeyCell
<1>10. Holds(b, Str(r.org)) /\ Holds(d, Uint(r.asn))
  BY <1>7 DEF Holds
<1>11. a = o + 1 /\ b = a + 1 /\ c = b + 1 /\ d = c + 1
  <2>1. PICK x \in Nat : x = o
    BY <1>4
  <2>2. a = x + 1 /\ b = x + 2 /\ c = x + 3 /\ d = x + 4
    BY <1>5, <2>1
  <2>3. a = x + 1 /\ b = a + 1 /\ c = b + 1 /\ d = c + 1
    BY <2>2
  <2> QED
    BY <2>1, <2>3
<1>12. AsnForm(r, o, a, b, c, d)
  BY <1>5 DEF RecordAt
<1>13. AsnForm(r, o, a, b, c, d)'
  BY <1>1, <1>6, <1>9, <1>10, <1>11, <1>12, AsnStep
<1>14. (~country)' /\ AsnForm(r, o, o + 1, o + 2, o + 3, o + 4)'
  BY <1>5, <1>13
<1> QED
  BY <1>14 DEF RecordAt

(* The record of a country in the file is what CountryStep reads. *)
LEMMA CountryRecordStep ==
  ASSUME WriteInv, wpc = "done", mm = Written, country, NEW p \in 1 .. Len(Records), NEW o, o = Begin(p),
         NEW r, r = Records[p], RecordAt(r, o), DecodeStep, country' = country
  PROVE  RecordAt(r, o)'
<1>1. /\ o \in Nat
      /\ \A j \in 0 .. 6 :
           /\ Cell(o + j) = RecordCells(p)[j + 1] /\ Cell(Separator + j) = RecordCells(1)[j + 1]
           /\ avail(o + j + 1) >= 7 - (j + 1) /\ avail(o + j + 1) \in Int
  BY BeginIs DEF RecordSize
<1>2. RecordCells(p) = <<MapCell(2), KeyCell(p, "country", 1), MapCell(1), KeyCell(p, "iso", 3), StrCell(r.country.iso),
                         KeyCell(p, "continent", 5), UintCell(r.continent)>>
  BY DEF RecordCells
<1>3. /\ RecordCells(1)[2] = KeyCell(1, "country", 1) /\ RecordCells(1)[4] = KeyCell(1, "iso", 3)
      /\ RecordCells(1)[6] = KeyCell(1, "continent", 5)
  BY DEF RecordCells
<1>4. o \in Nat
  BY <1>1
<1>5. PICK a \in Nat, b \in Nat, c \in Nat : a = o + 1 /\ b = o + 2 /\ c = o + 3
  BY <1>4
<1>6. PICK d \in Nat, e \in Nat, f \in Nat : d = o + 4 /\ e = o + 5 /\ f = o + 6
  BY <1>4
<1>7. Cell(o) = MapCell(2) /\ avail(o + 1) >= 2 /\ avail(o + 1) \in Int
  <2>1. PICK j : j = 0 /\ j \in 0 .. 6 /\ o + j = o /\ j + 1 = 1 /\ 7 - (j + 1) = 6
    BY <1>4
  <2>2. Cell(o + j) = RecordCells(p)[j + 1] /\ avail(o + j + 1) >= 7 - (j + 1) /\ avail(o + j + 1) \in Int
    BY <1>1, <2>1
  <2>3. Cell(o) = RecordCells(p)[1] /\ avail(o + 1) >= 6 /\ avail(o + 1) \in Int
    BY <2>1, <2>2
  <2> QED
    BY <1>2, <2>3
<1>8. /\ Cell(a) = KeyCell(p, "country", 1) /\ Cell(b) = MapCell(1)
      /\ Cell(c) = KeyCell(p, "iso", 3) /\ Cell(d) = StrCell(r.country.iso)
      /\ Cell(e) = KeyCell(p, "continent", 5) /\ Cell(f) = UintCell(r.continent)
  BY <1>1, <1>2, <1>5, <1>6
<1>9. avail(b + 1) >= 1 /\ avail(b + 1) \in Int
  <2>1. 2 \in 0 .. 6 /\ o + 2 + 1 = b + 1
    BY <1>1, <1>5
  <2>2. avail(b + 1) >= 4 /\ avail(b + 1) \in Int
    BY <1>1, <2>1
  <2> QED
    BY <2>2
<1>10. Cell(Separator + 1) = StrCell("country") /\ Cell(Separator + 3) = StrCell("iso") /\ Cell(Separator + 5) = StrCell("continent")
  <2>1. 1 \in 0 .. 6 /\ 3 \in 0 .. 6 /\ 5 \in 0 .. 6
    OBVIOUS
  <2>2. Cell(Separator + 1) = RecordCells(1)[2] /\ Cell(Separator + 3) = RecordCells(1)[4]
    BY <1>1, <2>1
  <2>3. Cell(Separator + 5) = RecordCells(1)[6]
    BY <1>1, <2>1
  <2> QED
    BY <1>3, <2>2, <2>3 DEF KeyCell
<1>11. KeyIs(a, "country", 1) /\ KeyIs(c, "iso", 3) /\ KeyIs(e, "continent", 5)
  BY <1>8, <1>10 DEF KeyIs, KeyCell
<1>12. Holds(d, Str(r.country.iso)) /\ Holds(f, Uint(r.continent))
  BY <1>8 DEF Holds
<1>13. a = o + 1 /\ b = a + 1 /\ c = b + 1 /\ d = c + 1 /\ e = d + 1 /\ f = e + 1
  <2>1. PICK x \in Nat : x = o
    BY <1>4
  <2>2. a = x + 1 /\ b = x + 2 /\ c = x + 3
    BY <1>5, <2>1
  <2>3. d = x + 4 /\ e = x + 5 /\ f = x + 6
    BY <1>6, <2>1
  <2>4. b = a + 1 /\ c = b + 1
    BY <2>2
  <2>5. d = c + 1
    BY <2>2, <2>3
  <2>6. e = d + 1 /\ f = e + 1
    BY <2>3
  <2> QED
    BY <2>1, <2>2, <2>4, <2>5, <2>6
<1>14. CountryForm(r, o, a, b, c, d, e, f)
  BY <1>5, <1>6 DEF RecordAt
<1>15. CountryForm(r, o, a, b, c, d, e, f)'
  BY <1>1, <1>7, <1>8, <1>9, <1>11, <1>12, <1>13, <1>14, CountryStep
<1>16. country' /\ CountryForm(r, o, o + 1, o + 2, o + 3, o + 4, o + 5, o + 6)'
  BY <1>5, <1>6, <1>15
<1> QED
  BY <1>16 DEF RecordAt

(* What is found is the record. *)
LEMMA RecordFound ==
  ASSUME NEW r, NEW o, RecordAt(r, o), rpc = "found"
  PROVE  value = Decoded(r)
<1>1. CASE country
  <2>1. value = Map(With(Inner(r), "continent", Uint(r.continent)))
    BY <1>1 DEF RecordAt, CountryForm, KeyAt, LeafAt
  <2>2. PICK x : x = Str(r.country.iso)
    OBVIOUS
  <2>3. With(<<>>, "iso", x) = [iso |-> x]
    BY DEF With
  <2>4. PICK y : y = Map([iso |-> x])
    OBVIOUS
  <2>5. With(<<>>, "country", y) = [country |-> y]
    BY DEF With
  <2>6. Inner(r) = [country |-> y]
    BY <2>2, <2>3, <2>4, <2>5 DEF Inner, Iso
  <2>7. PICK z : z = Uint(r.continent)
    OBVIOUS
  <2>8. With([country |-> y], "continent", z) = [country |-> y, continent |-> z]
    BY DEF With
  <2> QED
    BY <1>1, <2>1, <2>2, <2>4, <2>6, <2>7, <2>8 DEF Decoded
<1>2. CASE ~country
  <2>1. value = Map(With(Org(r), "asn", Uint(r.asn)))
    BY <1>2 DEF RecordAt, AsnForm, KeyAt, LeafAt
  <2>2. PICK x : x = Str(r.org)
    OBVIOUS
  <2>3. With(<<>>, "org", x) = [org |-> x]
    BY DEF With
  <2>4. PICK z : z = Uint(r.asn)
    OBVIOUS
  <2>5. With([org |-> x], "asn", z) = [org |-> x, asn |-> z]
    BY DEF With
  <2> QED
    BY <1>2, <2>1, <2>2, <2>3, <2>4, <2>5 DEF Org, Decoded
<1> QED
  BY <1>1, <1>2
-----------------------------------------------------------------------------
(* A lookup, from its first bit to the decoded record. *)

(* A lookup in a database that was written: the walk is at the block around
   the address, and what is decoded is the record of the address. *)
LookInv ==
  /\ rpc \in {"closed", "opened"} => bit = 0 /\ node = 0 /\ stack = <<>>
  /\ wpc = "done" /\ mm = Written /\ rpc \notin {"closed", "opened"} =>
       /\ query \in Queries /\ (rpc = "error" <=> ~Within(query))
       /\ (rpc = "walk" => bit \in 0 .. Bits /\ node = AtBlock(bit) /\ stack = <<>>)
       /\ (rpc = "absent" => db.tree[Point] = NoData)
       /\ (rpc \in {"decode", "return", "found"} =>
             \E p \in 1 .. Len(Records) : Records[p] = db.tree[Point] /\ RecordAt(Records[p], Begin(p)))

(* No lookup has begun. *)
LEMMA LookInvInit ==
  ASSUME Init
  PROVE  LookInv
BY DEF Init, ReaderIdle, LookInv

(* What the invariant speaks of stays as the database does. *)
LEMMA PlacesKept ==
  ASSUME UNCHANGED writeVars
  PROVE  /\ Bits' = Bits /\ Records' = Records /\ country' = country /\ db' = db
         /\ \A d, i : Side(d, i)' = Side(d, i)
         /\ \A p : Begin(p)' = Begin(p)
<1>1. db' = db /\ country' = country
  BY DEF writeVars
<1>2. Bits' = Bits /\ Records' = Records /\ RecordSize' = RecordSize
  BY <1>1 DEF Bits, Records, RecordSize
<1>3. \A d, i : NodeBlock(d, i)' = NodeBlock(d, i)
  BY <1>2 DEF NodeBlock
<1>4. Nodes' = Nodes
  BY <1>1, <1>2, <1>3 DEF Nodes
<1>5. \A c : NodeOf(c)' = NodeOf(c)
  BY <1>4 DEF NodeOf
<1>6. \A rec : Leaf(rec)' = Leaf(rec)
  BY <1>2, <1>4 DEF Leaf
<1>7. \A d, i : Side(d, i)' = Side(d, i)
  BY <1>1, <1>3, <1>4, <1>5, <1>6 DEF Side
<1>8. \A p : Begin(p)' = Begin(p)
  BY <1>2 DEF Begin
<1> QED
  BY <1>1, <1>2, <1>7, <1>8

(* So do the address and the walk of a lookup in progress. *)
LEMMA QueryKept ==
  ASSUME UNCHANGED writeVars, query' = query
  PROVE  /\ Point' = Point /\ (Within(query)' <=> Within(query)) /\ \A d : AtBlock(d)' = AtBlock(d)
<1>1. Point' = Point
  BY DEF Point, normalize, Unmap
<1>2. Within(query)' <=> Within(query)
  BY PlacesKept DEF Within, Unmap
<1>3. \A d : AtBlock(d)' = AtBlock(d)
  BY <1>1, PlacesKept DEF AtBlock
<1> QED
  BY <1>1, <1>2, <1>3

(* Reading a record is a matter of the decoder alone. *)
LEMMA StillAt ==
  ASSUME UNCHANGED <<country, rpc, off, value, stack>>, NEW r, NEW o, RecordAt(r, o)
  PROVE  RecordAt(r, o)'
BY DEF RecordAt, CountryForm, AsnForm, KeyAt, LeafAt

(* Who reads a record is decoding, or has the value. *)
LEMMA NowAt ==
  ASSUME NEW r, NEW o, RecordAt(r, o)'
  PROVE  rpc' \in {"decode", "return", "found"}
BY DEF RecordAt, CountryForm, AsnForm, KeyAt, LeafAt

(* A lookup begins. *)
LEMMA LookBegins ==
  ASSUME WriteInv, wpc = "done", mm = Written, LookInv, UNCHANGED writeVars, NEW q \in Queries, LookupValue(q)
  PROVE  LookInv'
<1>1. /\ rpc = "opened" /\ query' = q /\ mm' = mm /\ bit' = bit /\ node' = node /\ stack' = stack
      /\ rpc' = IF NotInDatabase(q) THEN "error" ELSE "walk"
  BY DEF LookupValue
<1>2. bit = 0 /\ node = 0 /\ stack = <<>>
  BY <1>1 DEF LookInv
<1>3. NotInDatabase(q) <=> ~Within(q)
  BY DEF NotInDatabase, Within, Written
<1>4. Within(query)' <=> Within(q)
  BY <1>1, PlacesKept DEF Within, Unmap
<1>5. rpc' = "walk" => AtBlock(0)' = 0
  <2> SUFFICES ASSUME rpc' = "walk" PROVE AtBlock(0)' = 0
    OBVIOUS
  <2>1. Within(q)
    BY <1>1, <1>3
  <2>2. PICK n : n = normalize(q)
    OBVIOUS
  <2>3. n \in 0 .. 2^Bits - 1
    BY <2>1, <2>2, AddressWithin
  <2>4. Point' = n
    BY <1>1, <2>2 DEF Point, normalize, Unmap
  <2>5. AtBlock(0)' = Side(0, n \div 2^(Bits - 0))
    BY <2>4, PlacesKept DEF AtBlock
  <2>6. Side(0, n \div 2^(Bits - 0)) = 0
    BY <2>3, WalkBegins
  <2> QED
    BY <2>5, <2>6
<1>6. 0 \in 0 .. Bits'
  BY BitsAre, PlacesKept
<1> QED
  BY <1>1, <1>2, <1>3, <1>4, <1>5, <1>6 DEF LookInv

(* It goes on. *)
LEMMA LookWalks ==
  ASSUME WriteInv, wpc = "done", mm = Written, LookInv, UNCHANGED writeVars, WalkStep
  PROVE  LookInv'
<1>1. rpc = "walk" /\ rpc' = rpc /\ query' = query /\ stack' = stack
  BY DEF WalkStep
<1>2. query \in Queries /\ Within(query) /\ bit \in 0 .. Bits /\ node = AtBlock(bit) /\ stack = <<>>
  BY <1>1 DEF LookInv
<1>3. bit' \in 0 .. Bits /\ node' = AtBlock(bit + 1) /\ bit' = bit + 1
  BY <1>2, WalkOn
<1>4. AtBlock(bit)' = AtBlock(bit + 1)
  <2>1. PICK d : d = bit + 1
    OBVIOUS
  <2>2. AtBlock(d)' = AtBlock(d)
    BY <1>1, QueryKept
  <2>3. AtBlock(bit)' = AtBlock(d)'
    BY <1>3, <2>1 DEF AtBlock
  <2> QED
    BY <2>1, <2>2, <2>3
<1> QED
  BY <1>1, <1>2, <1>3, <1>4, QueryKept, PlacesKept DEF LookInv

(* The walk ends at the record of the address, or at the empty mark. *)
LEMMA LookArrives ==
  ASSUME WriteInv, wpc = "done", mm = Written, LookInv, UNCHANGED writeVars, WalkEnds
  PROVE  LookInv'
<1>1. rpc = "walk" /\ query' = query /\ stack' = stack
  BY DEF WalkEnds
<1>2. query \in Queries /\ Within(query) /\ bit \in 0 .. Bits /\ node = AtBlock(bit) /\ stack = <<>>
  BY <1>1 DEF LookInv
<1>3. CASE db.tree[Point] = NoData /\ rpc' = "absent"
  BY <1>1, <1>2, <1>3, QueryKept, PlacesKept DEF LookInv
<1>4. CASE /\ rpc' = "decode"
           /\ \E p \in 1 .. Len(Records) : Records[p] = db.tree[Point] /\ off' = Separator + RecordSize * (p - 1)
  <2>1. PICK p \in 1 .. Len(Records) : Records[p] = db.tree[Point] /\ off' = Begin(p)
    BY <1>4 DEF Begin
  <2>2. PICK r, o : r = Records[p] /\ o = Begin(p)
    OBVIOUS
  <2>3. RecordAt(r, o)'
    BY <1>1, <1>2, <1>4, <2>1, <2>2 DEF RecordAt, CountryForm, AsnForm
  <2>4. /\ p \in 1 .. Len(Records') /\ Records'[p] = db'.tree[Point'] /\ r = Records'[p] /\ o = Begin(p)'
    BY <1>1, <2>1, <2>2, QueryKept, PlacesKept
  <2>5. RecordAt(Records[p], Begin(p))'
    BY <2>3, <2>4 DEF RecordAt, CountryForm, AsnForm, KeyAt, LeafAt
  <2> QED
    BY <1>1, <1>2, <1>4, <2>4, <2>5, QueryKept DEF LookInv
<1> QED
  BY <1>2, <1>3, <1>4, WalkOver

(* A step of the decoder. *)
LEMMA LookDecodes ==
  ASSUME WriteInv, wpc = "done", mm = Written, LookInv, UNCHANGED writeVars, DecodeStep
  PROVE  LookInv'
<1>1. rpc \in {"decode", "return"} /\ query' = query
  BY DEF DecodeStep, Decode, Resume, LookupReturns
<1>2. query \in Queries /\ Within(query)
  BY <1>1 DEF LookInv
<1>3. PICK p \in 1 .. Len(Records) : Records[p] = db.tree[Point] /\ RecordAt(Records[p], Begin(p))
  BY <1>1 DEF LookInv
<1>4. PICK r : r = Records[p]
  OBVIOUS
<1>5. PICK o : o = Begin(p)
  OBVIOUS
<1>6. RecordAt(r, o)'
  BY <1>3, <1>4, <1>5, AsnRecordStep, CountryRecordStep, PlacesKept
<1>7. rpc' \in {"decode", "return", "found"}
  BY <1>6, NowAt
<1>8. /\ p \in 1 .. Len(Records') /\ Records'[p] = db'.tree[Point'] /\ r = Records'[p] /\ o = Begin(p)'
  BY <1>1, <1>3, <1>4, <1>5, QueryKept, PlacesKept
<1>9. RecordAt(Records[p], Begin(p))'
  BY <1>6, <1>8 DEF RecordAt, CountryForm, AsnForm, KeyAt, LeafAt
<1> QED
  BY <1>1, <1>2, <1>7, <1>8, <1>9, QueryKept DEF LookInv

(* A step of the reader. *)
LEMMA LookOn ==
  ASSUME LookInv, OpenInv, WriteInv, ReaderNext, UNCHANGED writeVars
  PROVE  LookInv'
<1>1. /\ mm' = mm
      /\ \/ rpc = "closed" /\ mm # NoMm /\ rpc' = (IF mm.valid /\ Fits(mm) THEN "opened" ELSE "error")
         \/ rpc # "closed" /\ rpc' \notin {"closed", "opened"}
  BY ReaderSteps
<1>2. wpc' = wpc /\ Written' = Written
  BY WrittenKept DEF writeVars
<1>3. CASE rpc = "closed"
  <2>1. OpenMMDB
    BY <1>3 DEF ReaderNext, OpenMMDB, LookupValue, WalkStep, WalkEnds, DecodeStep, Decode, Resume, LookupReturns
  <2>2. bit' = bit /\ node' = node /\ stack' = stack /\ bit = 0 /\ node = 0 /\ stack = <<>>
    BY <1>3, <2>1 DEF OpenMMDB, LookInv
  <2>3. wpc = "done" /\ mm = Written => rpc' = "opened"
    BY <1>1, <1>3, WrittenFits
  <2> QED
    BY <1>1, <1>2, <2>2, <2>3 DEF LookInv
<1>4. CASE rpc # "closed" /\ ~(wpc = "done" /\ mm = Written)
  BY <1>1, <1>2, <1>4 DEF LookInv
<1>5. CASE rpc # "closed" /\ wpc = "done" /\ mm = Written
  <2>1. ~OpenMMDB
    BY <1>5 DEF OpenMMDB
  <2> QED
    BY <1>5, <2>1, LookBegins, LookWalks, LookArrives, LookDecodes DEF ReaderNext
<1> QED
  BY <1>3, <1>4, <1>5

(* Every step keeps the invariant. *)
LEMMA LookInvStep ==
  ASSUME LookInv, OpenInv, WriteInv, [Next]_vars
  PROVE  LookInv'
<1>1. CASE UNCHANGED readerVars
  <2>1. UNCHANGED <<mm, rpc, query, bit, node, off, value, stack>>
    BY <1>1 DEF readerVars
  <2>2. CASE wpc = "done"
    <3>1. UNCHANGED writeVars
      BY <2>2, EndedKept
    <3>2. wpc' = wpc /\ Written' = Written
      BY <3>1, WrittenKept DEF writeVars
    <3>3. /\ Bits' = Bits /\ Records' = Records /\ country' = country /\ db' = db
          /\ Point' = Point /\ (Within(query)' <=> Within(query)) /\ \A p : Begin(p)' = Begin(p)
      BY <2>1, <3>1, PlacesKept, QueryKept
    <3>4. AtBlock(bit)' = AtBlock(bit)
      <4>1. PICK d : d = bit
        OBVIOUS
      <4>2. AtBlock(d)' = AtBlock(d)
        BY <2>1, <3>1, QueryKept
      <4>3. AtBlock(bit)' = AtBlock(d)'
        BY <2>1, <4>1 DEF AtBlock
      <4> QED
        BY <4>1, <4>2, <4>3
    <3>5. ASSUME NEW p \in 1 .. Len(Records), Records[p] = db.tree[Point], RecordAt(Records[p], Begin(p))
          PROVE  Records'[p] = db'.tree[Point'] /\ RecordAt(Records[p], Begin(p))'
      <4>1. PICK r : r = Records[p]
        OBVIOUS
      <4>2. PICK o : o = Begin(p)
        OBVIOUS
      <4>3. RecordAt(r, o)'
        BY <2>1, <3>3, <3>5, <4>1, <4>2, StillAt
      <4>4. r = Records'[p] /\ o = Begin(p)'
        BY <3>3, <4>1, <4>2
      <4>5. RecordAt(Records[p], Begin(p))'
        BY <4>3, <4>4 DEF RecordAt, CountryForm, AsnForm, KeyAt, LeafAt
      <4> QED
        BY <3>3, <3>5, <4>5
    <3> QED
      BY <2>1, <3>2, <3>3, <3>4, <3>5 DEF LookInv
  <2>3. CASE wpc # "done" /\ wpc' # "done"
    BY <2>1, <2>3 DEF LookInv
  <2>4. CASE wpc # "done" /\ wpc' = "done"
    <3>1. wpc = "insert"
      BY <2>4 DEF Next, vars, writeVars, Embed, WriteNext, ReadSpec, ReadSpecFails, Create, Insert, WriteTo, WriteToFails
    <3>2. life # "foreign"
      BY <3>1 DEF WriteInv
    <3>3. rpc = "closed"
      BY <3>1, <3>2 DEF OpenInv
    <3> QED
      BY <2>1, <3>3 DEF LookInv
  <2> QED
    BY <2>2, <2>3, <2>4
<1>2. CASE Appear /\ UNCHANGED writeVars
  BY <1>2 DEF Appear, LookInv
<1>3. CASE ReaderNext /\ UNCHANGED writeVars
  BY <1>3, LookOn
<1> QED
  BY <1>1, <1>2, <1>3 DEF Next, vars, Embed

(* The four invariants of the life of a database. *)
LEMMA LookInvariant == Spec => [](NomInv /\ WriteInv /\ OpenInv /\ LookInv)
<1>1. Init => NomInv /\ WriteInv /\ OpenInv /\ LookInv
  BY NomInvInit, WriteInvInit, OpenInvInit, LookInvInit DEF Init
<1>2. (NomInv /\ WriteInv /\ OpenInv /\ LookInv) /\ [Next]_vars => (NomInv /\ WriteInv /\ OpenInv /\ LookInv)'
  BY NomInvStep, WriteInvStep, OpenInvStep, LookInvStep
<1> QED
  BY <1>1, <1>2, PTL DEF Spec

(* What the last entry over an address left there. *)
LEMMA LastIs ==
  ASSUME WriteInv, wpc = "done", NEW q \in Queries, Within(q), NEW n, n = normalize(q)
  PROVE  /\ Holding(q) = {} <=> db.tree[n] = NoData
         /\ Holding(q) # {} => db.tree[n] = Record(spec[Max(Holding(q))])
<1>1. n \in 0 .. 2^Bits - 1
  BY AddressWithin
<1>2. db.tree[n] = Last(Base(n), Len(spec))
  BY <1>1, WholeFacts
<1>3. SpecRead /\ Len(spec) \in Nat /\ DOMAIN spec = 1 .. Len(spec)
  <2>1. spec \in Specs
    BY WholeFacts DEF SpecRead
  <2> QED
    BY <2>1, WholeFacts, SpecFacts
<1>4. PICK b : b = Base(n)
  OBVIOUS
<1>5. PICK H : H = Holding(q) /\ H = Reach(b, Len(spec))
  BY <1>3, <1>4 DEF Holding, Reach
<1>6. db.tree[n] = IF H = {} THEN NoData ELSE Record(spec[Max(H)])
  BY <1>2, <1>4, <1>5 DEF Last
<1>7. ASSUME H # {} PROVE Record(spec[Max(H)]) # NoData
  <2>1. Max(H) \in H
    <3>1. PICK N \in Nat : N = Len(spec)
      BY <1>3
    <3>2. H \in SUBSET (1 .. N)
      BY <1>5, <3>1 DEF Reach
    <3>3. H \in SUBSET Int /\ H \in SUBSET (0 .. N)
      BY <3>2
    <3>4. PICK x \in H : \A y \in H : x >= y
      BY <1>7, <3>1, <3>3, GreatestExists
    <3> QED
      BY <3>3, <3>4, MaxIs
  <2>2. PICK i \in 1 .. Len(spec) : i = Max(H) /\ ~Skipped(spec[i])
    BY <1>5, <2>1 DEF Reach
  <2>3. spec \in Specs /\ i \in DOMAIN spec
    BY <1>3 DEF SpecRead
  <2>4. CASE country
    <3>1. embedded.countries[spec[i].org] \in embedded.continents
      BY <2>2, <2>4 DEF Skipped
    <3>2. PICK row \in ContinentRows : row.code = embedded.countries[spec[i].org]
      BY <3>1 DEF WriteInv, CodesOf
    <3>3. NoData # [country |-> [iso |-> spec[i].org], continent |-> row.code]
      BY <2>3, NoDataAssumption
    <3> QED
      BY <2>2, <2>4, <3>2, <3>3 DEF Record
  <2>5. CASE ~country
    <3>1. NoData # [asn |-> spec[i].asn, org |-> spec[i].org]
      BY <2>3, NoDataAssumption
    <3> QED
      BY <2>2, <2>5, <3>1 DEF Record
  <2> QED
    BY <2>4, <2>5
<1> QED
  BY <1>5, <1>6, <1>7

(* The record of an address is that of the last entry over it. *)
LEMMA LookIsExact ==
  ASSUME WriteInv, OpenInv, LookInv
  PROVE  LookupExact
<1> SUFFICES ASSUME NEW q \in Queries, Answered(q)
             PROVE  /\ rpc = "error" <=> NotInDatabase(q)
                    /\ rpc = "absent" <=> ~NotInDatabase(q) /\ Holding(q) = {}
                    /\ rpc = "found" => value = Decoded(Record(spec[Max(Holding(q))]))
  BY DEF LookupExact
<1>1. db.state = "new" /\ rpc \in {"found", "absent", "error"} /\ mm.valid /\ query = q
  BY DEF Answered
<1>2. wpc = "done" /\ life # "foreign"
  BY <1>1 DEF WriteInv
<1>3. mm = Written
  BY <1>1, <1>2 DEF OpenInv
<1>4. NotInDatabase(q) <=> ~Within(q)
  BY <1>3 DEF NotInDatabase, Within, Written
<1>5. /\ rpc = "error" <=> ~Within(q)
      /\ rpc = "absent" => db.tree[Point] = NoData
      /\ rpc = "found" => \E p \in 1 .. Len(Records) : Records[p] = db.tree[Point] /\ RecordAt(Records[p], Begin(p))
  BY <1>1, <1>2, <1>3 DEF LookInv
<1>6. CASE rpc = "error"
  BY <1>4, <1>5, <1>6
<1>7. CASE rpc # "error"
  <2>1. Within(q) /\ rpc \in {"found", "absent"}
    BY <1>1, <1>5, <1>7
  <2>2. /\ Holding(q) = {} <=> db.tree[Point] = NoData
        /\ Holding(q) # {} => db.tree[Point] = Record(spec[Max(Holding(q))])
    BY <1>1, <1>2, <2>1, LastIs DEF Point
  <2>3. CASE rpc = "absent"
    BY <1>4, <1>5, <2>1, <2>2, <2>3
  <2>4. CASE rpc = "found"
    <3>1. PICK p \in 1 .. Len(Records) : Records[p] = db.tree[Point] /\ RecordAt(Records[p], Begin(p))
      BY <1>5, <2>4
    <3>2. value = Decoded(Records[p])
      BY <2>4, <3>1, RecordFound
    <3>3. Records[p] # NoData
      BY <1>2, WholeFacts, RecordsAre
    <3> QED
      BY <1>4, <2>1, <2>2, <2>4, <3>1, <3>2, <3>3
  <2> QED
    BY <2>1, <2>3, <2>4
<1> QED
  BY <1>6, <1>7

(* The reader returns, for every address, the decoded record of the last entry
   of the spec over it: through the tree with its aliases, the layout of the
   file, the walk (mmdb.go:109-139), the pointers and the maps.  It finds
   nothing where no entry lies, and fails only for an IPv6 address in an IPv4
   database. *)
THEOREM LookupCorrect == Spec => []LookupExact
<1>1. NomInv /\ WriteInv /\ OpenInv /\ LookInv => LookupExact
  BY LookIsExact
<1> QED
  BY <1>1, LookInvariant, PTL
-----------------------------------------------------------------------------
(* The database and the table of the same spec. *)

(* The entries of a spec as the table takes them, each with its position. *)
Lines(es) ==
  es = [i \in DOMAIN spec |-> [v4 |-> spec[i].v4, lo |-> spec[i].lo, hi |-> spec[i].hi,
                               length |-> spec[i].length, line |-> i]]

InOrder == \A i, j \in DOMAIN spec : i < j /\ spec[i].v4 = spec[j].v4 => spec[i].length <= spec[j].length
Apart == \A i \in DOMAIN spec : spec[i].v4 \/ Under(spec[i]) \cap V4!Addr = {}

(* Where the two families keep apart, what holds an address in the database is
   what holds it in its family. *)
LEMMA SameHolders ==
  ASSUME WriteInv, wpc = "done", ~country, Apart, NEW q \in Queries, Within(q),
         Unmap(q).v4 \/ (Base(q.ip) = q.ip /\ q.ip \notin V4!Addr)
  PROVE  /\ Len(spec) \in Nat /\ DOMAIN spec = 1 .. Len(spec)
         /\ \A i \in 1 .. Len(spec) :
              i \in Holding(q) <=> (/\ spec[i].v4 = Unmap(q).v4
                                    /\ spec[i].lo <= Unmap(q).ip /\ Unmap(q).ip <= spec[i].hi)
<1>1. spec \in Specs /\ Len(spec) \in Nat /\ DOMAIN spec = 1 .. Len(spec)
  <2>1. spec \in Specs
    BY WholeFacts DEF SpecRead
  <2> QED
    BY <2>1, SpecFacts
<1>2. PICK n \in Nat : n = Unmap(q).ip /\ n = normalize(q)
  BY AddressWithin DEF normalize
<1>3. PICK four : four = Unmap(q).v4
  OBVIOUS
<1>4. q \in Addresses
  BY QueryAssumption
<1>5. four \in BOOLEAN /\ (four => n \in V4!Addr) /\ (~four => n = q.ip)
  <2>1. (q.v4 = TRUE /\ q.ip \in V4!Addr) \/ (q.v4 = FALSE /\ q.ip \in V6!Addr)
    BY <1>4 DEF Addresses
  <2>2. CASE ~q.v4 /\ q.ip \in MappedBlock
    <3>1. q.ip - Mapped \in 0 .. V4!TopAddr
      BY <2>1, <2>2, AddrFacts, MappedAssumption DEF MappedBlock
    <3>2. Unmap(q).v4 = TRUE /\ Unmap(q).ip = q.ip - Mapped
      BY <2>2 DEF Unmap
    <3> QED
      BY <1>2, <1>3, <3>1, <3>2, AddrFacts
  <2>3. CASE ~(~q.v4 /\ q.ip \in MappedBlock)
    <3>1. Unmap(q) = q
      BY <2>3 DEF Unmap
    <3> QED
      BY <1>2, <1>3, <2>1, <3>1
  <2> QED
    BY <2>2, <2>3
<1>6. Base(n) = n
  <2>1. CASE four
    <3>1. n <= V4!TopAddr
      BY <1>5, <2>1, AddrFacts
    <3> QED
      BY <3>1, BaseFacts, AddrFacts
  <2>2. CASE ~four
    BY <1>3, <1>5, <2>2
  <2> QED
    BY <2>1, <2>2
<1>7. ASSUME NEW i \in 1 .. Len(spec)
      PROVE  i \in Holding(q) <=> (spec[i].v4 = four /\ spec[i].lo <= n /\ n <= spec[i].hi)
  <2>1. PICK e : e = spec[i]
    OBVIOUS
  <2>2. e.v4 \in BOOLEAN /\ e.lo \in Nat /\ e.hi \in Nat /\ (e.v4 => e.hi <= V4!TopAddr)
    BY <1>1, <2>1, SpecFacts
  <2>3. i \in Holding(q) <=> ~Skipped(e) /\ ~Aliased(e) /\ n \in Under(e)
    BY <1>1, <1>2, <1>6, <2>1 DEF Holding
  <2>4. ~Skipped(e)
    BY DEF Skipped
  <2>5. n \in Under(e) <=> (e.lo <= n /\ n <= e.hi)
    BY <2>2 DEF Under
  <2>6. n \in Under(e) => e.v4 = four
    <3> SUFFICES ASSUME n \in Under(e) PROVE e.v4 = four
      OBVIOUS
    <3>1. CASE four /\ ~e.v4
      <4>1. Under(e) \cap V4!Addr = {}
        BY <1>1, <2>1, <3>1 DEF Apart
      <4> QED
        BY <1>5, <3>1, <4>1
    <3>2. CASE ~four /\ e.v4
      <4>1. n \in V4!Addr
        BY <2>2, <2>5, <3>2, AddrFacts
      <4>2. n \notin V4!Addr
        BY <1>3, <1>5, <3>2
      <4> QED
        BY <4>1, <4>2
    <3> QED
      BY <1>5, <2>2, <3>1, <3>2
  <2>7. n \in Under(e) => ~Aliased(e)
    <3> SUFFICES ASSUME n \in Under(e), Aliased(e) PROVE FALSE
      OBVIOUS
    <3>1. version = 6 /\ InAlias(n)
      BY DEF Aliased, InAlias
    <3> QED
      BY <1>6, <3>1, BaseFacts
  <2> QED
    BY <2>1, <2>3, <2>4, <2>5, <2>6, <2>7
<1> QED
  BY <1>1, <1>2, <1>3, <1>7

(* Where the spec lists narrow prefixes after broad ones the last of those that
   hold an address is the longest. *)
LEMMA TableLine ==
  ASSUME WriteInv, wpc = "done", ~country, InOrder, Apart, NEW q \in Queries, Within(q),
         Unmap(q).v4 \/ (Base(q.ip) = q.ip /\ q.ip \notin V4!Addr), NEW es, Lines(es)
  PROVE  /\ Lookup(es, q) = None <=> Holding(q) = {}
         /\ Holding(q) # {} => Lookup(es, q).line = Max(Holding(q))
<1>1. PICK N \in Nat : N = Len(spec) /\ DOMAIN spec = 1 .. N
  BY SameHolders
<1>2. PICK u : u = Unmap(q)
  OBVIOUS
<1>3. PICK H : H = Holding(q)
  OBVIOUS
<1>4. H \in SUBSET (1 .. N)
  BY <1>1, <1>3 DEF Holding
<1>5. \A i \in 1 .. N : i \in H <=> (spec[i].v4 = u.v4 /\ spec[i].lo <= u.ip /\ u.ip <= spec[i].hi)
  BY <1>1, <1>2, <1>3, SameHolders
<1>6. /\ DOMAIN es = 1 .. N
      /\ \A i \in 1 .. N : /\ es[i].v4 = spec[i].v4 /\ es[i].lo = spec[i].lo /\ es[i].hi = spec[i].hi
                           /\ es[i].length = spec[i].length /\ es[i].line = i
  BY <1>1 DEF Lines
<1>7. PICK holds : holds = {e \in InFamily(es, u.v4) : e.lo <= u.ip /\ u.ip <= e.hi}
  OBVIOUS
<1>8. holds = {es[i] : i \in H}
  <2>1. \A e : e \in InFamily(es, u.v4) <=> \E i \in 1 .. N : es[i].v4 = u.v4 /\ e = es[i]
    BY <1>6 DEF InFamily
  <2>2. ASSUME NEW e \in holds PROVE e \in {es[i] : i \in H}
    <3>1. e \in InFamily(es, u.v4) /\ e.lo <= u.ip /\ u.ip <= e.hi
      BY <1>7, <2>2
    <3>2. PICK i \in 1 .. N : es[i].v4 = u.v4 /\ e = es[i]
      BY <2>1, <3>1
    <3>3. i \in H
      BY <1>5, <1>6, <3>1, <3>2
    <3> QED
      BY <3>2, <3>3
  <2>3. ASSUME NEW i \in H PROVE es[i] \in holds
    <3>1. i \in 1 .. N /\ es[i].v4 = u.v4 /\ es[i].lo <= u.ip /\ u.ip <= es[i].hi
      BY <1>4, <1>5, <1>6
    <3>2. es[i] \in InFamily(es, u.v4)
      BY <2>1, <3>1
    <3> QED
      BY <1>7, <3>1, <3>2
  <2> QED
    BY <2>2, <2>3
<1>9. PICK longest : longest = {e \in holds : \A f \in holds : f.length <= e.length}
  OBVIOUS
<1>10. Lookup(es, q) = IF holds = {} THEN None ELSE CHOOSE e \in longest : \A f \in longest : f.line <= e.line
  BY <1>2, <1>7, <1>9 DEF Lookup
<1>11. CASE H = {}
  BY <1>3, <1>8, <1>10, <1>11
<1>12. CASE H # {}
  <2>1. PICK m \in H : \A j \in H : m >= j
    <3>1. H \in SUBSET (0 .. N)
      BY <1>4
    <3> QED
      BY <1>12, <3>1, GreatestExists
  <2>2. Max(H) = m
    <3>1. H \in SUBSET Int
      BY <1>4
    <3> QED
      BY <2>1, <3>1, MaxIs
  <2>3. m \in 1 .. N /\ es[m] \in holds /\ es[m].line = m
    BY <1>4, <1>6, <1>8, <2>1
  <2>4. \A j \in H : es[j].length <= es[m].length
    <3> TAKE j \in H
    <3>1. j \in 1 .. N /\ j <= m /\ spec[j].v4 = u.v4 /\ spec[m].v4 = u.v4
      BY <1>4, <1>5, <2>1, <2>3
    <3>2. spec[m].length \in Nat
      BY <1>1, <2>3, WholeFacts, SpecFacts DEF SpecRead
    <3>3. spec[j].length <= spec[m].length
      <4>1. CASE j = m
        BY <3>2, <4>1
      <4>2. CASE j < m
        BY <1>1, <2>3, <3>1, <4>2 DEF InOrder
      <4> QED
        BY <2>3, <3>1, <4>1, <4>2
    <3> QED
      BY <1>6, <2>3, <3>1, <3>3
  <2>5. es[m] \in longest
    BY <1>8, <1>9, <2>3, <2>4
  <2>6. \A f \in longest : f.line <= m /\ (f.line >= m => f = es[m])
    <3> TAKE f \in longest
    <3>1. PICK j \in H : f = es[j]
      BY <1>8, <1>9
    <3>2. j \in 1 .. N /\ f.line = j /\ j <= m
      BY <1>4, <1>6, <2>1, <2>3, <3>1
    <3> QED
      BY <2>3, <3>1, <3>2
  <2>7. PICK hit : hit = CHOOSE e \in longest : \A f \in longest : f.line <= e.line
    OBVIOUS
  <2>8. hit \in longest /\ \A f \in longest : f.line <= hit.line
    <3>1. \A f \in longest : f.line <= es[m].line
      BY <2>3, <2>6
    <3> QED
      BY <2>5, <2>7, <3>1
  <2>9. hit = es[m]
    <3>1. es[m].line <= hit.line
      BY <2>5, <2>8
    <3>2. PICK j \in H : hit = es[j]
      BY <1>8, <1>9, <2>8
    <3>3. j \in 1 .. N /\ hit.line = j
      BY <1>4, <1>6, <3>2
    <3> QED
      BY <2>3, <2>6, <2>8, <3>1, <3>3
  <2>10. Lookup(es, q) = es[m]
    BY <1>10, <2>3, <2>7, <2>9
  <2>11. es[m] # None
    <3>1. None.line = 0
      BY DEF None
    <3> QED
      BY <2>3, <3>1
  <2> QED
    BY <1>3, <1>12, <2>2, <2>3, <2>10, <2>11
<1> QED
  BY <1>11, <1>12

(* The last entry over an address is the longest match, where the order says so. *)
LEMMA TableAgrees ==
  ASSUME WriteInv, OpenInv, LookInv
  PROVE  AgreesWithTable
<1> DEFINE T == [i \in DOMAIN spec |-> [v4 |-> spec[i].v4, lo |-> spec[i].lo, hi |-> spec[i].hi,
                                        length |-> spec[i].length, line |-> i]]
<1>1. PICK es : es = T
  OBVIOUS
<1>2. Lines(es)
  BY <1>1 DEF Lines
<1>3. ASSUME NEW q \in Queries, Answered(q), rpc # "error", ~country, InOrder, Apart,
             Unmap(q).v4 \/ (Base(q.ip) = q.ip /\ q.ip \notin V4!Addr)
      PROVE  IF Lookup(es, q) = None THEN rpc = "absent"
             ELSE rpc = "found" /\ value = Decoded(Record(spec[Lookup(es, q).line]))
  <2>1. wpc = "done" /\ mm = Written
    <3>1. db.state = "new" /\ mm.valid /\ rpc # "closed"
      BY <1>3 DEF Answered
    <3>2. wpc = "done" /\ life # "foreign"
      BY <3>1 DEF WriteInv
    <3> QED
      BY <3>1, <3>2 DEF OpenInv
  <2>2. /\ rpc = "error" <=> NotInDatabase(q)
        /\ rpc = "absent" <=> ~NotInDatabase(q) /\ Holding(q) = {}
        /\ rpc = "found" => value = Decoded(Record(spec[Max(Holding(q))]))
    BY <1>3, LookIsExact DEF LookupExact
  <2>3. Within(q)
    BY <1>3, <2>1, <2>2 DEF NotInDatabase, Within, Written
  <2>4. /\ Lookup(es, q) = None <=> Holding(q) = {}
        /\ Holding(q) # {} => Lookup(es, q).line = Max(Holding(q))
    BY <1>2, <1>3, <2>1, <2>3, TableLine
  <2>5. rpc \in {"found", "absent"}
    BY <1>3 DEF Answered
  <2> QED
    BY <1>3, <2>2, <2>4, <2>5
<1>4. ASSUME NEW q \in Queries, Answered(q), rpc # "error", ~country, InOrder, Apart,
             Unmap(q).v4 \/ (Base(q.ip) = q.ip /\ q.ip \notin V4!Addr)
      PROVE  IF Lookup(T, q) = None THEN rpc = "absent"
             ELSE rpc = "found" /\ value = Decoded(Record(spec[Lookup(T, q).line]))
  BY <1>1, <1>3, <1>4
<1> HIDE DEF T
<1> QED
  BY <1>4 DEF AgreesWithTable, InOrder, Apart, T

(* A database and the Table of the same spec answer alike where narrow prefixes
   come after the broad ones, no IPv6 prefix reaches the IPv4 addresses, and the
   address is no alias (mmdb-write 229, table.go). *)
THEOREM DatabaseAgrees == Spec => []AgreesWithTable
<1>1. NomInv /\ WriteInv /\ OpenInv /\ LookInv => AgreesWithTable
  BY TableAgrees
<1> QED
  BY <1>1, LookInvariant, PTL
=============================================================================
