------------------------------ MODULE Families ------------------------------
(***************************************************************************)
(* How the library sends prefixes and queries to the two address families: *)
(* ParsePrefix, Builder.Add, TableBuilder.Add, Set.Contains, Table.Lookup, *)
(* with IPv4-mapped IPv6 addresses and zones.  What Freeze makes of the    *)
(* prefixes of one family is taken from SetBuilder (FreezeIsExact) and     *)
(* TableSweep (TablesExact).                                               *)
(***************************************************************************)
EXTENDS Integers, Sequences, FiniteSetsExt

CONSTANTS
  W4, W6,      (* The widths of the families in bits, 32 and 128.           *)
  Mapped,      (* The IPv6 address that stands for the first of IPv4.       *)
  Zones        (* The zones of an IPv6 address; 0 is none.                  *)

V4 == INSTANCE Addresses WITH W <- W4
V6 == INSTANCE Addresses WITH W <- W6

MappedBlock == Mapped .. Mapped + V4!TopAddr

ASSUME WidthAssumption == W4 \in Nat /\ W6 \in Nat
ASSUME PowerAssumption == \A w \in {W4, W6} : \A k \in 0 .. w : 2^k \in 1 .. 2^w
ASSUME ZoneAssumption == Zones \subseteq Nat
ASSUME MappedAssumption == Mapped \in V6!Addr /\ MappedBlock \subseteq V6!Addr /\ Mapped % 2^W4 = 0 /\ 0 \in Zones

(* netip.Addr. *)
Addresses == [v4 : {TRUE}, ip : V4!Addr, zone : {0}] \cup [v4 : {FALSE}, ip : V6!Addr, zone : Zones]

(* Addr.Unmap: the wrapped IPv4 address, without the zone. *)
Unmap(a) ==
  IF ~a.v4 /\ a.ip \in MappedBlock THEN [v4 |-> TRUE, ip |-> a.ip - Mapped, zone |-> 0] ELSE a

(* Addr.Less within a family: by address, then by zone. *)
Less(a, b) == a.ip < b.ip \/ (a.ip = b.ip /\ a.zone < b.zone)

Plain(a, ip) == [a EXCEPT !.ip = ip, !.zone = 0]
-----------------------------------------------------------------------------
(* A text prefix is [addr, bits]: an address with a mask length, or a bare one. *)
Bare == -1

Texts == {t \in [addr : Addresses, bits : {Bare} \cup 0 .. W6] : t.addr.v4 => t.bits <= W4}

Prefix(a, bits) ==
  LET p == IF a.v4 THEN V4!Prefix(a.ip, bits) ELSE V6!Prefix(a.ip, bits)
  IN [v4 |-> a.v4, lo |-> p.lo, hi |-> p.hi, length |-> p.length]

(* Mutant: a bare address not unmapped. *)
ParsePrefixRaw(t) ==
  CASE t.bits = Bare -> {Prefix(t.addr, IF t.addr.v4 THEN W4 ELSE W6)}
    [] t.bits # Bare /\ t.addr.zone # 0 -> {}
    [] t.bits # Bare /\ t.addr.zone = 0 -> {Prefix(t.addr, t.bits)}

(* The prefix, or none on an error.  netip.ParsePrefix rejects a zone and keeps
   a mapped address in IPv6; a bare address is unmapped, and PrefixFrom drops
   its zone. *)
ParsePrefix(t) ==
  CASE t.bits = Bare -> {Prefix(Unmap(t.addr), IF Unmap(t.addr).v4 THEN W4 ELSE W6)}
    [] t.bits # Bare /\ t.addr.zone # 0 -> {}
    [] t.bits # Bare /\ t.addr.zone = 0 -> {Prefix(t.addr, t.bits)}

(* Builder.Freeze: the intervals of a family, merged. *)
mergeRanges(ps) ==
  LET covered == UNION {p.lo .. p.hi : p \in ps}
      runs == {r \in covered \X covered :
                 /\ r[1] <= r[2] /\ r[1] .. r[2] \subseteq covered
                 /\ r[1] - 1 \notin covered /\ r[2] + 1 \notin covered}
  IN {[lo |-> r[1], hi |-> r[2]] : r \in runs}

(* Entries carry the position of their line as the value. *)
InFamily(es, four) == {es[i] : i \in {j \in DOMAIN es : es[j].v4 = four}}

Freeze(es) == [v4 |-> mergeRanges(InFamily(es, TRUE)), v6 |-> mergeRanges(InFamily(es, FALSE))]

(* Mutant: the query not unmapped. *)
ContainsRaw(set, a) ==
  LET rs == IF a.v4 THEN set.v4 ELSE set.v6
  IN \E r \in rs : ~Less(a, Plain(a, r.lo)) /\ ~Less(Plain(a, r.hi), a)

(* The last interval that starts at or below the address decides. *)
Contains(set, a) ==
  LET u == Unmap(a)
      rs == IF u.v4 THEN set.v4 ELSE set.v6
      below == {r.lo : r \in {s \in rs : ~Less(u, Plain(u, s.lo))}}
  IN below # {} /\ \E r \in rs : r.lo = Max(below) /\ ~Less(Plain(u, r.hi), u)

None == [v4 |-> TRUE, lo |-> 0, hi |-> 0, length |-> -1, line |-> 0]

(* The longest of the prefixes of the family that hold the address, and the
   last added of that length.  No segment starts with a zone, so the search
   finds the segment of the address without its zone. *)
Lookup(es, a) ==
  LET u == Unmap(a)
      holds == {e \in InFamily(es, u.v4) : e.lo <= u.ip /\ u.ip <= e.hi}
      longest == {e \in holds : \A f \in holds : f.length <= e.length}
  IN IF holds = {} THEN None
     ELSE CHOOSE e \in longest : \A f \in longest : f.line <= e.line

(* Builder counts every prefix given, Set.Len the intervals that are left. *)
Stats(es) == [prefixes |-> Len(es), intervals |-> Cardinality(Freeze(es).v4) + Cardinality(Freeze(es).v6)]

(* resolve of the programs: membership and the owner, of the same address. *)
resolve(es, a) == [ip |-> a, member |-> Contains(Freeze(es), a), info |-> Lookup(es, a)]
=============================================================================
