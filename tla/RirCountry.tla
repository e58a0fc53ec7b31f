----------------------------- MODULE RirCountry -----------------------------
(***************************************************************************)
(* cmd/rir-country: delegated files of the registries, line by line, into  *)
(* a table from prefix to record, then a sorted spec file and a conflict   *)
(* log.  A line is handled whole in one action (its prefixes are distinct, *)
(* so their updates are independent).  Country codes and dates are numbers *)
(* in their lexicographic order.  Both families are W bits wide and counts *)
(* are U bits wide, U > W, as uint64 is wider than an IPv4 address.        *)
(***************************************************************************)
EXTENDS Integers, Sequences, FiniteSetsExt, Addresses

CONSTANTS
  U,           (* The width of a count in bits.                             *)
  Lines,       (* The lines a file may hold.                                *)
  Files,       (* How many sources there are; file f is registry f.         *)
  Modes,       (* The values of -conflict: "date", "specific".              *)
  MaxLines     (* Bound on the lines read, all files together.              *)

ASSUME ModeAssumption == Modes \subseteq {"date", "specific"}
ASSUME BoundAssumption == Files \in Nat /\ MaxLines \in Nat
ASSUME WidthAssumption == W \in Nat /\ U \in Nat /\ W < U

(* What the arithmetic of two numbers of bits rests on. *)
ASSUME PowerAssumption ==
  /\ 2^0 = 1 /\ 2^1 = 2 /\ 2 * 2^W <= 2^U
  /\ \A j \in 0 .. U : 2^j \in Nat \ {0}
  /\ \A j \in 0 .. W : \A k \in 0 .. j : 2^j = 2^k * 2^(j - k)

ASSUME LineAssumption ==
  \A l \in Lines :
    /\ l.kind \in {"other", "garbled", "block"} /\ l.family \in {"ipv4", "ipv6"}
    /\ l.cc \in Nat /\ l.date \in Nat /\ l.value \in Nat /\ l.value < 2^U
    /\ l.start \in Addr

VARIABLES
  mode,        (* The value of -conflict.                                   *)
  pc, file,    (* Where run is, and the source being read.                  *)
  table,       (* From the prefixes claimed so far to records.              *)
  st,          (* The counters of the summary line.                         *)
  conflicts,   (* The conflicts, in the order they were met.                *)
  out, log,    (* The spec file and the conflict log: Old, or what they hold. *)
  read,        (* How many lines were read.                                 *)
  seen         (* History: the lines read, each with its registry.          *)

vars == <<mode, pc, file, table, st, conflicts, out, log, read, seen>>

Old == [old |-> TRUE, rows |-> {}]
Holding(rows) == [old |-> FALSE, rows |-> rows]

Init ==
  /\ mode \in Modes
  /\ pc = "open" /\ file = 1
  /\ table = <<>> /\ conflicts = <<>>
  /\ st = [rows |-> 0, prefixes |-> 0, malformed |-> 0, skipped |-> 0,
           conflicts |-> 0, unresolved |-> 0]
  /\ out = Old /\ log = Old
  /\ read = 0 /\ seen = {}
-----------------------------------------------------------------------------
(* parseLine.  A line is of kind "other" (header, summary, asn, reserved,
   no country), "garbled" (its start or its count does not parse, or the
   start is of the other family) or "block". *)

(* Mutant: the sum not compared with the end of the space. *)
addV4Wrapped(a, n) == [ok |-> TRUE, last |-> (a + n) % 2^W]

(* The uint64 sum wraps; the comparison sees what is left of it. *)
addV4(a, n) == LET sum == (a + n) % 2^U IN [ok |-> sum <= TopAddr, last |-> sum]

(* The smallest k with 2^k >= n. *)
ceilLog2(n) == Min({k \in 0 .. U : n <= 2^k})

Skipped == [verdict |-> "skipped"]
Malformed == [verdict |-> "malformed"]

Accepted(l, reg, last, srcBits) ==
  [verdict |-> "accepted", family |-> l.family, lo |-> l.start, hi |-> last,
   rec |-> [cc |-> l.cc, date |-> l.date, srcBits |-> srcBits, reg |-> reg]]

parseLine(l, reg) ==
  CASE l.kind = "other" -> Skipped
    [] l.kind = "garbled" -> Malformed
    [] l.kind = "block" /\ l.value = 0 -> Malformed
    [] l.kind = "block" /\ l.value # 0 /\ l.family = "ipv4" ->
         LET end == addV4(l.start, l.value - 1)
         IN IF end.ok THEN Accepted(l, reg, end.last, W - ceilLog2(l.value)) ELSE Malformed
    [] l.kind = "block" /\ l.value # 0 /\ l.family = "ipv6" ->
         IF l.value > W \/ Masked(l.start, l.value) # l.start THEN Malformed
         ELSE Accepted(l, reg, lastAddr(l.start, l.value), l.value)

(* cidr.RangePrefixes as module RangeCover shows it (a function, so that TLC
   computes it once), and its prefixes keyed with the family. *)
Covers == [r \in Addr \X Addr |->
  LET inside == {p \in AllPrefixes : r[1] <= p.lo /\ p.hi <= r[2]}
  IN {p \in inside : \A q \in inside : q.lo <= p.lo /\ p.hi <= q.hi => q = p}]

RangePrefixes(family, lo, hi) ==
  {[family |-> family, lo |-> p.lo, hi |-> p.hi] : p \in Covers[<<lo, hi>>]}
-----------------------------------------------------------------------------
(* resolve.  Whether the rule separates the records, and which one it keeps. *)
Rule(e) == IF mode = "date" THEN e.date ELSE e.srcBits

Separates(a, b) == Rule(a) # Rule(b)

(* Mutant: the record already in the table is kept when the rule is silent. *)
WinnerFirst(a, b) == IF Separates(a, b) THEN IF Rule(a) > Rule(b) THEN a ELSE b ELSE a

Winner(a, b) ==
  IF Separates(a, b) THEN IF Rule(a) > Rule(b) THEN a ELSE b
  ELSE IF a.cc <= b.cc THEN a ELSE b

(* Mutant: the later record always kept. *)
SettleLast(k, e) == e

(* What a prefix maps to after record e claims it as well. *)
Settle(k, e) ==
  CASE k \notin DOMAIN table -> e
    [] k \in DOMAIN table -> IF table[k].cc = e.cc THEN table[k] ELSE Winner(table[k], e)

Conflict(k, e) ==
  [prefix |-> k, a |-> table[k], b |-> e, winner |-> Winner(table[k], e).cc,
   resolved |-> Separates(table[k], e)]

(* Mutant: only what the rule leaves open is a conflict. *)
ContestedOpen(ks, e) ==
  {k \in ks : k \in DOMAIN table /\ table[k].cc # e.cc /\ ~Separates(table[k], e)}

Contested(ks, e) == {k \in ks : k \in DOMAIN table /\ table[k].cc # e.cc}

(* Prefixes of one range in ascending order, each once (there is one such
   order, as they are disjoint). *)
Ascending(ks) ==
  {s \in [1 .. Cardinality(ks) -> ks] :
     /\ \A k \in ks : \E i \in DOMAIN s : s[i] = k
     /\ \A i, j \in DOMAIN s : i < j => s[i].lo < s[j].lo}

(* The conflicts a record meets, in the order of its prefixes. *)
Met(ks, e) == {[i \in DOMAIN s |-> Conflict(s[i], e)] : s \in Ascending(Contested(ks, e))}
-----------------------------------------------------------------------------
Fail == pc' = "failed"

(* Every source is opened before the first is read. *)
Open ==
  /\ pc = "open"
  /\ pc' = "collect" \/ Fail
  /\ UNCHANGED <<mode, file, table, st, conflicts, out, log, read, seen>>

Reading == pc = "collect" /\ file <= Files

Count(field) ==
  /\ st' = [st EXCEPT ![field] = @ + 1]
  /\ UNCHANGED <<table, conflicts>>

(* An accepted record claims the prefixes of its range. *)
Claim(c, ks) ==
  /\ table' = [k \in DOMAIN table \cup ks |-> IF k \in ks THEN Settle(k, c.rec) ELSE table[k]]
  /\ \E met \in Met(ks, c.rec) : conflicts' = conflicts \o met
  /\ st' = [st EXCEPT
       !.rows = @ + 1,
       !.conflicts = @ + Cardinality(Contested(ks, c.rec)),
       !.unresolved = @ + Cardinality({k \in Contested(ks, c.rec) : ~Separates(table[k], c.rec)})]

(* One line of the current file (the body of collect's loop). *)
Collect(l) ==
  LET c == parseLine(l, file)
  IN /\ Reading
     /\ read < MaxLines
     /\ \/ c.verdict = "skipped" /\ Count("skipped")
        \/ c.verdict = "malformed" /\ Count("malformed")
        \/ /\ c.verdict = "accepted"
           /\ LET ks == RangePrefixes(c.family, c.lo, c.hi)
              IN \/ ks = {} /\ Count("malformed")
                 \/ ks # {} /\ Claim(c, ks)
     /\ read' = read + 1
     /\ seen' = seen \cup {<<l, file>>}
     /\ UNCHANGED <<mode, pc, file, out, log>>

EndOfFile ==
  /\ Reading
  /\ file' = file + 1
  /\ UNCHANGED <<mode, pc, table, st, conflicts, out, log, read, seen>>

(* A read error, or a line longer than the scanner's buffer. *)
ReadFails ==
  /\ Reading
  /\ Fail
  /\ UNCHANGED <<mode, file, table, st, conflicts, out, log, read, seen>>

(* Mutant: the output opened, and so truncated, with the first source. *)
CreateEarly ==
  /\ pc = "collect" /\ out = Old
  /\ pc' = "emit" /\ out' = Holding({})
  /\ UNCHANGED <<mode, file, table, st, conflicts, log, read, seen>>

(* os.Create truncates whatever the output file held. *)
Create ==
  /\ pc = "collect" /\ file > Files
  /\ \/ Fail /\ UNCHANGED out
     \/ pc' = "emit" /\ out' = Holding({})
  /\ UNCHANGED <<mode, file, table, st, conflicts, log, read, seen>>

Rows == {<<k, table[k].cc>> : k \in DOMAIN table}

(* emit writes v4 before v6, then by address, then the shorter prefix. *)
Before(j, k) ==
  \/ j[1].family = "ipv4" /\ k[1].family = "ipv6"
  \/ j[1].family = k[1].family /\ j[1].lo < k[1].lo
  \/ j[1].family = k[1].family /\ j[1].lo = k[1].lo /\ j[1].hi > k[1].hi

(* The buffered writer may have passed on any part of the rows when a write
   fails; nothing takes the file back. *)
Emit ==
  /\ pc = "emit"
  /\ st' = [st EXCEPT !.prefixes = Cardinality(DOMAIN table)]
  /\ \/ pc' = "log" /\ out' = Holding(Rows)
     \/ /\ Fail
        /\ out' \in {Holding({j \in Rows : Before(j, k)}) : k \in Rows}
  /\ UNCHANGED <<mode, file, table, conflicts, log, read, seen>>

Logged == {conflicts[i] : i \in 1 .. Len(conflicts)}

(* writeConflictLog, when -conflict-log is given, then the summary. *)
Log ==
  /\ pc = "log"
  /\ \/ pc' = "done" /\ log' \in {Old, Holding(Logged)}
     \/ Fail /\ log' \in {Old, Holding({})}
  /\ UNCHANGED <<mode, file, table, st, conflicts, out, read, seen>>

Next ==
  \/ Open \/ (\E l \in Lines : Collect(l)) \/ EndOfFile \/ ReadFails
  \/ Create \/ Emit \/ Log

Spec == Init /\ [][Next]_vars
-----------------------------------------------------------------------------
(* The accepted records, and those that claim prefix k. *)
Claims ==
  {c \in {parseLine(l[1], l[2]) : l \in seen} :
     c.verdict = "accepted" /\ RangePrefixes(c.family, c.lo, c.hi) # {}}

Claimants(k) == {c \in Claims : k \in RangePrefixes(c.family, c.lo, c.hi)}

TypeOK ==
  /\ pc \in {"open", "collect", "emit", "log", "done", "failed"} /\ file \in 1 .. Files + 1
  /\ \A k \in DOMAIN table : table[k] \in {c.rec : c \in Claimants(k)}
  /\ out.old \in BOOLEAN /\ log.old \in BOOLEAN /\ read \in 0 .. MaxLines

(* The addresses a line publishes, over unbounded integers: a count that goes
   past the end of the space and an unaligned IPv6 prefix publish none. *)
Published(l) ==
  LET size == IF l.family = "ipv4" THEN l.value ELSE IF l.value \in 1 .. W THEN 2^(W - l.value) ELSE 0
  IN IF \/ l.kind # "block" \/ size = 0 \/ l.start + size - 1 > TopAddr
        \/ l.family = "ipv6" /\ l.start % size # 0
     THEN {} ELSE l.start .. l.start + size - 1

(* The longest prefix of the table that holds an address: what the loader of
   the spec answers with. *)
Answer(family, x) ==
  LET holds == {k \in DOMAIN table : k.family = family /\ k.lo <= x /\ x <= k.hi}
  IN {table[k].cc : k \in {k \in holds : \A j \in holds : k.hi - k.lo <= j.hi - j.lo}}

(* From the text to the lookup: an address is answered exactly when some line
   published it, with the country of such a line; neither the split nor the
   width of the machine's integers adds or loses one (main.go:208-218, 321-
   352, 360-382). *)
AnswersPublished ==
  \A family \in {"ipv4", "ipv6"}, x \in Addr :
    LET publishers == {l \in seen : l[1].family = family /\ x \in Published(l[1])}
    IN /\ Answer(family, x) = {} <=> publishers = {}
       /\ Answer(family, x) \subseteq {l[1].cc : l \in publishers}

(* "No conflict is resolved silently" (main.go:35): a country that claimed a
   prefix and is not the answer for it lost a recorded conflict over it, and
   the summary counts every conflict and how many the rule left open. *)
NothingSilent ==
  /\ \A c \in Claims : \A k \in RangePrefixes(c.family, c.lo, c.hi) :
       table[k].cc # c.rec.cc =>
         \E i \in 1 .. Len(conflicts) : LET f == conflicts[i] IN
           f.prefix = k /\ c.rec.cc \in {f.a.cc, f.b.cc} /\ f.winner # c.rec.cc
  /\ st.conflicts = Len(conflicts)
  /\ st.unresolved = Cardinality({i \in 1 .. Len(conflicts) : ~conflicts[i].resolved})

(* The conflicts over a prefix form a chain that explains its answer: each
   one starts from the winner of the one before, and the last one's winner
   is in the table. *)
LogExplainsTable ==
  \A k \in DOMAIN table :
    LET over == {i \in 1 .. Len(conflicts) : conflicts[i].prefix = k}
    IN \A i \in over :
         /\ (\A j \in over : j <= i) => table[k].cc = conflicts[i].winner
         /\ \A j \in over :
              i < j /\ (\A m \in over : m <= i \/ j <= m) => conflicts[j].a.cc = conflicts[i].winner

(* A finished run wrote the whole table; before every source has been read to
   its end, whatever fails, the spec file is untouched. *)
OutputWhole ==
  /\ TypeOK
  /\ pc = "done" => out = Holding(Rows) /\ log \in {Old, Holding(Logged)}
  /\ out # Old => file > Files

(* The record that a prefix should go to: the rule first, then the smaller
   country code. *)
Beats(a, b) == Rule(a) > Rule(b) \/ (Rule(a) = Rule(b) /\ a.cc <= b.cc)

Best(k) ==
  LET said == {c.rec : c \in Claimants(k)}
  IN {e \in said : \A d \in said : Beats(e, d)}

(* Each country claims prefix k at most once. *)
OncePerCountry(k) ==
  LET said == {c.rec : c \in Claimants(k)}
  IN \A d, e \in said : d.cc = e.cc => d = e

(* "the output is reproducible regardless of input order" (main.go:33-35, 240-
   243), where no country claims the prefix with two different records: the
   table holds the best claim, whatever order the lines came in. *)
OrderFreeOncePerCountry ==
  \A k \in DOMAIN table : OncePerCountry(k) => table[k] \in Best(k)

(* The same with no such premise, for the country only.  Some order of the
   lines makes the best claim win, so if another country can win, the output
   depends on the order. *)
OrderFree == \A k \in DOMAIN table : table[k].cc \in {e.cc : e \in Best(k)}
=============================================================================
