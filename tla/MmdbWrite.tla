----------------------------- MODULE MmdbWrite ------------------------------
(***************************************************************************)
(* cmd/mmdb-write: the entries of a spec are inserted one after the other  *)
(* into a tree, which is then written over the output file.  The tree of   *)
(* mmdbwriter is external: it maps every address of the database to what   *)
(* was last inserted there.                                                *)
(***************************************************************************)
EXTENDS Families

CONSTANTS
  Specs,          (* The specs tried: sequences of entries, with their
                     prefix, asn and org.                                   *)
  Versions,       (* The values of -ip-version.                             *)
  PseudoCodes,    (* What country mode skips: "EU", "ZZ", ...               *)
  Aliases,        (* The IPv6 prefixes that lead to the IPv4 addresses:
                     ::ffff:0:0/96, 2002::/16 (6to4), 2001::/32 (Teredo).   *)
  NoData          (* What is in the tree where nothing was inserted.        *)

ASSUME VersionAssumption == Versions \subseteq {4, 6}

(* An alias lies above the IPv4 addresses and has room for their bits. *)
ASSUME AliasAssumption ==
  \A b \in Aliases : b \in V6!AllPrefixes /\ V4!TopAddr < b.lo /\ b.length + W4 <= W6

(* The entries of a spec are prefixes of their families. *)
ASSUME EntryAssumption ==
  \A sp \in Specs :
    /\ Len(sp) \in Nat /\ DOMAIN sp = 1 .. Len(sp)
    /\ \A i \in 1 .. Len(sp) :
         /\ sp[i].v4 \in BOOLEAN /\ sp[i].length \in Nat
         /\ sp[i].lo \in Nat /\ sp[i].hi \in IF sp[i].v4 THEN V4!Addr ELSE V6!Addr

VARIABLES
  wpc,            (* "idle", "read", "create", "insert", "write", "done",
                     "failed".                                              *)
  country,        (* Whether -db-type has "Country" in it.                  *)
  embedded,       (* The nomenclature built in.                             *)
  version, spec, at,
  tree,           (* From the addresses of the database to records.         *)
  db              (* The output file: [state, version, tree].               *)

writeVars == <<wpc, country, embedded, version, spec, at, tree, db>>

OldDb == [state |-> "old", version |-> 0, tree |-> <<>>]
PartialDb == [OldDb EXCEPT !.state = "partial"]

Space(v) == IF v = 4 THEN V4!Addr ELSE V6!Addr

WriteInit ==
  /\ embedded = [countries |-> <<>>, continents |-> {}]
  /\ version \in Versions /\ spec = <<>> /\ at = 0 /\ tree = <<>> /\ db = OldDb

(* Mutant: an empty spec compiled too. *)
ReadSpecEmptyToo ==
  /\ wpc = "read"
  /\ spec' \in Specs
  /\ wpc' = "create"
  /\ UNCHANGED <<country, embedded, version, at, tree, db>>

(* ParseSpec; see SpecLoader for what it makes of the lines. *)
ReadSpec ==
  /\ wpc = "read"
  /\ spec' \in Specs
  /\ wpc' = IF spec' = <<>> THEN "failed" ELSE "create"
  /\ UNCHANGED <<country, embedded, version, at, tree, db>>

ReadSpecFails ==
  /\ wpc = "read"
  /\ wpc' = "failed"
  /\ UNCHANGED <<country, embedded, version, spec, at, tree, db>>

(* os.Create empties the old file before the first insertion; it, or the new
   writer, may fail. *)
Create ==
  /\ wpc = "create"
  /\ \/ wpc' = "insert" /\ db' = PartialDb
        /\ tree' = [a \in Space(version) |-> NoData]
     \/ wpc' = "failed" /\ db' \in {db, PartialDb} /\ UNCHANGED tree
  /\ UNCHANGED <<country, embedded, version, spec, at>>

(* Country mode skips what is no country, or has no continent. *)
Skipped(e) ==
  country /\ ~(/\ e.org \notin PseudoCodes /\ e.org \in DOMAIN embedded.countries
               /\ embedded.countries[e.org] \in embedded.continents)

Record(e) ==
  IF country THEN [country |-> [iso |-> e.org], continent |-> embedded.countries[e.org]]
  ELSE [asn |-> e.asn, org |-> e.org]

(* The addresses of the database under a prefix: IPv4 lies at its low end. *)
Under(e) == e.lo .. e.hi

AliasBlock(b) == b.lo .. b.hi

(* Behind the prefix of an alias the next W4 bits are those of an IPv4 address,
   and what follows them is not looked at. *)
Base(a) ==
  IF version = 6 /\ \E b \in Aliases : a \in AliasBlock(b)
  THEN LET b == CHOOSE c \in Aliases : a \in AliasBlock(c)
       IN (a - b.lo) \div 2^(W6 - b.length - W4)
  ELSE a

(* What mmdbwriter refuses: an alias, and a prefix inside one. *)
Aliased(e) == version = 6 /\ ~e.v4 /\ \E b \in Aliases : Under(e) \subseteq AliasBlock(b)

(* Mutant: an entry does not replace what an earlier one covers. *)
InsertedBehind(e) ==
  [a \in DOMAIN tree |-> IF a \in Under(e) /\ tree[a] = NoData THEN Record(e) ELSE tree[a]]

(* tree.Insert: the new record replaces what there is, but for aliases. *)
Inserted(e) ==
  [a \in DOMAIN tree |->
     IF a \in Under(e) /\ (e.v4 \/ a \notin UNION {AliasBlock(b) : b \in Aliases}) THEN Record(e) ELSE tree[a]]

Insert ==
  /\ wpc = "insert" /\ at < Len(spec)
  /\ LET e == spec[at + 1]
     IN /\ \/ (Skipped(e) \/ Aliased(e)) /\ UNCHANGED <<tree, wpc>>
           \/ ~Skipped(e) /\ ~Aliased(e) /\ (version = 6 \/ e.v4)
              /\ tree' = Inserted(e) /\ UNCHANGED wpc
           \/ ~Skipped(e) /\ version = 4 /\ ~e.v4
              /\ wpc' = "failed" /\ UNCHANGED tree
        /\ at' = at + 1
  /\ UNCHANGED <<country, embedded, version, spec, db>>

(* WriteTo; an alias leads to the IPv4 addresses. *)
WriteTo ==
  /\ wpc = "insert" /\ at = Len(spec)
  /\ wpc' = "done"
  /\ db' = [state |-> "new", version |-> version,
            tree |-> [a \in DOMAIN tree |-> tree[Base(a)]]]
  /\ UNCHANGED <<country, embedded, version, spec, at, tree>>

WriteToFails ==
  /\ wpc = "insert" /\ at = Len(spec)
  /\ wpc' = "failed"
  /\ UNCHANGED <<country, embedded, version, spec, at, tree, db>>

WriteNext == ReadSpec \/ ReadSpecFails \/ Create \/ Insert \/ WriteTo \/ WriteToFails
=============================================================================
