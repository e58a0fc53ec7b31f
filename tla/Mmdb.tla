-------------------------------- MODULE Mmdb --------------------------------
(***************************************************************************)
(* The life of a MaxMind DB: the nomenclature is built and embedded, a     *)
(* spec is compiled with it, and the reader looks addresses up in what is  *)
(* on disk; and the reader alone, on files that others wrote.              *)
(***************************************************************************)
EXTENDS Nomenclature, MmdbWrite, MmdbReader

CONSTANTS
  Queries,     (* The addresses looked up.                                  *)
  Foreign      (* Files of other writers, well-formed or not.               *)

ASSUME QueryAssumption == Queries \subseteq Addresses
ASSUME ForeignAssumption == \A file \in Foreign : file.length \in Nat /\ file.nodeCount \in Nat

(* A record is not the mark of an empty place. *)
ASSUME NoDataAssumption ==
  \A sp \in Specs : \A i \in DOMAIN sp :
    /\ NoData # [asn |-> sp[i].asn, org |-> sp[i].org]
    /\ \A row \in ContinentRows : NoData # [country |-> [iso |-> sp[i].org], continent |-> row.code]

(* A tree has a root; and the arithmetic the proofs need of powers of two. *)
ASSUME TreeAssumption ==
  /\ W4 > 0 /\ W6 > 0 /\ 2^0 = 1 /\ 2^1 = 2
  /\ \A w \in {W4, W6} : \A j \in 0 .. w : \A k \in 0 .. j : 2^j = 2^k * 2^(j - k)

(* The records mmdb-write makes are nested three deep, pointers included. *)
ASSUME DepthAssumption == maxMMDBDepth >= 3

VARIABLE life  (* "country", "asn", "foreign".                              *)

vars == <<life, nomVars, writeVars, readerVars>>

NoMm == [length |-> 0, valid |-> FALSE, nodeCount |-> 0, version |-> 0, nodes |-> <<>>, section |-> <<>>]

Init ==
  /\ life \in {"country", "asn", "foreign"}
  /\ NomInit /\ WriteInit /\ ReaderIdle
  /\ country = (life = "country")
  /\ wpc = IF life = "asn" THEN "read" ELSE "idle"
  /\ IF life = "foreign" THEN mm \in Foreign /\ version = 6 ELSE mm = NoMm

(* mmdb-write is built with the file that is there. *)
Embed ==
  /\ life = "country" /\ npc = "done" /\ wpc = "idle"
  /\ embedded' = [countries |-> [c \in DOMAIN nomenclature.countries |-> nomenclature.countries[c].continent],
                  continents |-> nomenclature.continents]
  /\ wpc' = "read"
  /\ rows' = <<>> /\ accs' = <<>> /\ conts' = <<>> /\ nomenclature' = NoFile
  /\ UNCHANGED <<npc, country, version, spec, at, tree, db>>
-----------------------------------------------------------------------------
(* The layout mmdbwriter gives a tree (external).  Its nodes are the blocks
   that are not of one record, its data section has each record once, and a
   string that was written before is a pointer to it. *)
Bits == IF db.version = 4 THEN W4 ELSE W6
NodeBlock(d, i) == i * 2^(Bits - d) .. (i + 1) * 2^(Bits - d) - 1
Nodes == {c \in (0 .. Bits - 1) \X (0 .. 2^(Bits - 1) - 1) :
            c[2] < 2^c[1] /\ (c[1] = 0 \/ \E a, b \in NodeBlock(c[1], c[2]) : db.tree[a] # db.tree[b])}
NodeOf(b) == Cardinality({c \in Nodes : c[1] < b[1] \/ (c[1] = b[1] /\ c[2] < b[2])})
Records == SeqExt!SetToSeq({db.tree[a] : a \in DOMAIN db.tree} \ {NoData})

StrCell(s) == [k |-> "str", v |-> s]
UintCell(n) == [k |-> "uint", v |-> n]
MapCell(n) == [k |-> "map", n |-> n]

RecordSize == IF country THEN 7 ELSE 5

(* Where the keys of the first record are, and a key of record r. *)
KeyCell(r, s, at0) == IF r = 1 THEN StrCell(s) ELSE [k |-> "ptr", to |-> at0]

RecordCells(r) ==
  IF country
  THEN <<MapCell(2), KeyCell(r, "country", 1), MapCell(1), KeyCell(r, "iso", 3), StrCell(Records[r].country.iso),
         KeyCell(r, "continent", 5), UintCell(Records[r].continent)>>
  ELSE <<MapCell(2), KeyCell(r, "org", 1), StrCell(Records[r].org), KeyCell(r, "asn", 3), UintCell(Records[r].asn)>>

(* What leads from a node to the record of a block, and to a block. *)
Leaf(rec) ==
  IF rec = NoData THEN Cardinality(Nodes)
  ELSE Cardinality(Nodes) + Separator + RecordSize * ((CHOOSE r \in DOMAIN Records : Records[r] = rec) - 1)

Side(d, i) == IF <<d, i>> \in Nodes THEN NodeOf(<<d, i>>) ELSE Leaf(db.tree[Min(NodeBlock(d, i))])

Sides(n) ==
  LET b == CHOOSE c \in Nodes : NodeOf(c) = n
  IN <<Side(b[1] + 1, 2 * b[2]), Side(b[1] + 1, 2 * b[2] + 1)>>

Written ==
  [length |-> Cardinality(Nodes) * NodeSize + Separator + RecordSize * Len(Records), valid |-> TRUE,
   nodeCount |-> Cardinality(Nodes), version |-> db.version,
   nodes |-> [n \in 1 .. Cardinality(Nodes) |-> Sides(n - 1)],
   section |-> SeqExt!FlattenSeq([r \in 1 .. Len(Records) |-> RecordCells(r)])]

(* The file is there to be opened as soon as mmdb-write has ended. *)
Appear ==
  /\ life # "foreign" /\ rpc = "closed" /\ mm = NoMm
  /\ wpc \in {"done", "failed"} /\ db.state # "old"
  /\ mm' = IF db.state = "new" THEN Written ELSE [NoMm EXCEPT !.length = 1]
  /\ UNCHANGED <<rpc, query, bit, node, off, value, stack>>

ReaderNext ==
  \/ mm # NoMm /\ OpenMMDB
  \/ \E q \in Queries : LookupValue(q)
  \/ WalkStep \/ WalkEnds \/ DecodeStep

Next ==
  /\ UNCHANGED life
  /\ \/ life = "country" /\ NomNext /\ UNCHANGED <<writeVars, readerVars>>
     \/ Embed /\ UNCHANGED readerVars
     \/ WriteNext /\ UNCHANGED <<nomVars, readerVars>>
     \/ (Appear \/ ReaderNext) /\ UNCHANGED <<nomVars, writeVars>>

Spec == Init /\ [][Next]_vars

(* A lookup is a call: once begun it goes on. *)
FairSpec == Spec /\ WF_vars((WalkStep \/ WalkEnds \/ DecodeStep) /\ UNCHANGED <<life, nomVars, writeVars>>)
-----------------------------------------------------------------------------
Decoded(r) ==
  IF country THEN Map([country |-> Map([iso |-> Str(r.country.iso)]), continent |-> Uint(r.continent)])
  ELSE Map([org |-> Str(r.org), asn |-> Uint(r.asn)])

(* The positions in the spec of what is inserted and holds the address, or the
   IPv4 address it leads to. *)
Holding(q) == {i \in DOMAIN spec : ~Skipped(spec[i]) /\ ~Aliased(spec[i]) /\ Base(normalize(q)) \in Under(spec[i])}

Answered(q) == db.state = "new" /\ rpc \in {"found", "absent", "error"} /\ mm.valid /\ query = q

(* From the spec to the decoded record, over the tree, its layout, the walk,
   the pointers and the maps: the reader finds what the last entry inserted
   over the address says, and it fails only for an IPv6 address in an IPv4
   database. *)
LookupExact ==
  \A q \in Queries : Answered(q) =>
    /\ rpc = "error" <=> NotInDatabase(q)
    /\ rpc = "absent" <=> ~NotInDatabase(q) /\ Holding(q) = {}
    /\ rpc = "found" => value = Decoded(Record(spec[Max(Holding(q))]))

(* A database agrees with the table of the same spec where the spec lists a
   narrow prefix after the broad ones it lies in, no IPv6 prefix reaches the
   addresses where the database keeps IPv4, and the address is no alias but a
   mapped one: the order, ::/96 and 6to4 are where the two differ. *)
AgreesWithTable ==
  LET es == [i \in DOMAIN spec |-> [v4 |-> spec[i].v4, lo |-> spec[i].lo, hi |-> spec[i].hi,
                                    length |-> spec[i].length, line |-> i]]
      ordered == \A i, j \in DOMAIN spec : i < j /\ spec[i].v4 = spec[j].v4 => spec[i].length <= spec[j].length
      apart == \A i \in DOMAIN spec : spec[i].v4 \/ Under(spec[i]) \cap V4!Addr = {}
  IN \A q \in Queries :
       Answered(q) /\ rpc # "error" /\ ~country /\ ordered /\ apart
       /\ (Unmap(q).v4 \/ (Base(q.ip) = q.ip /\ q.ip \notin V4!Addr))
       => LET hit == Lookup(es, q)
          IN IF hit = None THEN rpc = "absent" ELSE rpc = "found" /\ value = Decoded(Record(spec[hit.line]))

(* The output is replaced only for a spec that was read and is not empty, a run
   that says so has written all of it, and what a failed run leaves behind
   never opens. *)
FileWhole ==
  /\ db.state # "old" => spec # <<>>
  /\ wpc = "done" <=> db.state = "new"
  /\ wpc = "failed" /\ db.state = "partial" => rpc \in {"closed", "error"}

(* What is opened holds its tree: the bound holds for every node count. *)
TreeInside == rpc \notin {"closed", "error"} => mm.nodeCount * NodeSize + Separator <= mm.length

(* "A self-referencing pointer, a pointer cycle, or a deeply nested container"
   (mmdb.go:185-188) does not keep a lookup from ending. *)
DecodeEnds == rpc \in {"walk", "decode", "return"} ~> rpc \in {"found", "absent", "error"}
=============================================================================
