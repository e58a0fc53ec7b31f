----------------------------- MODULE MmdbReader -----------------------------
(***************************************************************************)
(* mmdb.go: opening a MaxMind DB, walking its tree by the bits of an       *)
(* address, and decoding the value found, with an explicit stack for the   *)
(* recursion of decodeMMDB.  A value of the data section is one cell: its  *)
(* bytes, their widths and the arithmetic on them are left out.            *)
(***************************************************************************)
EXTENDS Families, Filters

CONSTANTS
  NodeSize,       (* Bytes of a node, 6, 7 or 8 in the code.                *)
  Separator,      (* Bytes between the tree and the data section, 16.       *)
  UintBits,       (* Width of a uint, 64.                                   *)
  maxMMDBDepth    (* 512.                                                   *)

ASSUME ReaderAssumption == NodeSize \in Nat \ {0} /\ Separator \in Nat \ {0} /\ maxMMDBDepth \in Nat

VARIABLES
  mm,             (* The file: [length, valid, nodeCount, version, nodes,
                     section].  valid is FALSE without a marker, metadata
                     that decodes to a map, or a known record size.         *)
  rpc,            (* "closed", "opened", "walk", "decode", "return",
                     "found", "absent", "error".                            *)
  query,          (* The address looked up, [v4, ip, zone].                 *)
  bit, node,      (* The walk: bits used, and the record read last.         *)
  off, value,     (* decodeMMDB: where to decode, or to go on; its value.   *)
  stack           (* The calls of decodeMMDB that wait for another one.     *)

readerVars == <<mm, rpc, query, bit, node, off, value, stack>>

(* Decoded values. *)
Str(s) == [str |-> s]
Uint(n) == [uint |-> n]
Map(f) == [map |-> f]
Arr(s) == [arr |-> s]
NoKey == ""

ReaderIdle ==
  /\ rpc = "closed" /\ query = [v4 |-> TRUE, ip |-> 0, zone |-> 0]
  /\ bit = 0 /\ node = 0 /\ off = 0 /\ value = Str(NoKey) /\ stack = <<>>

(* Mutant: the bound on node_count as a product, which wraps. *)
FitsProduct(f) == ((f.nodeCount * NodeSize) % 2^UintBits) + Separator <= f.length

(* node_count is bounded by a division, which cannot overflow. *)
Fits(f) == f.length >= Separator /\ f.nodeCount <= (f.length - Separator) \div NodeSize

(* OpenMMDBBytes. *)
OpenMMDB ==
  /\ rpc = "closed"
  /\ rpc' = IF mm.valid /\ Fits(mm) THEN "opened" ELSE "error"
  /\ UNCHANGED <<mm, query, bit, node, off, value, stack>>

(* The address as a number, and its bits: IPv4 is the low end of IPv6. *)
Width(q) == IF mm.version = 4 THEN W4 ELSE W6
normalize(q) == Unmap(q).ip
NotInDatabase(q) == mm.version = 4 /\ ~Unmap(q).v4

LookupValue(q) ==
  /\ rpc = "opened"
  /\ query' = q
  /\ rpc' = IF NotInDatabase(q) THEN "error" ELSE "walk"
  /\ UNCHANGED <<mm, bit, node, off, value, stack>>

BitOf(q, i) == (normalize(q) \div 2^(Width(q) - 1 - i)) % 2

(* record, of a node inside the tree. *)
record(n, right) == mm.nodes[n + 1][right + 1]

WalkStep ==
  /\ rpc = "walk" /\ bit < Width(query) /\ node < mm.nodeCount
  /\ node' = record(node, BitOf(query, bit))
  /\ bit' = bit + 1
  /\ UNCHANGED <<mm, rpc, query, off, value, stack>>

(* The empty record is the node count; a node is what is left if the bits ran
   out; anything above points into the data. *)
WalkEnds ==
  /\ rpc = "walk" /\ (bit = Width(query) \/ node >= mm.nodeCount)
  /\ IF node <= mm.nodeCount THEN rpc' = "absent" /\ UNCHANGED off
     ELSE rpc' = "decode" /\ off' = node - mm.nodeCount
  /\ UNCHANGED <<mm, query, bit, node, value, stack>>
-----------------------------------------------------------------------------
(* Offsets count from the end of the tree.  The zero bytes of the separator
   read as an empty map; behind the section no value is whole. *)
Cell(o) ==
  IF o < Separator THEN [k |-> "map", n |-> 0]
  ELSE IF o - Separator + 1 \in DOMAIN mm.section THEN mm.section[o - Separator + 1]
  ELSE [k |-> "cut"]

avail(o) == Separator + Len(mm.section) - o

Fail == rpc' = "error" /\ stack' = <<>> /\ UNCHANGED <<off, value>>
Return(v, o) == rpc' = "return" /\ value' = v /\ off' = o /\ UNCHANGED stack
Call(frame, o) == rpc' = "decode" /\ stack' = Append(stack, frame) /\ off' = o /\ UNCHANGED value

(* Mutant: a pointer followed in place, without a level of its own. *)
PointerInPlace(c) == rpc' = "decode" /\ off' = Separator + c.to /\ UNCHANGED <<stack, value>>

Pointer(c) == Call([k |-> "ptr", past |-> off + 1], Separator + c.to)

(* decodeMMDB, up to the first call of itself. *)
Decode ==
  /\ rpc = "decode"
  /\ LET c == Cell(off)
     IN \/ (Len(stack) > maxMMDBDepth \/ c.k = "cut") /\ Fail
        \/ /\ Len(stack) <= maxMMDBDepth
           /\ \/ c.k = "ptr" /\ Pointer(c)
              \/ c.k = "str" /\ Return(Str(c.v), off + 1)
              \/ c.k = "uint" /\ Return(Uint(c.v), off + 1)
              \/ /\ c.k \in {"map", "arr"}
                 /\ IF c.n > avail(off + 1) THEN Fail
                    ELSE IF c.n = 0 THEN Return(IF c.k = "map" THEN Map(<<>>) ELSE Arr(<<>>), off + 1)
                    ELSE Call([k |-> c.k, left |-> c.n, key |-> NoKey, got |-> <<>>], off + 1)
  /\ UNCHANGED <<mm, query, bit, node>>

Top == stack[Len(stack)]

Again(frame) == rpc' = "decode" /\ stack' = [stack EXCEPT ![Len(stack)] = frame] /\ UNCHANGED <<off, value>>
Done(v, o) == rpc' = "return" /\ value' = v /\ off' = o /\ stack' = SeqExt!Front(stack)

(* What the waiting call does with the value. *)
Resume ==
  /\ rpc = "return" /\ stack # <<>>
  /\ \/ Top.k = "ptr" /\ Done(value, Top.past)
     \/ /\ Top.k = "arr"
        /\ LET got == Append(Top.got, value)
           IN IF Top.left = 1 THEN Done(Arr(got), off)
              ELSE Again([Top EXCEPT !.got = got, !.left = @ - 1])
     \/ /\ Top.k = "map" /\ Top.key = NoKey
        /\ IF "str" \in DOMAIN value THEN Again([Top EXCEPT !.key = value.str]) ELSE Fail
     \/ /\ Top.k = "map" /\ Top.key # NoKey
        /\ LET got == [key \in DOMAIN Top.got \cup {Top.key} |->
                         IF key = Top.key THEN value ELSE Top.got[key]]
           IN IF Top.left = 1 THEN Done(Map(got), off)
              ELSE Again([Top EXCEPT !.got = got, !.key = NoKey, !.left = @ - 1])
  /\ UNCHANGED <<mm, query, bit, node>>

LookupReturns ==
  /\ rpc = "return" /\ stack = <<>>
  /\ rpc' = "found"
  /\ UNCHANGED <<mm, query, bit, node, off, value, stack>>

DecodeStep == Decode \/ Resume \/ LookupReturns
=============================================================================
