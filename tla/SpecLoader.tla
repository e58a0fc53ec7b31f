----------------------------- MODULE SpecLoader -----------------------------
(***************************************************************************)
(* The spec loaders of input.go as the programs use them.  A text spec is  *)
(* parsed line by line, a refs envelope is decoded whole.  A read may fail *)
(* at any time, in the middle of a line too; the scanner then hands out    *)
(* what it has of that line before it stops.                               *)
(***************************************************************************)
EXTENDS Families, Filters

CONSTANTS
  SpecFiles,   (* The files tried: [refs, lines].  A line is [kind, texts]:
                  texts holds the prefix it starts with, and after it what a
                  line cut short may start with, if kind is "entry"; "junk"
                  is a line without a prefix, "long" one over the limit.    *)
  Inputs,      (* The queries, lines or arguments: addresses, Junk, Blank.  *)
  Junk, Blank, (* Text that is no address, and none at all.                 *)
  MaxInputs    (* Bound on the queries put to a program.                    *)

ASSUME FileAssumption ==
  \A f \in SpecFiles :
    /\ f.refs \in BOOLEAN
    /\ f.lines \in Seq([kind : {"entry", "junk", "long"}, texts : Seq(Texts)])
    /\ \A i \in DOMAIN f.lines : f.lines[i].kind = "entry" => f.lines[i].texts # <<>>
ASSUME InputAssumption ==
  /\ Inputs \subseteq Addresses \cup {Junk, Blank}
  /\ Junk \notin Addresses /\ Blank \notin Addresses /\ Junk # Blank

VARIABLES
  loader,      (* "ParseSpec", "LoadASN", "LoadFunc", or "loadSpec" of cmd/cidr. *)
  file,        (* The file.                                                 *)
  pos,         (* Whole lines read.                                         *)
  entries,     (* The entries returned, or the builder's, with their lines. *)
  lpc          (* "read"; "loaded" without and "error" with an error.       *)

loadVars == <<loader, file, pos, entries, lpc>>

LoadInit ==
  /\ loader \in {"ParseSpec", "LoadASN", "LoadFunc", "loadSpec"}
  /\ file \in SpecFiles
  /\ pos = 0 /\ entries = <<>> /\ lpc = "read"

(* The entry for a line that starts with text t, or none. *)
parseSpecLine(i, t) ==
  [j \in 1 .. Cardinality(ParsePrefix(t)) |->
     LET p == CHOOSE x \in ParsePrefix(t) : TRUE
     IN [v4 |-> p.v4, lo |-> p.lo, hi |-> p.hi, length |-> p.length, line |-> i]]

LineEntry(i) == IF file.lines[i].kind = "entry" THEN parseSpecLine(i, file.lines[i].texts[1]) ELSE <<>>

Entries(n) == SeqExt!FlattenSeq([i \in 1 .. n |-> LineEntry(i)])

(* The first byte that is no space decides.  Every line of a refs envelope is
   JSON to the other loaders, and no prefix. *)
DecodesRefs == loader = "loadSpec" /\ file.refs

Scans == lpc = "read" /\ ~DecodesRefs

ReadLine ==
  /\ Scans
  /\ pos < Len(file.lines) /\ file.lines[pos + 1].kind # "long"
  /\ pos' = pos + 1
  /\ entries' = IF file.refs THEN entries ELSE entries \o LineEntry(pos + 1)
  /\ UNCHANGED <<loader, file, lpc>>

EndOfFile ==
  /\ Scans
  /\ pos = Len(file.lines)
  /\ lpc' = "loaded"
  /\ UNCHANGED <<loader, file, pos, entries>>

(* LoadSet and LoadASN return nothing with an error, ParseSpec the entries and
   LoadFunc the table of what was read. *)
FailWith(es) ==
  /\ lpc' = "error"
  /\ entries' = IF loader = "LoadASN" THEN <<>> ELSE es
  /\ UNCHANGED <<loader, file, pos>>

(* Mutant: the scanner's error not looked at. *)
ReadErrorUnchecked ==
  /\ lpc = "read"
  /\ lpc' = "loaded"
  /\ UNCHANGED <<loader, file, pos, entries>>

(* The file cannot be opened or read on, a line is too long, or the JSON of the
   envelope ends early. *)
ReadError ==
  /\ lpc = "read"
  /\ FailWith(entries)

(* The read fails in the middle of a line. *)
ReadErrorInLine ==
  /\ Scans /\ ~file.refs
  /\ pos < Len(file.lines) /\ file.lines[pos + 1].kind = "entry"
  /\ \E k \in 1 .. Len(file.lines[pos + 1].texts) :
       FailWith(entries \o parseSpecLine(pos + 1, file.lines[pos + 1].texts[k]))

(* ParseRefs and Refs.Entries. *)
ParseRefs ==
  /\ lpc = "read" /\ DecodesRefs
  /\ pos' = Len(file.lines)
  /\ entries' = Entries(Len(file.lines))
  /\ lpc' = "loaded"
  /\ UNCHANGED <<loader, file>>

LoadNext == ReadLine \/ EndOfFile \/ ReadError \/ ReadErrorInLine \/ ParseRefs
-----------------------------------------------------------------------------
(* "Lines whose first field is not a valid CIDR or address are skipped ...;
   only an underlying read error is returned" (input.go:43-46): a load without
   an error has every entry of the spec, whatever junk lies in between; a refs
   envelope given to a text loader loads as an empty spec.  With an error the
   set loaders return nothing, and the others at most the entries of the lines
   before it and one of the line cut short, which may be a wider prefix. *)
LoadIsWhole ==
  /\ lpc = "loaded" =>
       entries = IF file.refs /\ ~DecodesRefs THEN <<>> ELSE Entries(Len(file.lines))
  /\ lpc = "error" =>
       IF file.refs \/ loader = "LoadASN" THEN entries = <<>>
       ELSE entries = Entries(pos) \/ SubSeq(entries, 1, Len(entries) - 1) = Entries(pos)
=============================================================================
