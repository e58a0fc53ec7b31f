-------------------------- MODULE ProviderFunction --------------------------
(***************************************************************************)
(* cmd/provider-function: the feeds that operators publish, row by row,    *)
(* merged into a table from prefix to classification, then a sorted spec   *)
(* file and a conflict log.  The sources are read in the order given:      *)
(* providerOrder when they are fetched, any with -in, where one provider   *)
(* may be named twice.                                                     *)
(***************************************************************************)
EXTENDS Integers, Sequences, FiniteSets

CONSTANTS
  Sources,     (* The sequences of providers that sources may come in.      *)
  Prefixes,    (* The prefixes rows may name.                               *)
  MaxRows      (* Bound on the rows of one source.                          *)

ASSUME BoundAssumption == MaxRows \in Nat

providerOrder == <<"aws", "cloudflare", "fastly", "google-cloud", "tor">>

Providers == {providerOrder[i] : i \in 1 .. 5}

ASSUME SourcesAssumption == Sources \subseteq Seq(Providers)

providerRank(name) == CHOOSE i \in 1 .. 5 : providerOrder[i] = name

(* Function labels in the order of their names. *)
Functions == <<"cdn", "cloud", "tor-exit">>

Lower(f, g) == \E i, j \in 1 .. 3 : Functions[i] = f /\ Functions[j] = g /\ i < j

Entry(provider, function, anycast, rank) ==
  [provider |-> provider, function |-> function, anycast |-> anycast, rank |-> rank]

(* What the rows of a provider's feed say (parseAWS with awsServices,
   parseGoogleCloud, parseLineList, parseFastly). *)
Labels(provider) ==
  CASE provider = "aws" ->
         {Entry("aws", "cloud", FALSE, 0), Entry("aws", "cdn", FALSE, 1), Entry("aws", "cloud", TRUE, 1)}
    [] provider \in {"cloudflare", "fastly"} -> {Entry(provider, "cdn", TRUE, 0)}
    [] provider = "google-cloud" -> {Entry(provider, "cloud", FALSE, 0)}
    [] provider = "tor" -> {Entry(provider, "tor-exit", FALSE, 0)}

VARIABLES
  pc, sources, cur,     (* Where run is, its sources and the one being read. *)
  rows,                 (* For each source, how many of its rows were used.  *)
  perSource, malformed, (* The tallies, from providers to counts.            *)
  table, conflicts,     (* The classifications, and the disagreements.       *)
  out,                  (* The spec file: untouched, truncated or whole.     *)
  seen                  (* History: the entries met, with their prefixes.    *)

vars == <<pc, sources, cur, rows, perSource, malformed, table, conflicts, out, seen>>

Init ==
  /\ sources \in Sources
  /\ pc = "open" /\ cur = 1
  /\ rows = [i \in 1 .. Len(sources) |-> 0]
  /\ perSource = <<>> /\ malformed = [p \in Providers |-> 0]
  /\ table = <<>> /\ conflicts = {}
  /\ out = "old" /\ seen = {}
-----------------------------------------------------------------------------
Fail == pc' = "failed"

(* Every source is opened before any is parsed. *)
openSources ==
  /\ pc = "open"
  /\ pc' = "attempt" \/ Fail
  /\ UNCHANGED <<sources, cur, rows, perSource, malformed, table, conflicts, out, seen>>

Count(p) == IF p \in DOMAIN perSource THEN perSource[p] ELSE 0

(* Mutant: the tally starts over with each source of a provider. *)
TallyReset(p, n) ==
  perSource' = [q \in DOMAIN perSource \cup {p} |-> IF q = p THEN n ELSE Count(q)]

(* st.perSource[provider] += n: an attempted provider is in the tally. *)
Tally(p, n) ==
  perSource' = [q \in DOMAIN perSource \cup {p} |-> Count(q) + IF q = p THEN n ELSE 0]

Attempt ==
  /\ pc = "attempt" /\ cur <= Len(sources)
  /\ Tally(sources[cur], 0)
  /\ pc' = "parse"
  /\ UNCHANGED <<sources, cur, rows, malformed, table, conflicts, out, seen>>

(* Mutant: ranks compared across providers as well. *)
RankAnywhere(prev, e) == prev.rank # e.rank

(* Specificity separates two labels of one provider only. *)
Ranked(prev, e) == prev.provider = e.provider /\ prev.rank # e.rank

Same(prev, e) == prev.function = e.function /\ prev.anycast = e.anycast

(* Mutant: the entry already in the table wins a disagreement. *)
WinnerFirst(prev, e) ==
  CASE Same(prev, e) -> prev
    [] ~Same(prev, e) /\ Ranked(prev, e) -> IF e.rank > prev.rank THEN e ELSE prev
    [] ~Same(prev, e) /\ ~Ranked(prev, e) -> prev

(* merge: which of the two classifications of a prefix stays. *)
Winner(prev, e) ==
  LET earlier == providerRank(e.provider) < providerRank(prev.provider)
  IN CASE Same(prev, e) -> IF earlier THEN e ELSE prev
       [] ~Same(prev, e) /\ Ranked(prev, e) -> IF e.rank > prev.rank THEN e ELSE prev
       [] ~Same(prev, e) /\ ~Ranked(prev, e) ->
            IF earlier \/ (e.provider = prev.provider /\ Lower(e.function, prev.function))
            THEN e ELSE prev

merge(p, e) ==
  LET met == p \in DOMAIN table
  IN /\ table' = [q \in DOMAIN table \cup {p} |->
                   IF q # p THEN table[q] ELSE IF met THEN Winner(table[p], e) ELSE e]
     /\ conflicts' =
          IF met /\ ~Same(table[p], e) /\ ~Ranked(table[p], e)
          THEN conflicts \cup {[prefix |-> p, a |-> table[p], b |-> e, winner |-> Winner(table[p], e)]}
          ELSE conflicts

Parsing == pc = "parse" /\ rows[cur] < MaxRows

(* One row of the current source (collect's callback). *)
Row(p, e) ==
  /\ Parsing
  /\ e \in Labels(sources[cur])
  /\ rows' = [rows EXCEPT ![cur] = @ + 1]
  /\ Tally(e.provider, 1)
  /\ merge(p, e)
  /\ seen' = seen \cup {<<p, e>>}
  /\ UNCHANGED <<pc, sources, cur, malformed, out>>

(* A row whose prefix does not parse; a line too long for the scanner counts
   as one, and ends its source. *)
Malformed ==
  /\ pc = "parse" /\ malformed[sources[cur]] < MaxRows
  /\ malformed' = [malformed EXCEPT ![sources[cur]] = @ + 1]
  /\ \/ UNCHANGED <<pc, cur>>
     \/ /\ sources[cur] \in {"cloudflare", "tor"}
        /\ pc' = "attempt" /\ cur' = cur + 1
  /\ UNCHANGED <<sources, rows, perSource, table, conflicts, out, seen>>

EndOfSource ==
  /\ pc = "parse"
  /\ pc' = "attempt" /\ cur' = cur + 1
  /\ UNCHANGED <<sources, rows, perSource, malformed, table, conflicts, out, seen>>

(* A JSON document fails to decode before its first row; a list of lines may
   fail to read after any. *)
ParseFails ==
  /\ pc = "parse"
  /\ rows[cur] = 0 \/ sources[cur] \in {"cloudflare", "tor"}
  /\ Fail
  /\ UNCHANGED <<sources, cur, rows, perSource, malformed, table, conflicts, out, seen>>

(* Mutant: the guard asks for one usable row anywhere. *)
ProducedAny == \E p \in DOMAIN perSource : perSource[p] > 0

(* checkSourcesProduced. *)
Produced == \A i \in 1 .. Len(sources) : Count(sources[i]) > 0

(* The guard, then os.Create, which truncates the file. *)
Create ==
  /\ pc = "attempt" /\ cur > Len(sources)
  /\ \/ ~Produced /\ Fail /\ UNCHANGED out
     \/ Produced /\ Fail /\ UNCHANGED out
     \/ Produced /\ pc' = "emit" /\ out' = "truncated"
  /\ UNCHANGED <<sources, cur, rows, perSource, malformed, table, conflicts, seen>>

(* Rows and Flush, then the conflict log; a failed write leaves what reached
   the file, and a failed log leaves the whole spec. *)
Emit ==
  /\ pc = "emit"
  /\ \/ Fail /\ out' \in {"truncated", "whole"}
     \/ pc' = "done" /\ out' = "whole"
  /\ UNCHANGED <<sources, cur, rows, perSource, malformed, table, conflicts, seen>>

Next ==
  \/ openSources \/ Attempt \/ Malformed \/ EndOfSource \/ ParseFails \/ Create \/ Emit
  \/ \E p \in Prefixes, q \in Providers : \E e \in Labels(q) : Row(p, e)

Spec == Init /\ [][Next]_vars
-----------------------------------------------------------------------------
TypeOK ==
  /\ pc \in {"open", "attempt", "parse", "emit", "failed", "done"}
  /\ cur \in 1 .. Len(sources) + 1 /\ (pc = "parse" => cur <= Len(sources))
  /\ DOMAIN table \subseteq Prefixes /\ \A p \in DOMAIN table : <<p, table[p]>> \in seen
  /\ DOMAIN perSource \subseteq {sources[i] : i \in 1 .. Len(sources)}
  /\ out \in {"old", "truncated", "whole"}

(* What was said of a prefix: its entries, those no label of the same provider
   outranks, and the one that should stay. *)
Said(p) == {r[2] : r \in {r \in seen : r[1] = p}}

Standing(p) == {e \in Said(p) : \A d \in Said(p) : d.provider = e.provider => d.rank <= e.rank}

Best(p) ==
  {e \in Standing(p) : \A d \in Standing(p) :
     \/ providerRank(e.provider) < providerRank(d.provider)
     \/ e.provider = d.provider /\ ~Lower(d.function, e.function)}

(* "the output does not depend on the order the files were read" (main.go:335-
   338): whatever the order of the sources and their rows, a prefix keeps the
   first provider's most specific label. *)
OrderFree == \A p \in DOMAIN table : table[p] \in Best(p)

(* The sources come in the order they are fetched in (openSources, 551-573). *)
InProviderOrder ==
  \A i, j \in 1 .. Len(sources) : i < j => providerRank(sources[i]) <= providerRank(sources[j])

(* "Any prefix left claimed by two different functions is counted and reported
   [...] never resolved silently" (main.go:65-67): a function that some label
   gives a prefix, that no more specific label of its provider replaces and
   that the table does not, lost a recorded disagreement.  With -in in another
   order an agreement can hide one of the operators from the comparison. *)
NeverSilent ==
  InProviderOrder => \A p \in DOMAIN table : \A e \in Standing(p) :
    e.function # table[p].function =>
      \E f \in conflicts : /\ f.prefix = p /\ f.winner.function # e.function
                            /\ e.function \in {f.a.function, f.b.function}

(* A run that reached its output had usable rows from every provider it tried,
   and any other left the spec file as it was (main.go:258-261, 315-333). *)
NoProviderEmpty ==
  out # "old" => \A i \in 1 .. Len(sources) : \E r \in seen : r[2].provider = sources[i]

(* The rows that were used of a provider's sources, as source and row number. *)
Used(p) ==
  {r \in (1 .. Len(sources)) \X (1 .. MaxRows) : sources[r[1]] = p /\ r[2] <= rows[r[1]]}

(* The tallies are of records (main.go:248-254): a provider whose turn has come
   is in them, also at zero, and each one is the number of rows that were used
   of all its sources. *)
TalliesComplete ==
  /\ TypeOK
  /\ \A i \in 1 .. Len(sources) : i < cur => sources[i] \in DOMAIN perSource
  /\ \A p \in DOMAIN perSource : perSource[p] = Cardinality(Used(p))
=============================================================================
