----------------------- MODULE ProviderFunction_proofs -----------------------
(***************************************************************************)
(* Proofs about provider-function, for any sources in any order, any       *)
(* number of rows and any prefixes.                                        *)
(***************************************************************************)
EXTENDS ProviderFunction, FiniteSetTheorems, TLAPS

AllLabels == UNION {Labels(q) : q \in Providers}

(* Standing and Best of any set of entries. *)
StandingOf(D) == {e \in D : \A d \in D : d.provider = e.provider => d.rank <= e.rank}

BestOf(D) ==
  {e \in StandingOf(D) : \A d \in StandingOf(D) :
     \/ providerRank(e.provider) < providerRank(d.provider)
     \/ e.provider = d.provider /\ ~Lower(d.function, e.function)}
-----------------------------------------------------------------------------
LEMMA ProviderNames == Providers = {"aws", "cloudflare", "fastly", "google-cloud", "tor"}
<1>1. 1 .. 5 = {1, 2, 3, 4, 5}
  OBVIOUS
<1>2. /\ providerOrder[1] = "aws" /\ providerOrder[2] = "cloudflare" /\ providerOrder[3] = "fastly"
      /\ providerOrder[4] = "google-cloud" /\ providerOrder[5] = "tor"
  BY DEF providerOrder
<1> QED
  BY <1>1, <1>2, ZenonT(30) DEF Providers

(* The rank of a provider is its position, so no two share one. *)
LEMMA RankDistinct ==
  /\ \A q \in Providers : providerRank(q) \in 1 .. 5
  /\ \A p, q \in Providers : providerRank(p) = providerRank(q) => p = q
<1>1. \A q \in Providers : \E i \in 1 .. 5 : providerOrder[i] = q
  BY DEF Providers
<1>2. \A q \in Providers : providerRank(q) \in 1 .. 5 /\ providerOrder[providerRank(q)] = q
  BY <1>1 DEF providerRank
<1> QED
  BY <1>2

LEMMA LowerOrders ==
  /\ \A f : ~Lower(f, f)
  /\ \A f, g, h : Lower(f, g) /\ Lower(g, h) => Lower(f, h)
BY DEF Lower, Functions

(* What the entries of the feeds are like: two of one provider with the same
   label are the same. *)
LEMMA LabelFacts ==
  ASSUME NEW e \in AllLabels
  PROVE  /\ e.provider \in Providers /\ e.rank \in {0, 1}
         /\ \A q \in Providers : e \in Labels(q) => e.provider = q
         /\ \A d \in AllLabels : d.provider = e.provider /\ Same(d, e) => d = e
<1>1. AllLabels = {Entry("aws", "cloud", FALSE, 0), Entry("aws", "cdn", FALSE, 1), Entry("aws", "cloud", TRUE, 1),
                   Entry("cloudflare", "cdn", TRUE, 0), Entry("fastly", "cdn", TRUE, 0),
                   Entry("google-cloud", "cloud", FALSE, 0), Entry("tor", "tor-exit", FALSE, 0)}
  <2>1. /\ Labels("aws") = {Entry("aws", "cloud", FALSE, 0), Entry("aws", "cdn", FALSE, 1), Entry("aws", "cloud", TRUE, 1)}
        /\ Labels("cloudflare") = {Entry("cloudflare", "cdn", TRUE, 0)}
        /\ Labels("fastly") = {Entry("fastly", "cdn", TRUE, 0)}
        /\ Labels("google-cloud") = {Entry("google-cloud", "cloud", FALSE, 0)}
        /\ Labels("tor") = {Entry("tor", "tor-exit", FALSE, 0)}
    BY DEF Labels
  <2>2. AllLabels = Labels("aws") \cup Labels("cloudflare") \cup Labels("fastly") \cup Labels("google-cloud")
                    \cup Labels("tor")
    BY ProviderNames DEF AllLabels
  <2> QED
    BY <2>1, <2>2
<1>2. e.provider \in Providers /\ e.rank \in {0, 1}
  BY <1>1, ProviderNames DEF Entry
<1>3. \A q \in Providers : e \in Labels(q) => e.provider = q
  BY ProviderNames DEF Labels, Entry
<1>4. \A d \in AllLabels : d.provider = e.provider /\ Same(d, e) => d = e
  BY <1>1 DEF Entry, Same
<1> QED
  BY <1>2, <1>3, <1>4

(* A provider that said anything has a standing entry. *)
LEMMA SomeStands ==
  ASSUME NEW D \in SUBSET AllLabels, NEW d \in D
  PROVE  \E s \in StandingOf(D) : s.provider = d.provider
<1>1. CASE \E h \in D : h.provider = d.provider /\ h.rank = 1
  <2>1. PICK h \in D : h.provider = d.provider /\ h.rank = 1
    BY <1>1
  <2>2. \A x \in D : x.rank \in {0, 1}
    BY LabelFacts
  <2>3. h \in StandingOf(D)
    BY <2>1, <2>2 DEF StandingOf
  <2> QED
    BY <2>1, <2>3
<1>2. CASE ~\E h \in D : h.provider = d.provider /\ h.rank = 1
  <2>1. \A x \in D : x.rank \in {0, 1}
    BY LabelFacts
  <2>2. d \in StandingOf(D)
    BY <1>2, <2>1 DEF StandingOf
  <2> QED
    BY <2>2
<1> QED
  BY <1>1, <1>2

(* One merge: if the table has the best of the entries met, it has the best of
   them and one more. *)
LEMMA WinnerBest ==
  ASSUME NEW D \in SUBSET AllLabels, NEW prev \in BestOf(D), NEW e \in AllLabels
  PROVE  Winner(prev, e) \in BestOf(D \cup {e})
<1> DEFINE rank(x) == providerRank(x.provider)
<1> DEFINE S == StandingOf(D)
<1> DEFINE T == StandingOf(D \cup {e})
<1> DEFINE earlier == rank(e) < rank(prev)
<1>1. prev \in D /\ prev \in S /\ prev \in AllLabels
  BY DEF BestOf, StandingOf
<1>2. /\ \A x \in D \cup {e} : x.provider \in Providers /\ rank(x) \in 1 .. 5 /\ x.rank \in {0, 1}
      /\ \A x, y \in D \cup {e} : rank(x) = rank(y) => x.provider = y.provider
  BY LabelFacts, RankDistinct
<1>3. \A d \in T : d = e \/ d \in S
  BY DEF StandingOf
<1>4. \A d \in S : rank(prev) < rank(d) \/ (d.provider = prev.provider /\ ~Lower(d.function, prev.function))
  BY DEF BestOf
<1>5. \A d \in S : d.provider = prev.provider => d.rank = prev.rank
  BY <1>1, <1>2 DEF StandingOf
<1> HIDE DEF rank, S, T
<1>6. CASE e.provider # prev.provider /\ earlier
  <2>1. Winner(prev, e) = e
    BY <1>6 DEF Winner, Ranked, rank
  <2>2. \A d \in D : d.provider # e.provider
    <3> SUFFICES ASSUME NEW d \in D, d.provider = e.provider PROVE FALSE
      OBVIOUS
    <3>1. PICK s \in S : s.provider = e.provider
      BY SomeStands DEF S
    <3>2. rank(s) = rank(e) /\ s \in D
      BY <3>1 DEF rank, S, StandingOf
    <3> QED
      BY <1>1, <1>2, <1>4, <1>6, <3>1, <3>2
  <2>3. e \in T
    BY <1>2, <2>2 DEF T, StandingOf
  <2>4. \A d \in T : rank(e) < rank(d) \/ (e.provider = d.provider /\ ~Lower(d.function, e.function))
    <3> SUFFICES ASSUME NEW d \in T, d # e PROVE rank(e) < rank(d)
      BY LowerOrders
    <3>1. d \in S /\ d \in D
      BY <1>3 DEF S, StandingOf
    <3>2. rank(prev) <= rank(d)
      BY <1>1, <1>2, <1>4, <3>1 DEF rank
    <3> QED
      BY <1>1, <1>2, <1>6, <3>1, <3>2
  <2> QED
    BY <2>1, <2>3, <2>4 DEF BestOf, T, rank
<1>7. CASE e.provider # prev.provider /\ ~earlier
  <2>1. Winner(prev, e) = prev
    BY <1>7 DEF Winner, Ranked, rank
  <2>2. rank(prev) < rank(e)
    BY <1>1, <1>2, <1>7
  <2>3. prev \in T
    BY <1>1, <1>7 DEF S, T, StandingOf
  <2> QED
    BY <1>3, <1>4, <2>1, <2>2, <2>3 DEF BestOf, T, rank
<1>8. CASE e.provider = prev.provider /\ Same(prev, e)
  <2>1. e = prev
    BY <1>1, <1>8, LabelFacts
  <2>2. D \cup {e} = D
    BY <1>1, <2>1
  <2>3. Winner(prev, e) = prev
    BY <2>1 DEF Winner, Same
  <2> QED
    BY <2>2, <2>3
<1>9. CASE e.provider = prev.provider /\ ~Same(prev, e) /\ e.rank > prev.rank
  <2>1. Winner(prev, e) = e
    BY <1>1, <1>2, <1>9 DEF Winner, Ranked
  <2>2. \A d \in D : d.provider = e.provider => d.rank <= prev.rank
    BY <1>1, <1>9 DEF S, StandingOf
  <2>3. e \in T
    BY <1>1, <1>2, <1>9, <2>2 DEF T, StandingOf
  <2>4. \A d \in T : d.provider = e.provider => d = e
    BY <1>1, <1>2, <1>9, <2>2 DEF T, StandingOf
  <2>5. \A d \in T : rank(e) < rank(d) \/ (e.provider = d.provider /\ ~Lower(d.function, e.function))
    BY <1>3, <1>4, <1>9, <2>4, LowerOrders DEF rank
  <2> QED
    BY <2>1, <2>3, <2>5 DEF BestOf, T, rank
<1>10. CASE e.provider = prev.provider /\ ~Same(prev, e) /\ e.rank < prev.rank
  <2>1. Winner(prev, e) = prev
    BY <1>1, <1>2, <1>10 DEF Winner, Ranked
  <2>2. prev \in T /\ e \notin T
    BY <1>1, <1>2, <1>10 DEF S, T, StandingOf
  <2> QED
    BY <1>3, <1>4, <2>1, <2>2 DEF BestOf, T, rank
<1>11. CASE e.provider = prev.provider /\ ~Same(prev, e) /\ e.rank = prev.rank
  <2>1. Winner(prev, e) = IF Lower(e.function, prev.function) THEN e ELSE prev
    <3>1. ~(providerRank(e.provider) < providerRank(prev.provider))
      BY <1>1, <1>2, <1>11 DEF rank
    <3> QED
      BY <1>11, <3>1 DEF Winner, Ranked
  <2>2. prev \in T /\ e \in T
    BY <1>1, <1>2, <1>11 DEF S, T, StandingOf
  <2>3. CASE Lower(e.function, prev.function)
    <3>1. \A d \in T : rank(e) < rank(d) \/ (e.provider = d.provider /\ ~Lower(d.function, e.function))
      BY <1>3, <1>4, <1>11, <2>3, LowerOrders DEF rank
    <3> QED
      BY <2>1, <2>2, <2>3, <3>1, SMTT(30) DEF BestOf, T, rank
  <2>4. CASE ~Lower(e.function, prev.function)
    <3>1. \A d \in T : rank(prev) < rank(d) \/ (prev.provider = d.provider /\ ~Lower(d.function, prev.function))
      BY <1>3, <1>4, <1>11, <2>4 DEF rank
    <3> QED
      BY <2>1, <2>2, <2>4, <3>1 DEF BestOf, T, rank
  <2> QED
    BY <2>3, <2>4
<1> QED
  BY <1>1, <1>2, <1>6, <1>7, <1>8, <1>9, <1>10, <1>11

(* A disagreement of the rest of one provider, for entries that come in the
   order of their providers: everything standing beside the winner with
   another function is what the step reports, or was so before. *)
LEMMA LoserKnown ==
  ASSUME NEW D \in SUBSET AllLabels, NEW prev \in BestOf(D), NEW e \in AllLabels,
         \A d \in D : providerRank(d.provider) <= providerRank(e.provider),
         NEW d \in StandingOf(D \cup {e}), d.function # Winner(prev, e).function
  PROVE  \/ d \in StandingOf(D) /\ d.function # prev.function
         \/ /\ ~Same(prev, e) /\ ~Ranked(prev, e)
            /\ d.function \in {prev.function, e.function}
<1>1. prev \in D /\ prev \in StandingOf(D) /\ prev \in AllLabels
  BY DEF BestOf, StandingOf
<1>2. d = e \/ d \in StandingOf(D)
  BY DEF StandingOf
<1>3. providerRank(prev.provider) <= providerRank(e.provider)
  BY <1>1
<1>4. \A x \in {prev, e} : providerRank(x.provider) \in 1 .. 5 /\ x.rank \in {0, 1}
  BY <1>1, LabelFacts, RankDistinct
<1>5. CASE Same(prev, e)
  <2>1. Winner(prev, e) = prev
    BY <1>3, <1>4, <1>5 DEF Winner
  <2> QED
    BY <1>2, <1>5, <2>1 DEF Same
<1>6. CASE ~Same(prev, e) /\ Ranked(prev, e)
  <2>1. CASE e.rank > prev.rank
    <3>1. Winner(prev, e) = e
      BY <1>6, <2>1 DEF Winner
    <3>2. d \in StandingOf(D)
      BY <1>2, <3>1
    <3>3. d.provider # e.provider
      BY <1>1, <1>4, <1>6, <2>1, <3>2, LabelFacts DEF StandingOf, Ranked
    <3>4. providerRank(prev.provider) < providerRank(d.provider)
      BY <1>6, <3>2, <3>3 DEF BestOf, Ranked
    <3>5. d \in D /\ providerRank(d.provider) \in 1 .. 5
      BY <3>2, LabelFacts, RankDistinct DEF StandingOf
    <3> QED
      BY <1>4, <1>6, <3>4, <3>5 DEF Ranked
  <2>2. CASE ~(e.rank > prev.rank)
    <3>1. Winner(prev, e) = prev
      BY <1>6, <2>2 DEF Winner
    <3>2. e \notin StandingOf(D \cup {e})
      BY <1>1, <1>4, <1>6, <2>2 DEF StandingOf, Ranked
    <3> QED
      BY <1>2, <3>1, <3>2
  <2> QED
    BY <2>1, <2>2
<1>7. CASE ~Same(prev, e) /\ ~Ranked(prev, e)
  BY <1>2, <1>7
<1> QED
  BY <1>5, <1>6, <1>7
-----------------------------------------------------------------------------
(* The table has the prefixes that were met, the feed being read is one of the
   sources, and what is emitted goes to an opened output. *)
Shapes ==
  /\ sources \in Seq(Providers) /\ cur \in Nat \ {0}
  /\ pc = "parse" => cur \in 1 .. Len(sources)
  /\ pc = "emit" => out # "old"
  /\ seen \subseteq Prefixes \X AllLabels
  /\ DOMAIN table = {p \in Prefixes : Said(p) # {}}

(* What was met is of a source that was begun. *)
FromBegun == \A r \in seen : \E j \in 1 .. Len(sources) : j <= cur /\ sources[j] = r[2].provider

(* A tally above zero is of a provider of which something was met. *)
TallyOfSeen ==
  \A q \in DOMAIN perSource :
    perSource[q] \in Nat /\ (perSource[q] > 0 => \E r \in seen : r[2].provider = q)

ProviderInv == Shapes /\ FromBegun /\ TallyOfSeen /\ OrderFree /\ NeverSilent /\ NoProviderEmpty

LEMMA InvInit == Init => ProviderInv
<1> SUFFICES ASSUME Init PROVE ProviderInv
  OBVIOUS
<1>1. seen = {} /\ DOMAIN table = {} /\ DOMAIN perSource = {} /\ out = "old"
  BY DEF Init
<1>2. Shapes
  BY <1>1, SourcesAssumption DEF Init, Shapes, Said
<1> QED
  BY <1>1, <1>2 DEF ProviderInv, FromBegun, TallyOfSeen, OrderFree, NeverSilent, NoProviderEmpty

(* What a row adds to what was said, and does to the table. *)
LEMMA RowEffect ==
  ASSUME Shapes, NEW p \in Prefixes, NEW e \in AllLabels, Row(p, e)
  PROVE  /\ Said(p)' = Said(p) \cup {e}
         /\ \A q : q # p => Said(q)' = Said(q)
         /\ \A q : Said(q) \in SUBSET AllLabels
         /\ DOMAIN table' = DOMAIN table \cup {p}
         /\ \A q \in DOMAIN table : q # p => table'[q] = table[q]
         /\ p \notin DOMAIN table => table'[p] = e /\ Said(p) = {} /\ conflicts' = conflicts
         /\ p \in DOMAIN table => table'[p] = Winner(table[p], e)
         /\ conflicts \subseteq conflicts'
         /\ p \in DOMAIN table /\ ~Same(table[p], e) /\ ~Ranked(table[p], e) =>
              [prefix |-> p, a |-> table[p], b |-> e, winner |-> Winner(table[p], e)] \in conflicts'
<1>1. seen' = seen \cup {<<p, e>>}
  BY DEF Row
<1>2. Said(p)' = Said(p) \cup {e} /\ \A q : q # p => Said(q)' = Said(q)
  <2>1. seen \subseteq Prefixes \X AllLabels /\ seen' \subseteq Prefixes \X AllLabels
    BY <1>1 DEF Shapes
  <2>2. \A q, x : (x \in Said(q) <=> <<q, x>> \in seen) /\ (x \in Said(q)' <=> <<q, x>> \in seen')
    BY <2>1 DEF Said
  <2>3. \A q, x : x \in Said(q)' <=> x \in Said(q) \/ (q = p /\ x = e)
    BY <1>1, <2>2
  <2>4. Said(p)' = Said(p) \cup {e}
    <3>1. \A x : x \in Said(p)' <=> x \in Said(p) \/ x = e
      BY <2>3, Zenon
    <3> QED
      BY <3>1
  <2>5. ASSUME NEW q, q # p PROVE Said(q)' = Said(q)
    <3>1. \A x : x \in Said(q)' <=> x \in Said(q)
      BY <2>3, <2>5, Zenon
    <3> QED
      BY <3>1
  <2> QED
    BY <2>4, <2>5
<1>3. \A q : Said(q) \in SUBSET AllLabels
  BY DEF Shapes, Said
<1>4. table' = [q \in DOMAIN table \cup {p} |->
                  IF q # p THEN table[q] ELSE IF p \in DOMAIN table THEN Winner(table[p], e) ELSE e]
  BY DEF Row, merge
<1>5. p \notin DOMAIN table => Said(p) = {}
  BY DEF Shapes
<1>6. conflicts' = IF p \in DOMAIN table /\ ~Same(table[p], e) /\ ~Ranked(table[p], e)
                   THEN conflicts \cup {[prefix |-> p, a |-> table[p], b |-> e, winner |-> Winner(table[p], e)]}
                   ELSE conflicts
  BY DEF Row, merge
<1> QED
  BY <1>2, <1>3, <1>4, <1>5, <1>6

LEMMA SaidSets == /\ \A q : Standing(q) = StandingOf(Said(q)) /\ Best(q) = BestOf(Said(q))
                  /\ \A q : Standing(q)' = StandingOf(Said(q)') /\ Best(q)' = BestOf(Said(q)')
BY DEF Standing, StandingOf, Best, BestOf

LEMMA RowOrderFree ==
  ASSUME Shapes, OrderFree, NEW p \in Prefixes, NEW e \in AllLabels, Row(p, e)
  PROVE  OrderFree'
<1> SUFFICES ASSUME NEW q \in DOMAIN table' PROVE table'[q] \in BestOf(Said(q)')
  BY SaidSets DEF OrderFree
<1>1. CASE q # p
  <2>1. q \in DOMAIN table /\ table'[q] = table[q] /\ Said(q)' = Said(q)
    <3>1. DOMAIN table' = DOMAIN table \cup {p} /\ \A r \in DOMAIN table : r # p => table'[r] = table[r]
      BY RowEffect
    <3>2. \A r : r # p => Said(r)' = Said(r)
      BY RowEffect
    <3> QED
      BY <1>1, <3>1, <3>2
  <2>2. table[q] \in BestOf(Said(q))
    BY <2>1, SaidSets DEF OrderFree
  <2> QED
    BY <2>1, <2>2
<1>2. CASE q = p /\ p \in DOMAIN table
  <2>1. table'[p] = Winner(table[p], e) /\ Said(p)' = Said(p) \cup {e} /\ Said(p) \in SUBSET AllLabels
    BY <1>2, RowEffect
  <2>2. table[p] \in BestOf(Said(p))
    BY <1>2, SaidSets DEF OrderFree
  <2>3. Winner(table[p], e) \in BestOf(Said(p) \cup {e})
    BY <2>1, <2>2, WinnerBest
  <2> QED
    BY <1>2, <2>1, <2>3
<1>3. CASE q = p /\ p \notin DOMAIN table
  <2>1. Said(p)' = {e} /\ table'[p] = e
    BY <1>3, RowEffect
  <2>2. e \in StandingOf({e})
    BY LabelFacts DEF StandingOf
  <2>3. e \in BestOf({e})
    BY <2>2, LowerOrders DEF BestOf, StandingOf
  <2> QED
    BY <1>3, <2>1, <2>3
<1> QED
  BY <1>1, <1>2, <1>3

(* In the order of the providers, what was met is of none after the one whose
   row comes now. *)
LEMMA InOrderSoFar ==
  ASSUME Shapes, FromBegun, InProviderOrder, NEW p \in Prefixes, NEW e \in AllLabels, Row(p, e)
  PROVE  \A d \in Said(p) : providerRank(d.provider) <= providerRank(e.provider)
<1>1. cur \in 1 .. Len(sources) /\ sources[cur] \in Providers /\ e \in Labels(sources[cur])
  BY DEF Shapes, Row, Parsing
<1>2. e.provider = sources[cur]
  BY <1>1, LabelFacts
<1> SUFFICES ASSUME NEW d \in Said(p) PROVE providerRank(d.provider) <= providerRank(e.provider)
  OBVIOUS
<1>3. PICK j \in 1 .. Len(sources) : j <= cur /\ sources[j] = d.provider
  BY DEF FromBegun, Said
<1>4. sources[j] \in Providers /\ Len(sources) \in Nat
  BY DEF Shapes
<1>5. CASE j = cur
  BY <1>1, <1>2, <1>3, <1>5, RankDistinct
<1>6. CASE j < cur
  BY <1>1, <1>2, <1>3, <1>6 DEF InProviderOrder
<1> QED
  BY <1>1, <1>3, <1>4, <1>5, <1>6

LEMMA RowNeverSilent ==
  ASSUME Shapes, FromBegun, OrderFree, NeverSilent, NEW p \in Prefixes, NEW e \in AllLabels, Row(p, e)
  PROVE  NeverSilent'
<1> DEFINE Logged(q, x, log) ==
      \E f \in log : /\ f.prefix = q /\ f.winner.function # x.function
                     /\ x.function \in {f.a.function, f.b.function}
<1>1. sources' = sources
  BY DEF Row
<1> SUFFICES ASSUME InProviderOrder, NEW q \in DOMAIN table', NEW d \in StandingOf(Said(q)'),
                    d.function # table'[q].function
             PROVE  Logged(q, d, conflicts')
  BY <1>1, SaidSets DEF NeverSilent, InProviderOrder
<1>2. ASSUME NEW r \in DOMAIN table, NEW x \in StandingOf(Said(r)), x.function # table[r].function
      PROVE  Logged(r, x, conflicts')
  <2>1. Logged(r, x, conflicts)
    BY <1>2, SaidSets DEF NeverSilent
  <2> QED
    BY <2>1, RowEffect
<1>3. CASE q # p
  <2>1. DOMAIN table' = DOMAIN table \cup {p} /\ \A r \in DOMAIN table : r # p => table'[r] = table[r]
    BY RowEffect
  <2>2. \A r : r # p => Said(r)' = Said(r)
    BY RowEffect
  <2> QED
    BY <1>2, <1>3, <2>1, <2>2
<1>4. CASE q = p /\ p \notin DOMAIN table
  <2>1. Said(q)' = {e} /\ table'[q] = e
    BY <1>4, RowEffect, ZenonT(30)
  <2> QED
    BY <2>1 DEF StandingOf
<1>5. CASE q = p /\ p \in DOMAIN table
  <2> DEFINE prev == table[p]
  <2>1. prev \in BestOf(Said(p)) /\ Said(p) \in SUBSET AllLabels /\ Said(p)' = Said(p) \cup {e}
        /\ table'[p] = Winner(prev, e)
    BY <1>5, RowEffect, SaidSets DEF OrderFree
  <2>2. \/ d \in StandingOf(Said(p)) /\ d.function # prev.function
        \/ ~Same(prev, e) /\ ~Ranked(prev, e) /\ d.function \in {prev.function, e.function}
    <3>1. \A x \in Said(p) : providerRank(x.provider) <= providerRank(e.provider)
      BY InOrderSoFar
    <3>2. d \in StandingOf(Said(p) \cup {e}) /\ d.function # Winner(prev, e).function
      BY <1>5, <2>1
    <3> HIDE DEF prev
    <3> QED
      BY <2>1, <3>1, <3>2, LoserKnown
  <2>3. CASE d \in StandingOf(Said(p)) /\ d.function # prev.function
    BY <1>2, <1>5, <2>3
  <2>4. CASE ~Same(prev, e) /\ ~Ranked(prev, e) /\ d.function \in {prev.function, e.function}
    <3> DEFINE f == [prefix |-> p, a |-> prev, b |-> e, winner |-> Winner(prev, e)]
    <3>1. f \in conflicts'
      BY <1>5, <2>4, RowEffect
    <3>2. f.prefix = q /\ f.winner.function # d.function /\ d.function \in {f.a.function, f.b.function}
      BY <1>5, <2>1, <2>4
    <3> QED
      BY <3>1, <3>2
  <2> QED
    BY <2>2, <2>3, <2>4
<1> QED
  BY <1>3, <1>4, <1>5

(* A step that meets nothing leaves the table and the reports alone. *)
LEMMA QuietStep ==
  ASSUME ProviderInv, UNCHANGED <<sources, seen, table, conflicts>>
  PROVE  OrderFree' /\ NeverSilent' /\ (DOMAIN table = {p \in Prefixes : Said(p) # {}})'
<1>1. \A q : Said(q)' = Said(q)
  BY DEF Said
<1>2. \A q : Standing(q)' = Standing(q) /\ Best(q)' = Best(q)
  BY <1>1, SaidSets
<1> QED
  BY <1>1, <1>2 DEF ProviderInv, Shapes, OrderFree, NeverSilent, InProviderOrder

LEMMA RowStep ==
  ASSUME ProviderInv, NEW p \in Prefixes, NEW e \in AllLabels, Row(p, e)
  PROVE  ProviderInv'
<1>1. /\ pc = "parse" /\ UNCHANGED <<sources, cur, pc, out>>
      /\ seen' = seen \cup {<<p, e>>} /\ e.provider \in Providers
      /\ perSource' = [q \in DOMAIN perSource \cup {e.provider} |-> Count(q) + IF q = e.provider THEN 1 ELSE 0]
  BY LabelFacts DEF Row, Parsing, Tally
<1>2. Shapes'
  <2>1. DOMAIN table' = {q \in Prefixes : Said(q)' # {}}
    <3>1. DOMAIN table' = DOMAIN table \cup {p} /\ Said(p)' = Said(p) \cup {e}
      BY RowEffect DEF ProviderInv
    <3>2. \A q : q # p => Said(q)' = Said(q)
      BY RowEffect DEF ProviderInv
    <3>3. \A q : q \in DOMAIN table <=> q \in Prefixes /\ Said(q) # {}
      BY DEF ProviderInv, Shapes
    <3> QED
      BY <3>1, <3>2, <3>3
  <2> QED
    BY <1>1, <2>1 DEF ProviderInv, Shapes
<1>3. FromBegun'
  <2>1. cur \in 1 .. Len(sources) /\ sources[cur] = e.provider
    BY LabelFacts DEF ProviderInv, Shapes, Row, Parsing
  <2>2. \A r \in seen' : r \in seen \/ r[2] = e
    BY <1>1
  <2>3. cur <= cur
    BY <2>1
  <2> QED
    BY <1>1, <2>1, <2>2, <2>3 DEF ProviderInv, FromBegun
<1>4. TallyOfSeen'
  <2>1. \A q \in DOMAIN perSource : perSource[q] \in Nat
    BY DEF ProviderInv, TallyOfSeen
  <2>2. \A q : Count(q) \in Nat
    BY <2>1 DEF Count
  <2> SUFFICES ASSUME NEW q \in DOMAIN perSource'
               PROVE  perSource'[q] \in Nat /\ (perSource'[q] > 0 => \E r \in seen' : r[2].provider = q)
    BY DEF TallyOfSeen
  <2>3. CASE q = e.provider
    <3>1. perSource'[q] = Count(q) + 1
      BY <1>1, <2>3
    <3>2. <<p, e>> \in seen' /\ <<p, e>>[2] = e
      BY <1>1
    <3> QED
      BY <2>2, <2>3, <3>1, <3>2
  <2>4. CASE q # e.provider
    <3>1. q \in DOMAIN perSource /\ perSource'[q] = perSource[q]
      BY <1>1, <2>1, <2>4 DEF Count
    <3> QED
      BY <1>1, <3>1 DEF ProviderInv, TallyOfSeen
  <2> QED
    BY <2>3, <2>4
<1>5. OrderFree' /\ NeverSilent'
  BY RowOrderFree, RowNeverSilent DEF ProviderInv
<1>6. NoProviderEmpty'
  BY <1>1 DEF ProviderInv, NoProviderEmpty
<1> QED
  BY <1>2, <1>3, <1>4, <1>5, <1>6 DEF ProviderInv

(* The guard is what opens the output. *)
LEMMA CreateStep ==
  ASSUME ProviderInv, Create
  PROVE  NoProviderEmpty'
<1> SUFFICES ASSUME out' # "old" PROVE \A i \in 1 .. Len(sources) : \E r \in seen : r[2].provider = sources[i]
  BY DEF NoProviderEmpty, Create
<1>1. out # "old" \/ Produced
  BY DEF Create
<1>2. CASE Produced
  <2>1. \A i \in 1 .. Len(sources) : sources[i] \in DOMAIN perSource /\ perSource[sources[i]] > 0
    BY <1>2 DEF Produced, Count
  <2> QED
    BY <2>1 DEF ProviderInv, TallyOfSeen
<1> QED
  BY <1>1, <1>2 DEF ProviderInv, NoProviderEmpty

(* Every step but a row. *)
LEMMA OtherStep ==
  ASSUME ProviderInv, openSources \/ Attempt \/ Malformed \/ EndOfSource \/ ParseFails \/ Create \/ Emit
  PROVE  ProviderInv'
<1>1. UNCHANGED <<sources, seen, table, conflicts>>
  BY DEF openSources, Attempt, Malformed, EndOfSource, ParseFails, Create, Emit
<1>2. OrderFree' /\ NeverSilent' /\ (DOMAIN table = {p \in Prefixes : Said(p) # {}})'
  BY <1>1, QuietStep
<1>3. cur' \in {cur, cur + 1} /\ cur \in Nat \ {0} /\ sources \in Seq(Providers)
  BY DEF ProviderInv, Shapes, openSources, Attempt, Malformed, EndOfSource, ParseFails, Create, Emit
<1>4. (pc' = "parse" => cur' \in 1 .. Len(sources)) /\ (pc' = "emit" => out' # "old")
  <2>1. CASE Attempt
    BY <1>3, <2>1 DEF Attempt
  <2>2. CASE openSources \/ Malformed \/ EndOfSource \/ ParseFails \/ Create \/ Emit
    BY <2>2 DEF ProviderInv, Shapes, openSources, Malformed, EndOfSource, ParseFails, Create, Emit, Fail
  <2> QED
    BY <2>1, <2>2
<1>5. Shapes'
  BY <1>1, <1>2, <1>3, <1>4, SMTT(30) DEF ProviderInv, Shapes
<1>6. FromBegun'
  <2>1. ASSUME NEW r \in seen, NEW j \in 1 .. Len(sources), j <= cur
        PROVE  j <= cur'
    BY <1>3, <2>1
  <2>2. FromBegun
    BY DEF ProviderInv
  <2> QED
    BY <1>1, <2>1, <2>2, Zenon DEF FromBegun
<1>7. TallyOfSeen'
  <2>1. CASE Attempt
    <3>1. perSource' = [q \in DOMAIN perSource \cup {sources[cur]} |-> Count(q) + IF q = sources[cur] THEN 0 ELSE 0]
      BY <2>1 DEF Attempt, Tally
    <3>2. \A q \in DOMAIN perSource : perSource[q] \in Nat /\ (perSource[q] > 0 => \E r \in seen : r[2].provider = q)
      BY DEF ProviderInv, TallyOfSeen
    <3>3. \A q \in DOMAIN perSource' : perSource'[q] \in Nat /\ (perSource'[q] > 0 => \E r \in seen : r[2].provider = q)
      BY <3>1, <3>2 DEF Count
    <3> QED
      BY <1>1, <3>3 DEF TallyOfSeen
  <2>2. CASE openSources \/ Malformed \/ EndOfSource \/ ParseFails \/ Create \/ Emit
    <3>1. perSource' = perSource
      BY <2>2 DEF openSources, Malformed, EndOfSource, ParseFails, Create, Emit
    <3> QED
      BY <1>1, <3>1 DEF ProviderInv, TallyOfSeen
  <2> QED
    BY <2>1, <2>2
<1>8. NoProviderEmpty'
  <2>1. CASE Create
    BY <2>1, CreateStep
  <2>2. CASE openSources \/ Attempt \/ Malformed \/ EndOfSource \/ ParseFails \/ Emit
    <3>1. out' # "old" => out # "old"
      BY <2>2 DEF ProviderInv, Shapes, openSources, Attempt, Malformed, EndOfSource, ParseFails, Emit
    <3> QED
      BY <1>1, <3>1 DEF ProviderInv, NoProviderEmpty
  <2> QED
    BY <2>1, <2>2
<1> QED
  BY <1>2, <1>5, <1>6, <1>7, <1>8 DEF ProviderInv

LEMMA InvStep == ProviderInv /\ [Next]_vars => ProviderInv'
<1> SUFFICES ASSUME ProviderInv, [Next]_vars PROVE ProviderInv'
  OBVIOUS
<1>1. CASE \E p \in Prefixes, q \in Providers : \E e \in Labels(q) : Row(p, e)
  BY <1>1, RowStep DEF AllLabels
<1>2. CASE openSources \/ Attempt \/ Malformed \/ EndOfSource \/ ParseFails \/ Create \/ Emit
  BY <1>2, OtherStep
<1>3. CASE UNCHANGED vars
  <2>1. UNCHANGED <<sources, seen, table, conflicts>>
    BY <1>3 DEF vars
  <2>2. OrderFree' /\ NeverSilent' /\ (DOMAIN table = {p \in Prefixes : Said(p) # {}})'
    BY <2>1, QuietStep
  <2> QED
    BY <1>3, <2>2 DEF vars, ProviderInv, Shapes, FromBegun, TallyOfSeen, NoProviderEmpty
<1> QED
  BY <1>1, <1>2, <1>3 DEF Next
-----------------------------------------------------------------------------
LEMMA ProviderInvariant == Spec => []ProviderInv
BY InvInit, InvStep, PTL DEF Spec

(* Whatever sources are read, in whatever order and with whatever rows: each
   prefix keeps the most specific label of the first provider that names it
   (main.go:335-338). *)
THEOREM LabelReproducible == Spec => []OrderFree
<1>1. ProviderInv => OrderFree
  BY DEF ProviderInv
<1> QED
  BY <1>1, ProviderInvariant, PTL

(* Read in the order of the providers, no label of another function is lost
   unreported (main.go:65-67). *)
THEOREM ProviderCorrect == Spec => []NeverSilent
<1>1. ProviderInv => NeverSilent
  BY DEF ProviderInv
<1> QED
  BY <1>1, ProviderInvariant, PTL

(* The output is opened only with rows of every provider (main.go:258-261). *)
THEOREM NoSilentDrop == Spec => []NoProviderEmpty
<1>1. ProviderInv => NoProviderEmpty
  BY DEF ProviderInv
<1> QED
  BY <1>1, ProviderInvariant, PTL
-----------------------------------------------------------------------------
(* Where run is, and what the tallies hold: every provider's count, 0 for one
   that is not in them, is the number of its rows that were used. *)
Places ==
  /\ pc \in {"open", "attempt", "parse", "emit", "failed", "done"}
  /\ out \in {"old", "truncated", "whole"}
  /\ cur \in 1 .. Len(sources) + 1
  /\ rows \in [1 .. Len(sources) -> 0 .. MaxRows]

Attempted ==
  /\ DOMAIN perSource \subseteq {sources[i] : i \in 1 .. Len(sources)}
  /\ \A i \in 1 .. Len(sources) :
       i < cur \/ (pc = "parse" /\ i = cur) => sources[i] \in DOMAIN perSource

Tallied == \A p \in Providers : IsFiniteSet(Used(p)) /\ Count(p) = Cardinality(Used(p))

TallyInv == Places /\ Attempted /\ Tallied

LEMMA TallyInit == Init => TallyInv
<1> SUFFICES ASSUME Init PROVE TallyInv
  OBVIOUS
<1>1. sources \in Seq(Providers) /\ Len(sources) \in Nat
  BY SourcesAssumption DEF Init
<1>2. Places
  BY <1>1, BoundAssumption DEF Init, Places
<1>3. Attempted
  BY <1>1 DEF Init, Attempted
<1>4. \A p : Used(p) = {}
  BY <1>1, BoundAssumption DEF Init, Used
<1>5. \A p : Count(p) = 0
  BY DEF Init, Count
<1>6. Tallied
  BY <1>4, <1>5, FS_EmptySet DEF Tallied
<1> QED
  BY <1>2, <1>3, <1>6 DEF TallyInv

(* A row is one more of its provider's, and none of another's. *)
LEMMA RowUsed ==
  ASSUME Shapes, Places, NEW p \in Prefixes, NEW e \in AllLabels, Row(p, e)
  PROVE  /\ <<cur, rows[cur] + 1>> \notin Used(e.provider)
         /\ Used(e.provider)' = Used(e.provider) \cup {<<cur, rows[cur] + 1>>}
         /\ \A q \in Providers : q # e.provider => Used(q)' = Used(q)
<1>1. /\ cur \in 1 .. Len(sources) /\ rows[cur] \in Nat /\ rows[cur] + 1 \in 1 .. MaxRows
      /\ \A i \in 1 .. Len(sources) : rows[i] \in Nat
  <2>1. cur \in 1 .. Len(sources) /\ rows[cur] < MaxRows
    BY DEF Shapes, Row, Parsing
  <2>2. \A i \in 1 .. Len(sources) : rows[i] \in 0 .. MaxRows
    BY DEF Places
  <2> QED
    BY <2>1, <2>2, BoundAssumption
<1>2. sources[cur] = e.provider
  <2>1. sources[cur] \in Providers /\ e \in Labels(sources[cur])
    BY <1>1 DEF Shapes, Row
  <2> QED
    BY <2>1, LabelFacts
<1>3. /\ sources' = sources /\ rows'[cur] = rows[cur] + 1
      /\ \A i \in 1 .. Len(sources) : i # cur => rows'[i] = rows[i]
  BY <1>1 DEF Places, Row
<1>4. \A i \in 1 .. Len(sources), k \in 1 .. MaxRows :
        k <= rows'[i] <=> k <= rows[i] \/ (i = cur /\ k = rows[cur] + 1)
  BY <1>1, <1>3, BoundAssumption
<1>5. ASSUME NEW q, NEW i, NEW k
      PROVE  /\ <<i, k>> \in Used(q) <=>
                  i \in 1 .. Len(sources) /\ k \in 1 .. MaxRows /\ sources[i] = q /\ k <= rows[i]
             /\ <<i, k>> \in Used(q)' <=>
                  i \in 1 .. Len(sources) /\ k \in 1 .. MaxRows /\ sources[i] = q /\ k <= rows'[i]
  BY <1>3 DEF Used
<1>6. \A q : Used(q) \subseteq (1 .. Len(sources)) \X (1 .. MaxRows)
             /\ Used(q)' \subseteq (1 .. Len(sources)) \X (1 .. MaxRows)
  BY <1>3 DEF Used
<1>7. <<cur, rows[cur] + 1>> \notin Used(e.provider)
  BY <1>1, <1>5
<1>8. Used(e.provider)' = Used(e.provider) \cup {<<cur, rows[cur] + 1>>}
  <2>1. ASSUME NEW i, NEW k
        PROVE  <<i, k>> \in Used(e.provider)' <=>
                 <<i, k>> \in Used(e.provider) \/ (i = cur /\ k = rows[cur] + 1)
    <3>1. CASE i \in 1 .. Len(sources) /\ k \in 1 .. MaxRows
      <4>1. k <= rows'[i] <=> k <= rows[i] \/ (i = cur /\ k = rows[cur] + 1)
        BY <1>4, <3>1
      <4>2. i = cur => sources[i] = e.provider
        BY <1>2
      <4> QED
        BY <1>5, <3>1, <4>1, <4>2, Zenon
    <3>2. CASE ~(i \in 1 .. Len(sources) /\ k \in 1 .. MaxRows)
      <4>1. ~(i = cur /\ k = rows[cur] + 1)
        BY <1>1, <3>2
      <4> QED
        BY <1>5, <3>2, <4>1, Zenon
    <3> QED
      BY <3>1, <3>2
  <2>2. <<cur, rows[cur] + 1>> \in (1 .. Len(sources)) \X (1 .. MaxRows)
    BY <1>1
  <2> QED
    BY <1>6, <2>1, <2>2
<1>9. ASSUME NEW q \in Providers, q # e.provider PROVE Used(q)' = Used(q)
  <2>1. ASSUME NEW i, NEW k PROVE <<i, k>> \in Used(q)' <=> <<i, k>> \in Used(q)
    <3>1. i \in 1 .. Len(sources) /\ i # cur => rows'[i] = rows[i]
      BY <1>3
    <3>2. sources[i] = q => i # cur
      BY <1>2, <1>9
    <3> QED
      BY <1>5, <3>1, <3>2
  <2>2. \A r \in (1 .. Len(sources)) \X (1 .. MaxRows) : r \in Used(q)' <=> r \in Used(q)
    BY <2>1
  <2> QED
    BY <1>6, <2>2, Zenon
<1> QED
  BY <1>7, <1>8, <1>9

LEMMA TallyRow ==
  ASSUME ProviderInv, TallyInv, NEW p \in Prefixes, NEW e \in AllLabels, Row(p, e)
  PROVE  TallyInv'
<1>1. /\ pc = "parse" /\ UNCHANGED <<sources, cur, pc, out>> /\ e.provider \in Providers
      /\ cur \in 1 .. Len(sources) /\ rows[cur] < MaxRows /\ rows' = [rows EXCEPT ![cur] = @ + 1]
      /\ perSource' = [q \in DOMAIN perSource \cup {e.provider} |-> Count(q) + IF q = e.provider THEN 1 ELSE 0]
  BY LabelFacts DEF ProviderInv, Shapes, Row, Parsing, Tally
<1>2. sources[cur] = e.provider
  <2>1. sources[cur] \in Providers /\ e \in Labels(sources[cur])
    BY <1>1 DEF ProviderInv, Shapes, Row
  <2> QED
    BY <2>1, LabelFacts
<1>3. Places'
  BY <1>1, BoundAssumption DEF TallyInv, Places
<1>4. Attempted'
  BY <1>1, <1>2 DEF TallyInv, Attempted
<1>5. Tallied'
  <2> SUFFICES ASSUME NEW q \in Providers PROVE (IsFiniteSet(Used(q)) /\ Count(q) = Cardinality(Used(q)))'
    BY DEF Tallied
  <2>1. IsFiniteSet(Used(q)) /\ Count(q) = Cardinality(Used(q)) /\ Cardinality(Used(q)) \in Nat
    BY FS_CardinalityType DEF TallyInv, Tallied
  <2>2. CASE q = e.provider
    <3>1. Count(q)' = Count(q) + 1
      BY <1>1, <2>2 DEF Count
    <3>2. /\ <<cur, rows[cur] + 1>> \notin Used(q)
          /\ Used(q)' = Used(q) \cup {<<cur, rows[cur] + 1>>}
      BY <2>2, RowUsed DEF ProviderInv, TallyInv
    <3>3. IsFiniteSet(Used(q)') /\ Cardinality(Used(q)') = Cardinality(Used(q)) + 1
      BY <2>1, <3>2, FS_AddElement
    <3> QED
      BY <2>1, <3>1, <3>3
  <2>3. CASE q # e.provider
    <3>1. Count(q)' = Count(q)
      <4>1. Count(q) + 0 = Count(q)
        BY <2>1
      <4> QED
        BY <1>1, <2>3, <4>1 DEF Count
    <3>2. Used(q)' = Used(q)
      BY <2>3, RowUsed DEF ProviderInv, TallyInv
    <3> QED
      BY <2>1, <3>1, <3>2
  <2> QED
    BY <2>2, <2>3
<1> QED
  BY <1>3, <1>4, <1>5 DEF TallyInv

(* Every other step leaves the rows alone, and adds at most a 0. *)
LEMMA TallyOther ==
  ASSUME ProviderInv, TallyInv,
         openSources \/ Attempt \/ Malformed \/ EndOfSource \/ ParseFails \/ Create \/ Emit \/ UNCHANGED vars
  PROVE  TallyInv'
<1>1. UNCHANGED <<sources, rows>>
  BY DEF openSources, Attempt, Malformed, EndOfSource, ParseFails, Create, Emit, vars
<1>2. \A q : Used(q)' = Used(q)
  BY <1>1 DEF Used
<1>3. \A q \in Providers : Count(q) \in Nat
  BY FS_CardinalityType DEF TallyInv, Tallied
<1>4. sources \in Seq(Providers) /\ cur \in Nat \ {0} /\ (pc = "parse" => cur \in 1 .. Len(sources))
  BY DEF ProviderInv, Shapes
<1>5. CASE Attempt
  <2>1. /\ pc = "attempt" /\ cur \in 1 .. Len(sources) /\ sources[cur] \in Providers
        /\ pc' = "parse" /\ UNCHANGED <<cur, out>>
        /\ perSource' = [q \in DOMAIN perSource \cup {sources[cur]} |->
                           Count(q) + IF q = sources[cur] THEN 0 ELSE 0]
    BY <1>4, <1>5 DEF Attempt, Tally
  <2>2. Places'
    BY <1>1, <2>1 DEF TallyInv, Places
  <2>3. Attempted'
    BY <1>1, <2>1 DEF TallyInv, Attempted
  <2>4. ASSUME NEW q \in Providers PROVE Count(q)' = Count(q)
    <3>1. Count(q) + 0 = Count(q)
      BY <1>3
    <3> QED
      BY <2>1, <3>1 DEF Count
  <2>5. Tallied'
    BY <1>2, <2>4 DEF TallyInv, Tallied
  <2> QED
    BY <2>2, <2>3, <2>5 DEF TallyInv
<1>6. CASE openSources \/ Malformed \/ EndOfSource \/ ParseFails \/ Create \/ Emit \/ UNCHANGED vars
  <2>1. perSource' = perSource
    BY <1>6 DEF openSources, Malformed, EndOfSource, ParseFails, Create, Emit, vars
  <2>2. Places'
    BY <1>1, <1>4, <1>6
    DEF TallyInv, Places, openSources, Malformed, EndOfSource, ParseFails, Create, Emit, vars, Fail
  <2>3. Attempted'
    <3>1. \/ cur' = cur /\ (pc' = "parse" => pc = "parse")
          \/ pc = "parse" /\ pc' = "attempt" /\ cur' = cur + 1
      BY <1>6 DEF openSources, Malformed, EndOfSource, ParseFails, Create, Emit, vars, Fail
    <3>2. \A i \in 1 .. Len(sources) : i < cur' \/ (pc' = "parse" /\ i = cur') => i < cur \/ (pc = "parse" /\ i = cur)
      BY <1>4, <3>1
    <3> QED
      BY <1>1, <2>1, <3>2 DEF TallyInv, Attempted
  <2>4. \A q : Count(q)' = Count(q)
    BY <2>1 DEF Count
  <2>5. Tallied'
    BY <1>2, <2>4 DEF TallyInv, Tallied
  <2> QED
    BY <2>2, <2>3, <2>5 DEF TallyInv
<1> QED
  BY <1>5, <1>6

LEMMA TallyStep == ProviderInv /\ TallyInv /\ [Next]_vars => TallyInv'
<1> SUFFICES ASSUME ProviderInv, TallyInv, [Next]_vars PROVE TallyInv'
  OBVIOUS
<1>1. CASE \E p \in Prefixes, q \in Providers : \E e \in Labels(q) : Row(p, e)
  BY <1>1, TallyRow DEF AllLabels
<1>2. CASE openSources \/ Attempt \/ Malformed \/ EndOfSource \/ ParseFails \/ Create \/ Emit \/ UNCHANGED vars
  BY <1>2, TallyOther
<1> QED
  BY <1>1, <1>2 DEF Next

LEMMA TalliesFollow == ProviderInv /\ TallyInv => TalliesComplete
<1> SUFFICES ASSUME ProviderInv, TallyInv PROVE TalliesComplete
  OBVIOUS
<1>1. ASSUME NEW p \in DOMAIN table PROVE <<p, table[p]>> \in seen
  <2>1. table[p] \in Said(p)
    BY DEF ProviderInv, OrderFree, Best, Standing
  <2> QED
    BY <2>1 DEF ProviderInv, Shapes, Said
<1>2. TypeOK
  BY <1>1 DEF ProviderInv, Shapes, TallyInv, Places, Attempted, TypeOK
<1>3. DOMAIN perSource \subseteq Providers
  BY DEF ProviderInv, Shapes, TallyInv, Attempted
<1>4. \A p \in DOMAIN perSource : perSource[p] = Cardinality(Used(p))
  BY <1>3 DEF TallyInv, Tallied, Count
<1> QED
  BY <1>2, <1>4 DEF TalliesComplete, TallyInv, Attempted

(* For any sources, also with a provider named more than once: a provider whose
   turn has come is in the tallies, and its count is the number of the rows
   that were used of all its sources (main.go:248-254). *)
THEOREM TallyCorrect == Spec => []TalliesComplete
<1>1. Init => TallyInv
  BY TallyInit
<1>2. ProviderInv /\ TallyInv /\ [Next]_vars => TallyInv'
  BY TallyStep
<1>3. ProviderInv /\ TallyInv => TalliesComplete
  BY TalliesFollow
<1> QED
  BY <1>1, <1>2, <1>3, ProviderInvariant, PTL DEF Spec
=============================================================================
