# A verification project for `cidr`

`cidr` is a Go library of immutable IPv4/IPv6 lookup structures (a set of prefixes, a table from prefixes to
values, a MaxMind reader) and a family of command-line tools that compile public data into the text specs the
library loads. This directory holds TLA+ models of it, the TLC runs that check them on small instances, and
proofs, checked by TLAPS, that hold for every value of the constants.

Line numbers below are of the files under `src/`.

## 1. Inventory

| Component | State it keeps | Operations | Hard behaviour | What makes it correct |
|---|---|---|---|---|
| **Set** (`cidr.go`, `Builder.AddRange` in `range.go`) | a slice of intervals per family; a frozen `Set` is a window on *the same array* | `Add`, `AddRange`, `Freeze` (sort and merge in place), `Contains` | aliasing of builder and set, concurrent readers, `hi+1` at the last address | the set covers exactly what was added; intervals stay disjoint and separated; answers are membership; a set never changes; queries and prefixes of mapped addresses meet |
| **Range split** (`range.go`) | none | `RangePrefixes`, `AppendRangePrefixes` over the two-word `u128` | carries between words, shifts by the word size, the whole address space | the cover is exact, minimal, and the loop ends |
| **Table** (`table.go`) | prefixes with value indexes; segments | `Add`, `AddRange`, `Freeze` (dedup, sweep), `Lookup` | events at one address come in any order (`sort.Slice` is not stable, maps are unordered); the last address has no close | longest match; last added value of a duplicate; tables are independent |
| **Spec loaders** (`input.go`) | a builder | `ParseSpec`, `LoadSet`, `LoadASN`, `LoadFunc`, `ParseRefs` | a read error after a part, or inside a line; junk lines | a load without an error has the whole spec; what is returned with one |
| **MMDB reader** (`mmdb.go`) | an immutable byte array | `OpenMMDB`, `Lookup` | node, empty marker and pointer arithmetic; recursion on pointers; a node count that wraps | the right record; the tree lies in the file; a lookup ends |
| **rir-country** | a table from prefix to record, a conflict list, the output files | sources, `parseLine`, `collect`, `resolve`, `emit`, conflict log | counts that overflow, claims by several countries in any order, failures around `os.Create` | every address published, and only those; conflicts recorded and explained; independence of order; no output before all is read |
| **provider-function** | a table from prefix to label, tallies | sources, `collect`, `merge`, guard, output, log | labels of different specificity, the order of the sources, a silent feed | the most specific label of the first provider; nothing dropped unreported; no provider missing |
| **ipfold** | a slice that becomes a bitmap, a slice for IPv6 | `add`, `fold` | the switch in mid-stream, runs over word borders, zones | the minimal cover of the input |
| **ipunfold** | a total, a loop | `expand`, `-count`, `-max` | the last address of a family, limit and write errors | the full expansion; the limit; the loop ends |
| **iptoasn, mm-dbip, mm-geolite2-asn** | a reader, a buffered writer, counters | `run`, `convert` | a feed that breaks off, partial writes, the order of fetch and create | exit 0 means the whole spec; the loop ends |
| **cidr** (tool) | a loaded spec, a tally | addresses from arguments or stdin, `-match` | zones, failures of the input | the right owner of each address; the exit status |
| **mmdb-build-countries**, **mmdb-write** | what is gathered of each country; the tree, the output file | rows, `pickContinent`; insertions, `WriteTo` | rows in any order; broad entries after narrow ones; aliases; failures after `os.Create` | the continent is decided by the rows alone; the database answers what the spec says; no half database |
| **Example servers** (http, mcp, unix) | a loaded spec; a socket path | requests, batches, JSON-RPC; start, stop | processes that share a path, are killed and started again | replies in order; a restarted server is reached |
| library example, installers | - | - | - | see section 8 |

How they interact. `Builder.AddRange` gives its interval to the builder directly; `TableBuilder.AddRange`,
`ipfold`, `rir-country`, `iptoasn` and `mm-dbip` call `RangePrefixes`, so the split is modelled once with its
arithmetic and used elsewhere by what it returns. A `Builder` and the `Set` it froze share memory: that is the
only mutable state in the library that more than one goroutine can reach. The tools talk to the library through
spec files only; each is a sequential program whose environment (the feed, the disk) may fail at any step.
`ipunfold` and `ipfold` are meant to be piped into each other; `mmdb-build-countries` writes the nomenclature that
`mmdb-write` embeds, whose database the library reads; and the programs that answer (`cidr`, the servers) load a
spec once and then only read it.

The hazards this gives, each at its line, are listed in `PROJECT.json`, with the properties that cover them or
the reason that none does.

## 2. Modules

| Module | Models | State and actions |
|---|---|---|
| `Addresses` | one family of `netip`, W bits | operators only: `Masked`, `lastAddr`, `lowMask`, `AllPrefixes` |
| `SetBuilder` | `Builder`, `Freeze`, `Set.Contains` | `heap` holds the backing arrays, `sets` the windows on them, `freeze` the cursors of `mergeRanges`, `reader` each goroutine's binary search. `Add`, `AddRange`; `FreezeSmall`, `FreezeSort`, `MergeStep`, `FreezeReturn` (one loop iteration per step); `Ask`, `Probe`, `Answer`, `Take` (one probe per step). Append writes in place while the array has room, as Go does |
| `Membership` | the abstract service | `building`, `frozen`, `call`; inserting, compiling, asking, answering |
| `PrefixFamily` | the prefixes of a family as nested intervals | the assumptions on them, and the maximal ones inside a range |
| `RangeSplit` | the greedy split, on intervals | `cover`, the cursor `a`; one action, `Take`, per block |
| `RangeCover` | `AppendRangePrefixes` with `u128` | the same loop, with two L-bit words, `k` from alignment and fit; refines `RangeSplit` |
| `TableSweep` | `TableBuilder`, `Freeze`, `Lookup` | `v`, `vals` of the builder, `sweep` the line sweep; one event per step in any order within a coordinate, then `Boundary` |
| `RirCountry` | `cmd/rir-country` | `table`, `conflicts`, the counters, `out`, `log`; one line per step |
| `ProviderFunction` | `cmd/provider-function` | `table`, `conflicts`, the tallies; one row per step |
| `IpFold` | `cmd/ipfold` | `slice`, `bitmap`, the current `run`; one input line, then one element, one word or one bit per step |
| `IpUnfold` | `cmd/ipunfold` | `total`, the loop variable `x`; one line, then one address per step |
| `IpPipe` | the two of them, alone and as a pipeline | the variables of both; `Transfer` moves an address through the pipe |
| `RangeFeeds` | the three feed converters | the feed position, `buf` and `disk` on both sides of the buffered writer; one row per step |
| `Families` | `ParsePrefix`, the routing to a family in `Add`, `Contains` and `Lookup` | operators only: what a text prefix is, what is stored, what a query of either family, mapped or with a zone, is answered |
| `SpecLoader` | `input.go`, `loadSpec` of `cmd/cidr` | `pos`, `entries`; one line per step, a read error between two lines or inside one |
| `CidrTool` | `cmd/cidr` after the load | `asked`, `out`, the tally, `exit`; one address per step |
| `HttpServer`, `McpServer` | `example/http`, `example/mcp` | the request and its answers; one line of a batch, or one JSON-RPC line, per step |
| `UnixServer` | `example/unix` | `path`, and of each server where `main` and its signal goroutine are; a client's connection |
| `Services` | each of these programs with its loader | `prog` says which one runs |
| `Nomenclature` | `cmd/mmdb-build-countries` | `accs`, `conts`, the output; one row per step |
| `MmdbWrite` | `cmd/mmdb-write` | `tree`, `db`; one entry per step |
| `MmdbReader` | `mmdb.go` | the walk (`bit`, `node`) and `decodeMMDB` with an explicit `stack`; one node or one value per step |
| `Mmdb` | the three in a row, and the reader on foreign files | `Embed`, `Appear`, and the file layout of the writer's library |
| `Filters` | `SelectSeq` and the sorting of a set | operators only, in a form that proofs can take apart |
| `DataLemmas` | nothing of the code | lemmas: least elements, division and bits, sequences that are flattened or filtered, sets in an order, prefixes as aligned blocks, what the greedy cover takes |
| `SetBuilder_proofs`, `TableSweep_proofs` (with `RangeSplit`), `RangeCover_proofs`, `RirCountry_proofs`, `ProviderFunction_proofs`, `Lookups_proofs` (of `Services` and `Mmdb`), `LineTools_proofs` (of `IpPipe` and `RangeFeeds`) | the proofs | inductive invariants, lemmas and theorems only |
| `MC_*` | instances for TLC | constants only |

`SetBuilder` and `Membership` are composed by `Abstract == INSTANCE Membership WITH ...` at the end of
`SetBuilder`: builder and set stand for the addresses their cells cover *now*, a running search for a question
that is not answered yet. `RangeCover` is related to `RangeSplit` in the same way. `IpPipe` instantiates `IpFold`
and `IpUnfold` with variables of its own; `Services` and `Mmdb` extend their parts and give each step of one
program the `UNCHANGED` of the others. The parts rest on each other by what is proved or checked of them:
`Families` takes the union of intervals from `FreezeIsExact` and the longest match from `TableCorrect`, the table
and the tools take the cover of a range from `SplitCorrect` and `CoverSplits`.

The two families of the library are independent copies of one state, so the modules of the data structures model
one, and `Families` what belongs to which. Families are W
bits wide; only the widths the code tells apart matter (a word against two words in `RangeCover`, a count
wider than an address in `RirCountry`).

Next to some definitions there is a variant whose comment begins with "Mutant:". It is not part of the model:
it is the definition as a plausible slip in the Go code would make it, kept to show that the property listed
with it in `PROJECT.json` would notice.

## 3. Runs

Nine runs pass; between them every action is taken. `PROJECT.json` lists the properties of each. The invariants
that speak of the whole state of a module begin with its `TypeOK` (`SweepInvariant`, `Minimal`, `OutputWhole`,
`TalliesComplete`, `DiskIsBeginning`); they are proved, and so are the types of the set, its merge invariant
and the split.

| Run | Instance | Shows |
|---|---|---|
| `set` | 6 addresses (so that the last one is not 2^W-1), all prefixes and all ranges, 3 additions, one freeze, 1 reader | in the documented use, sort, merge in place and probing implement `Membership`; the frozen set is exact; every call returns |
| `cover` | every range, L = 3: a family of two words and a family of 2 bits in a word of 3 | the split is the set of maximal prefixes, and the loop with its arithmetic refines `RangeSplit` step by step |
| `table` | 4 addresses, 4 prefixes, two freezes | longest match whatever the order of events, for both tables |
| `rir` | 4 addresses per family, 3-bit counts, two registries, 3 lines out of 19, both rules | addresses and conflicts from text to lookup |
| `providers` | up to 4 sources with up to 2 rows, one prefix | labels, tallies and the guard |
| `ip` | 8 addresses, words of 2 bits, the switch at the second; up to 3 addresses typed, with and without zones, or 2 prefixes unfolded into the pipe; three limits | the expansion, the limit, termination; the output of `ipfold` is the minimal cover of its input; `PipeInverse` |
| `feeds` | 2 rows out of 8, two members of a zip | what exit 0 means, what a failure leaves, termination of `iptoasn` |
| `services` | IPv4 of 2 bits and IPv6 of 4 with the mapped block inside, two zones, specs of up to 2 lines out of 9 (nested, mapped, zoned, bare, junk, over the limit), two queries or requests, two servers of one path | `LoadIsWhole`, `AnswersLongestMatch`, `MatchStatus`, `RestartServes`, `RepliesInOrder` |
| `mmdb` | 3 rows of 7, specs of 2 entries out of 8 places in both orders, both IP versions and modes, an alias of the size of IPv4 and a larger one; every data section of 3 cells with pointers, containers and broken cells, and node counts from 0 to past the wrap | from the rows to the decoded record; `AgreesWithTable`; files that do not open, cycles that end |

Why the bounds are enough to be interesting. Three intervals are what the merge needs to swallow one, extend
one and start one; the additions there include overlapping, adjacent, nested, equal and last-address ones. The
split depends on alignment and remaining length only, and 3-bit words have a carry, a borrow and a shift by the
word size in both directions. Words of a bitmap with borders between them show a run that crosses, ends
at and starts at a border, and the family's last word its end. In `services` two lines give a prefix inside another,
twice the same one, and the mapped block once as a prefix and once as a bare address. In `mmdb` two entries give
each order of a broad and a narrow one, one over the IPv4 addresses, one that is an alias, one inside an alias and one around it; three cells give a
pointer to itself, a cycle of two, a map in a map and a key that is no string; the depth limit of 4 stands for 512.
`UintBits` of 4 lets the product of a node count of 8 and more wrap. A claim by a country, one by
another and a third one are enough for a winner to be overridden. Prefixes are independent of each other in
`merge`, so one is enough there. A counter or a queue is never at a bound the code has and the model does not;
`CounterMod`, at which the counters of `RangeFeeds` wrap, keeps them finite on a loop that never ends and is far
above what any feed that ends can reach.

Deadlock is not checked in any run, because all these systems may stop: a caller makes no further call, a
program exits.

### Fairness

Weak fairness is assumed of what is already running and of nothing else: a `Freeze` in its loop and each
`Contains` in its search (`SetBuilder!Fairness`), the sweep (`TableSweep`), the next write of an expansion
(`IpPipe`), the walk and the decoding of a lookup that was called (`Mmdb`), the next step of a program
(`RangeFeeds`). It is what the Go scheduler
gives to a runnable goroutine. That a caller ever calls, or that input ever arrives, is not assumed: where a
program is made to go on (`RangeFeeds`), its feed is given in full in the initial state.

## 4. Where code and documentation disagree

Three runs end in a counterexample, each to a sentence in the repository.

* `set_reuse`. `Freeze` sorts and compacts the builder's own slice, which the returned `Set` aliases
  (cidr.go:90-103, 145-148), so `Add` and `Freeze` on the same builder rewrite a set already handed out, and
  it loses addresses. The doc comment calls the set immutable. The documented use (build once) is safe, which
  is the content of `SetsExact` and of the theorem `SetCorrect`. A `TableBuilder` does not have this: `table`
  checks two tables from one builder.
* `rir_order`. A record of the country that a prefix already maps to is dropped *with its date*
  (rir-country 220), so with three claims the answer depends on the order of the lines. Where each country
  claims a prefix with one record only, the answer is independent of the order (`OrderFreeOncePerCountry`).
* `feeds_loop`. The CSV loops of `mm-dbip` and `mm-geolite2-asn` count every error but `io.EOF` as a bad row
  and read on; an error of the underlying stream comes back from every `Read`, so the program never ends.
  `iptoasn` uses a `Scanner` and returns the error.

Some weaker disagreements are kept out of the runs and visible in how a property is stated:

* An address with a zone that is the last one of an interval: `Contains` says no (it compares after the address
  without the zone, cidr.go:162-165) and `Lookup` gives the owner, so one answer of `cidr` or of a server says both
  "not a member" and whose it is. `Member` in `Services` has the exception spelled
  out: an address with a zone is a member if it and the one after it are listed, for then they are in one interval. A prefix with a mask over
  mapped addresses is kept with the IPv6 ranges, while queries are unmapped: it is listed and never matches.
* A load that fails inside a line may return the entry of a shortened line, a wider prefix (input.go:51-56), with
  the error; `ParseSpec` and `LoadFunc` hand it out, `LoadSet` and `LoadASN` do not. A refs envelope given to a text
  loader loads as an empty spec without an error, for all its lines are junk to it.
* `example/http` ends a batch at a read error or an overlong line with status 200, where its comment promises
  "one NDJSON result per line" (main.go:136-137); `example/unix` closes the connection.
* `example/unix` removes the socket path at its end, whatever is there: a server that is being replaced can take the
  path of its successor with it. `RestartServes` speaks of servers that meet no other one.
* A database of `mmdb-write` is not the `Table` of its spec: the last entry inserted wins, an IPv6 prefix that covers
  ::/96 covers the IPv4 records, and what lies in 2002::/16, 2001::/32 or ::ffff:0:0/96 is
  skipped and answered with the IPv4 address in its bits. `AgreesWithTable` says where the two agree.
* `mmdb-build-countries`: the continent does not depend on the order of the rows ("reproducible across runs",
  main.go:328-330); the `geoname_id` and the names are those of the first row that has one, and do.

* `TableBuilder.AddRange`: pieces of equal length in a nested and a covering range are one prefix, and the last
  added wins; the comment at range.go:28-29 says that the more specific range wins. `LaterNestedRangeWins`
  holds, its mirror image for a nested range added first does not.
* provider-function with `-in` in another order than `providerOrder` may hide one operator behind an equal
  label of another, and then replace it by rank unreported; `NeverSilent` has the premise `InProviderOrder`.
* provider-function's guard is per provider, its doc says per source (main.go:74-75, 327): cloudflare with one
  empty feed passes. `NoProviderEmpty` is the guarantee it has.
* ipfold keeps addresses with different zones apart and drops the zone when it writes them (main.go:178), so
  it may write one /128 twice. `FoldsMinimal` is stated of the addresses with their zones.
* ipunfold adds a prefix to the total before it writes it (main.go:151), so after a failed write the total is
  not what was written. `LimitKept` speaks of runs that stop at the limit.
* `sweep` compares value *indexes* when it extends the previous segment (table.go:163-165), and every prefix
  has its own. Prefixes are nested and duplicates are removed, so each boundary opens or closes the winner and
  the branch is never taken: neighbouring segments of equal values stay apart, where docs/architecture.md:62
  says to collapse "consecutive segments that carry the same value". Answers do not depend on it.

## 5. Proofs

TLAPS checks these for every value of the constants. Each theorem follows from an inductive invariant that was first
checked by TLC on the instance of section 3, and each step of a module has a lemma of its own.

**The set** (`SetBuilder_proofs`).

* `BuilderCorrect` : `Spec => [](TypeOK /\ BuilderExact /\ MergeInvariant)` and `FreezeIsExact` :
  `Spec => FreezeExact`. For *any* caller, with adds and freezes in any order: nothing is
  lost or invented, and each `Freeze` returns exactly what was added, in separated intervals. The run `set`
  checks the same formulas for callers that freeze once; the proof does not need that.
  The inductive invariant is `BuilderInv`: types, non-empty intervals (`Valid`, for a merge needs `lo <= hi`),
  `BuilderExact`, and `MergeInvariant`, which says of the merge in progress that the write cursor is behind
  the read cursor, that what was written is separated, that what is unread is sorted and starts no lower than
  the last interval written, and that every cell already read lies in one that was written. `BuilderExact`
  alone is not inductive: an iteration overwrites a cell, and only the last of these facts says that no address
  goes with it. The two lemmas that carry the argument are `GapIteration` (a new interval starts) and
  `ExtendIteration` (the last one grows).
* `SetsStayExact`, `SetCorrect` : `OnceSpec => [](AnswersExact /\ SearchInvariant)` and
  `SetImplementsMembership` : `OnceSpec => ImplementsMembership`. In the documented use,
  with any number of readers. The invariant `OnceInv` adds to `BuilderInv` that a set exists only while no
  merge runs, and for each search that everything left of `i` starts at or below the address and everything
  right of `j` above it; with disjoint, sorted intervals one candidate is then enough (`CandidateDecides`).

**The table and the split** (`TableSweep_proofs`).

* `TableCorrect` : `Spec => []TablesExact` and `SweepCorrect` : `Spec => []SweepInvariant`. For every family of nested
  prefixes whose lengths grow inwards, any additions of prefixes and ranges, and any number of freezes: whatever
  order `dedup` lists the prefixes in and `sort.Slice` leaves the events of one coordinate in, each table answers
  each address with the longest match, and goes on doing so while the builder is used. `SweepInvariant` alone is not
  inductive, as between the events of one coordinate a count may be below 0 and `valBy` may name a prefix that
  another one replaces. `Sweeping` therefore speaks of the events taken so far: a count is the number opened minus
  the number closed (`Counted`), `valBy` is the value of the prefix of its length that starts last (`Valued`), what is
  left lies ahead (`Timely`), and the segments emitted decide every address passed (`Emitted`). At a boundary this
  gives back one active prefix of each length (`BoundaryTells`), because two of one length share no address
  (`KeptApart`), so the winner is right up to the next coordinate (`WinnerRight`). `Lookup` uses `sort.Search` by its
  contract, which needs the segments to ascend, and that is proved with the rest; the binary search of `Contains`,
  which the code writes out, is modelled probe by probe and proved with the set.
* `LaterNestedWins` : `Spec => []LaterNestedRangeWins`. A range added after one it lies in wins in all of itself,
  however the two are cut into prefixes. The invariant `Pieces` says that values ascend along the entries and that
  those of one value are maximal prefixes inside one range. Of two pieces that share an address, the one of the inner
  range then lies in the other: it is longer, or they are the same prefix and the later one is kept.
* `SplitCorrect` : `Split!Spec => [](TypeOK /\ Tiles /\ MinimalCover)`. For every family of
  intervals that are nested or disjoint and contain the single addresses. `SplitInv` says that the blocks so
  far tile the range up to the cursor and that each is maximal (`LargestIsMaximal`); minimality follows at the
  end, because a maximal prefix and the block that holds its first address are nested.

**Range decomposition** (`RangeCover_proofs`).

* `CoverSplits` : `Spec => ImplementsSplit` and `CoverCorrect` : `Spec => []Minimal`, for words of any size, IPv4
  addresses of any size up to a word, and every range of either family. That is the loop as the code has it, on two
  words with carries, borrows and masks. Four lemmas say that the arithmetic is that of the numbers the words stand
  for: `SubIs` and `IncIs` (borrow and carry), `ZerosIs` and `HighIs` (alignment and highest bit over both words),
  and `OrIs`, that `or` with a mask adds it to a cursor that is aligned, so that nothing carries. `AlignIs` and
  `FitIs` then say what `k` is, also where `d + 1` would overflow, and `IterateIs` that an iteration takes the
  largest block at the cursor that ends in the range. The invariant `CoverInv` keeps that the blocks fill the range
  up to the cursor (`FilledUpTo`), which makes them the maximal prefixes in the end (`GreedyDone`). That there are at
  most `2 * Width - 2` needs a count that is inductive: while every block so far was as large as its alignment
  allowed, the n-th cursor is a multiple of `2^n` (`Growing`); after the first that had to fit into what was left,
  what is left is smaller than the alignment of the cursor, and the next block at most half of it (`Shrinking`).

**rir-country** (`RirCountry_proofs`), for every width, set of lines and number of sources.

* `TableReproducible` : `Spec => []OrderFreeOncePerCountry`. `RirInv` says that a prefix is in the table exactly if an
  accepted record claims it; the step of a record compares it with the best of those before it (`SettledBest`,
  `BestLater`), and that the comparison orders records of different countries is what makes the order of the lines
  drop out.
* `AnswersCorrect` : `Spec => []AnswersPublished`. The table answers an address exactly if a line read
  publishes it, with the country of such a line. Published is said over unbounded integers, so neither the width of the
  count nor the split of a range adds or loses an address; the lemmas on aligned blocks of `DataLemmas` give the split.
* `NoSilentLoss` and `LogTraces` : `Spec => []NothingSilent`, `Spec => []LogExplainsTable`. `LogInv` says
  of every prefix and every record that claims it that its country is the answer or lost a logged conflict over the
  prefix (`Explained`), that the conflicts over a prefix are a chain that ends at the answer, and that the two counters
  are the numbers of conflicts and of open ones (`Counted`).
* `OutputCorrect` : `Spec => []OutputWhole`. `OutInv` says where a run can be when each of the two files was touched.

**provider-function** (`ProviderFunction_proofs`), for any sources in any order, and any rows.

* `LabelReproducible`, `ProviderCorrect`, `NoSilentDrop` : `OrderFree`, `NeverSilent`, `NoProviderEmpty`. `ProviderInv`
  adds that the tallies are of the rows seen and that a row comes from a source whose
  turn has come. `WinnerBest` says that `merge` keeps the best label there is, `LoserKnown` that a function
  which stands and lost was in a conflict; the latter needs the sources in their order.
* `TallyCorrect` : `Spec => []TalliesComplete`. `TallyInv` gives every provider a count, 0 if it is not in the tallies,
  and says that it is the number of rows used of all its sources: a row of one source is not one of another, also when
  the two are of the same provider (`RowUsed`), and a provider that is only entered (`+= 0`) has no row yet.

**The converters** (`LineTools_proofs`), for any feeds that end or break off anywhere, and any rows.

* `DoneCorrect` and `FileCorrect` : `FeedSpec => []DoneIsWhole`, `FeedSpec => []DiskIsBeginning`. The invariant `FeedInv` says
  that the file and the buffer together hold the lines of the feeds before this one and of the rows of this one that
  were read (`UpTo`). That this is a beginning of the whole spec, whichever part of the buffer a failed write leaves,
  is `UpToBegins`; a row is written exactly if it should be (`WrittenIsWanted`), for each of the three tools.

**ipunfold, ipfold and the pipe** (`LineTools_proofs`), for every width, word size, switch, limit, prefixes and input.

* `UnfoldCorrect` : `Spec => [](WritesExpansion /\ LimitKept)`. In the middle of a prefix `UnfoldInv` names the prefixes
  that are done, and what is written is their expansion and the addresses of this one below `x` (`Expanding`); the
  loop ends on equality with the last address, so nothing wraps. The total is the length of the expansion, which is
  why a run that stops at the limit has written at most that many.
* `FoldCorrect` : `Spec => []FoldsMinimal`. Both ways of `ipfold` are one argument. `Folded` says that what was emitted
  is the set of the largest blocks in the addresses before the run, in ascending order, and that there is a gap
  between them and the run. With the gap, the largest blocks of two sets are those of each (`LargestOfBoth`), so a run
  that ends can be emitted without looking back (`Emission`). The slice needs its sorted order and the zones, the
  bitmap that a word of zeros or of ones stands for all of its bits.
* `PipeCorrect` : `Spec => []PipeInverse`. `PipeInv` says that what `ipfold` read is a beginning of what `ipunfold`
  wrote, and all of it once it folds.

**Loaders, `cidr` and the servers** (`Lookups_proofs`), for any two widths, mapped block, zones, spec and requests.

* `LoadCorrect` : `ServicesSpec => []LoadIsWhole`, `AnswersCorrect` : `AnswersLongestMatch`, `MatchCorrect` :
  `MatchStatus`, `StreamsInOrder` : `RepliesInOrder`. `ServicesInv` has a part for each program: what was loaded is the
  entries of the lines read (`LoadInv`); every answer given is right for the spec loaded, and there is one for each
  request, in order (`ToolInv`, `HttpInv`, `McpInv`, `ConnInv`). The answers rest on lemmas about `Families`: a text
  prefix is an aligned block, and a query meets it exactly if its address, unmapped, lies in it.
* `RestartCorrect` : `ServicesSpec => []RestartServes`. For any set of unix servers on one path, with
  starts, signals and kills at any point. `UnixInv` says that of two servers alive at a time both are in `met`
  (`LivingMet`), that a server no other met finds the path free when it binds and owns it until it is told to stop
  (`Undisturbed`), that none owns it between its `os.Remove` and its bind (`NotYetBound`), and that a path without a
  living owner was left by a killed one (`LeftByKilled`).

**The life of a MaxMind DB** (`Lookups_proofs`), for any two widths, rows, specs, aliases, versions, queries and
foreign files.

* `ContinentCorrect` : `Spec => []ContinentDecided`. `NomInv` says that what is gathered of a country is what its rows
  say as a set (`GatheredOf`), so the order of the rows drops out; `pickContinent` then takes the least.
* `FilesCorrect` : `FileWhole` and `TreeCorrect` : `TreeInside`. `WriteInv` says when the output was touched, and that the
  tree has at every address that is no alias the record of the last entry inserted over it (`Last`, `InsertStep`); of a
  database that was written an address in an alias has what the IPv4 address in its bits has (`BaseFacts`). `OpenInv` says that the reader has
  before it nothing, a foreign file, all of `Written`, or a part that is not valid, and that what it opened passed the
  division of `OpenMMDB`, from which the product of `TreeInside` follows.
* `LookupCorrect` : `LookupExact`. `LookInv` follows a lookup. While it walks, the node is what leads to the block of the
  next bits around the address (`AtBlock`): a block that is not of one record is a node, the nodes are
  numbered in an order and the root is 0 (`NodeOrder`, `WalkBegins`), and the halves of a node are the two records it has
  (`HalfOf`, `WalkOn`). A block that is of one record ends the walk with that record (`BlockIsOne`), a block of one address is
  always one. While it decodes, the reader is at one of a handful of places of the record (`AsnForm`, `CountryForm`);
  each step is to the next one (`AsnStep`, `CountryStep`), whether a key is written out or is a pointer to where it was
  written first (`KeyStep`, `LeafStep`). That the cells of the n-th record begin where the tree says is `BeginIs`, from
  the length of what is flattened (`SectionIs`).
* `DatabaseAgrees` : `AgreesWithTable`. In a spec in order the last entry over an address is its longest match
  (`SameHolders`, `TableLine`).

**What the proofs assume** are the assumptions on the constants, which TLC evaluates for each instance.

* Prefixes are non-empty intervals of the family (`PrefixAssumption`), nested or disjoint and with the single addresses
  among them (`NestingAssumption`, `HostAssumption`, `EndsAssumption`); the sweep needs besides that a longer
  mask lies exactly inside a shorter one (`MaskAssumption`).
* Powers of two are positive and multiply as they should (`PowerAssumption`, of `Families`, `RirCountry`, `IpPipe`, `RangeCover`):
  the provers know nothing of `^`. An IPv4 address fits into a machine word, a bitmap word divides the family (both `WordAssumption`), the mapped block is aligned
  (`MappedAssumption`), a count is wider than an address (`WidthAssumption`).
* The inputs are of their kinds: lines, rows, sources, files, requests, probes, zones, limits (`LineAssumption`,
  `RowAssumption`, `SourcesAssumption`, `FileAssumption`, `SpecsAssumption`, `RequestAssumption`, `ProbeAssumption`,
  `InputAssumption`, `ModeAssumption`, `ToolAssumption`, `ServerAssumption`, `CountryRowAssumption`, `EntryAssumption`,
  `VersionAssumption`, `QueryAssumption`, `ForeignAssumption`), and the bounds of a run are numbers
  (`BoundAssumption`, `CounterAssumption`).

* Of the MaxMind database: a tree has a bit to branch on, and a power of two is the product of two others
  (`TreeAssumption`); an alias is an IPv6 prefix above the IPv4 addresses with room for their bits (`AliasAssumption`); the mark of an
  empty place is no record (`NoDataAssumption`); nodes and the separator have a size (`ReaderAssumption`); and the depth
  limit, 512 in the code, allows for the three levels of what mmdb-write nests (`DepthAssumption`).

The four invariants of the MaxMind database were checked on the instance `mmdb` first, like the others.

What a fold or a flattening computes is proved without a rule of induction, from the least element at which it would
go wrong (`LeastExists`, `SetInduction` in `DataLemmas`).

**Only model-checked.** Liveness (`CallsReturn`, `FreezeReturns`, `ExpansionEnds`, `ConversionEnds`, `DecodeEnds`) is
out of the prover's reach. Every safety invariant and action property of the passing runs is proved. What is taken from
outside stays an assumption of the model: the layout `mmdbwriter` gives a tree, `sort` and `append` by their contracts.

## 6. What the models abstract

* Text: lines, rows and documents are records of what the parsers tell apart. HTTP, gzip, zip and JSON are
  steps that work or fail.
* `slices.SortFunc` and `sort.Slice` are any reordering that is sorted (they are not stable).
* Go's memory model: a `Contains` during a `Freeze` that writes the same array is a data race. The models give
  readers sequentially consistent single cells, which is enough to show that the documented use has no such
  race, since there a set exists only after the builder rests. It is not a claim about the other uses.
* `mmdbwriter`, whose source is not in the repository, is a map from addresses to the record inserted last, with the
  three aliases of an IPv6 tree, ::ffff:0:0/96, 2002::/16 and 2001::/32 (an address in one of them leads to the IPv4
  address in the bits behind the prefix, and nothing can be inserted there), and a file layout with one node for each
  block of mixed records and a pointer for a string written before (`MmdbWrite`, `Mmdb`, marked external). The library
  shares the nodes of the IPv4 addresses with the aliases, the model repeats them: a lookup cannot tell. The bytes of a
  node and of a value are below the model, and with them the three record sizes and that a file cut short lacks the
  metadata at its end; so are `continents` and names in a record beyond what tells countries apart.
* Requests of the http server run concurrently and share only frozen structures, whose concurrent use is `set`'s
  question, so one at a time stands for all. Connections of the unix server likewise.
* What `ipfold` does with the beginning of its input commutes with what `ipunfold` still writes, so in `IpPipe`
  it waits for the end.
* Memory and integer limits that no input reaches: slices do not run out of memory; the `int32` value index of
  a table is a natural number (listed as a hazard).
* In the tools an I/O error is possible at each read and write; what a failed write leaves is any part of what
  was passed on.

## 7. Plan

Done: the data structures, every tool, the loaders, the MMDB reader, the three servers, and the proofs of section 5.
In the order of their value, next would be

1. the bytes of `mmdb.go`: the records of 24, 28 and 32 bits and the control bytes, as operators checked against a
   reference over bounded inputs;
2. more of what a lookup in a *foreign* file does: that no step reads outside of the file, for every such file.

## 8. Not modelled

The bytes of the MMDB format and `Metadata` (section 6). `example/library` calls the library once and prints. The
installers are shell scripts that copy files and write systemd units. `EncodeASN` and `DecodeASN` pack bits without
state and are covered by the repository's own tests. The refresh of a set by swapping an atomic pointer
is advice of the user guide (docs/userguide.md:512), not code: what it needs of the library, that a `Set` under
readers is never written, is `SetsExact` and `SetCorrect`. Output errors of `cidr`, which ignores them, and of the servers.

## 9. Running

    tlc -config MC_SetBuilder.cfg MC_SetBuilder     # a run: module and cfg as listed in PROJECT.json
    tlapm TableSweep_proofs.tla                     # a proof module
