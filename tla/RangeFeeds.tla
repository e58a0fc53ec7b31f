----------------------------- MODULE RangeFeeds -----------------------------
(***************************************************************************)
(* cmd/iptoasn, cmd/mm-dbip and cmd/mm-geolite2-asn: one feed (the last    *)
(* tool: the members of a zip) is read row by row and rewritten as spec    *)
(* lines through a buffered writer.  A row is a record of what the parsers *)
(* tell apart; the line written for one of its prefixes is the triple      *)
(* <<feed, row, prefix>>, and lines reach the file whole.                  *)
(***************************************************************************)
EXTENDS Integers, Sequences, Filters

CONSTANTS
  Tools,       (* The tools that are run.                                   *)
  Rows,        (* The rows a feed may hold.                                 *)
  MaxRows,     (* Bound on the rows of a feed.                              *)
  MaxFeeds,    (* Bound on the members of a zip.                            *)
  CounterMod   (* Where a counter wraps, far above the rows of a feed.      *)

iptoasn == "iptoasn"
dbip == "mm-dbip"
geolite == "mm-geolite2-asn"

ASSUME ToolAssumption == Tools \subseteq {iptoasn, dbip, geolite}
ASSUME CounterAssumption == CounterMod \in Nat \ {0} /\ MaxRows \in Nat /\ MaxFeeds \in Nat

(* A row: how many columns it has (of at most five that are read), whether the
   csv reader refuses it, whether its addresses parse, how many prefixes they
   make up, whether its country is one, and what its AS number is. *)
ASSUME RowAssumption ==
  Rows \subseteq [cols : 0 .. 5, broken : BOOLEAN, addrs : BOOLEAN, blocks : Nat,
                  assigned : BOOLEAN, asn : {"set", "zero", "bad"}]

VARIABLES
  tool,        (* The command,                                              *)
  country,     (* whether it writes countries (-output, -db),               *)
  unrouted,    (* and whether AS0 is kept (-unrouted).                      *)
  feeds,       (* The feeds: their rows and how the reader ends.            *)
  pc,          (* "open", "create", "convert", "flush", "done", "failed".   *)
  feed, row,   (* The feed being read (0 before the first), its next row.   *)
  buf, disk,   (* The lines in the bufio.Writer and those in the file.      *)
  st           (* The counters of the summary line.                         *)

setting == <<tool, country, unrouted, feeds>>
feedVars == <<setting, pc, feed, row, buf, disk, st>>

(* What the output file held before the run. *)
Old == << <<0, 0, 0>> >>

(* A feed ends at io.EOF, or with an error that every later Read repeats: a
   truncated gzip stream, a connection that broke, a bad checksum in a zip. *)
Feed == [rows : SeqExt!BoundedSeq(Rows, MaxRows), eof : BOOLEAN]

(* os.Create comes after the fetch in two tools and before it in one. *)
First(t) == IF t = geolite THEN "create" ELSE "open"

FeedInit ==
  /\ tool \in Tools
  /\ country \in IF tool = geolite THEN {FALSE} ELSE BOOLEAN
  /\ unrouted \in IF tool = iptoasn THEN BOOLEAN ELSE {FALSE}
  /\ feeds \in IF tool = geolite THEN SeqExt!BoundedSeq(Feed, MaxFeeds) ELSE SeqExt!BoundedSeq(Feed, 1) \ {<<>>}
  /\ pc = First(tool) /\ feed = 0 /\ row = 1
  /\ buf = <<>> /\ disk = Old
  /\ st = [rows |-> 0, prefixes |-> 0, malformed |-> 0, unrouted |-> 0]
-----------------------------------------------------------------------------
(* What a convert loop does with a row. *)

iptoasnVerdict(r) ==
  IF r.cols = 0 THEN "skip"
  ELSE IF r.cols < 5 \/ ~r.addrs THEN "malformed"
  ELSE IF country /\ ~r.assigned THEN "skip"
  ELSE IF ~country /\ r.asn = "bad" THEN "malformed"
  ELSE IF ~country /\ r.asn = "zero" /\ ~unrouted THEN "unrouted"
  ELSE IF r.blocks = 0 THEN "malformed"
  ELSE "write"

(* encoding/csv skips a blank line itself. *)
dbipVerdict(r) ==
  IF r.cols = 0 THEN "skip"
  ELSE IF r.broken \/ r.cols < 3 \/ ~r.addrs \/ r.blocks = 0 THEN "malformed"
  ELSE IF ~country /\ r.cols < 4 THEN "malformed"
  ELSE "write"

(* The network is one prefix; the header is a row whose network is none. *)
geoliteVerdict(r) ==
  IF r.cols = 0 THEN "skip"
  ELSE IF r.broken \/ r.cols < 3 THEN "malformed"
  ELSE IF ~r.addrs THEN "skip"
  ELSE IF r.asn = "bad" THEN "malformed"
  ELSE "write"

Verdict(r) ==
  CASE tool = iptoasn -> iptoasnVerdict(r)
    [] tool = dbip -> dbipVerdict(r)
    [] tool = geolite -> geoliteVerdict(r)

Lines(k, n) ==
  LET r == feeds[k].rows[n]
  IN [j \in 1 .. IF tool = geolite THEN 1 ELSE r.blocks |-> <<k, n, j>>]
-----------------------------------------------------------------------------
Fail == pc' = "failed" /\ UNCHANGED <<setting, feed, row, buf, st>>

(* The fetch or the local file, gunzipped; for the last tool the whole zip and
   its first member. *)
Open ==
  /\ pc = "open"
  /\ \/ Fail /\ UNCHANGED disk
     \/ /\ pc' = IF tool = geolite THEN "convert" ELSE "create"
        /\ feed' = 1
        /\ UNCHANGED <<setting, row, buf, disk, st>>

Create ==
  /\ pc = "create"
  /\ \/ Fail /\ UNCHANGED disk
     \/ /\ pc' = IF tool = geolite THEN "open" ELSE "convert"
        /\ disk' = <<>>
        /\ UNCHANGED <<setting, feed, row, buf, st>>

Reading == pc = "convert" /\ feed <= Len(feeds)
Row == feeds[feed].rows[row]

Plus(n, k) == (n + k) % CounterMod

Count(field) == st' = [st EXCEPT ![field] = Plus(@, 1)]

(* A row that leaves no line. *)
Drop ==
  /\ Reading /\ row <= Len(feeds[feed].rows)
  /\ \/ Verdict(Row) \in {"malformed", "unrouted"} /\ Count(Verdict(Row))
     \/ Verdict(Row) = "skip" /\ UNCHANGED st
  /\ row' = row + 1
  /\ UNCHANGED <<setting, pc, feed, buf, disk>>

(* Mutant: what was passed on kept in the buffer. *)
ConvertKeeps ==
  /\ Reading /\ row <= Len(feeds[feed].rows) /\ Verdict(Row) = "write"
  /\ buf' = buf \o Lines(feed, row)
  /\ \E k \in 0 .. Len(buf') : disk' = disk \o SubSeq(buf', 1, k)
  /\ row' = row + 1
  /\ UNCHANGED <<setting, pc, feed, st>>

(* A row is written; the buffer passes on any part of what it then holds.
   When the file refuses it, convert returns and nothing is flushed. *)
Convert ==
  /\ Reading /\ row <= Len(feeds[feed].rows) /\ Verdict(Row) = "write"
  /\ LET held == buf \o Lines(feed, row)
     IN \E k \in 0 .. Len(held) :
          /\ disk' = disk \o SubSeq(held, 1, k)
          /\ \/ Fail
             \/ /\ buf' = SubSeq(held, k + 1, Len(held))
                /\ row' = row + 1
                /\ st' = [st EXCEPT !.rows = Plus(@, 1), !.prefixes = Plus(@, Len(Lines(feed, row)))]
                /\ UNCHANGED <<setting, pc, feed>>

(* io.EOF; the next member of a zip may fail to open. *)
EndOfFeed ==
  /\ Reading /\ row > Len(feeds[feed].rows) /\ feeds[feed].eof
  /\ \/ feed' = feed + 1 /\ row' = 1 /\ UNCHANGED <<setting, pc, buf, disk, st>>
     \/ tool = geolite /\ feed < Len(feeds) /\ Fail /\ UNCHANGED disk

(* Mutants: the Scanner's error not returned; or skipped like a bad row. *)
ReadErrorUnchecked ==
  /\ Reading /\ row > Len(feeds[feed].rows) /\ ~feeds[feed].eof
  /\ feed' = feed + 1 /\ row' = 1
  /\ UNCHANGED <<setting, pc, buf, disk, st>>

ReadErrorSkipped ==
  /\ Reading /\ row > Len(feeds[feed].rows) /\ ~feeds[feed].eof
  /\ Count("malformed")
  /\ UNCHANGED <<setting, pc, feed, row, buf, disk>>

(* iptoasn returns the Scanner's error; the csv loops take any error but
   io.EOF for a bad row and read on. *)
ReadError ==
  /\ Reading /\ row > Len(feeds[feed].rows) /\ ~feeds[feed].eof
  /\ \/ tool = iptoasn /\ Fail
     \/ tool # iptoasn /\ Count("malformed") /\ UNCHANGED <<setting, pc, feed, row, buf>>
  /\ UNCHANGED disk

EndOfFeeds ==
  /\ pc = "convert" /\ feed > Len(feeds)
  /\ pc' = "flush"
  /\ UNCHANGED <<setting, feed, row, buf, disk, st>>

Flush ==
  /\ pc = "flush"
  /\ \/ pc' = "done" /\ disk' = disk \o buf /\ buf' = <<>> /\ UNCHANGED <<setting, feed, row, st>>
     \/ Fail /\ \E k \in 0 .. Len(buf) : disk' = disk \o SubSeq(buf, 1, k)

FeedNext == Open \/ Create \/ Drop \/ Convert \/ EndOfFeed \/ ReadError \/ EndOfFeeds \/ Flush

FeedSpec == FeedInit /\ [][FeedNext]_feedVars

(* The program runs on: its loop reads, writes or returns. *)
FeedFairSpec == FeedSpec /\ WF_feedVars(FeedNext)
-----------------------------------------------------------------------------
TypeOK ==
  /\ tool \in Tools /\ feed \in 0 .. Len(feeds) + 1 /\ row \in 1 .. MaxRows + 1
  /\ pc \in {"open", "create", "convert", "flush", "done", "failed"}
  /\ \A c \in DOMAIN st : st[c] \in 0 .. CounterMod - 1
  /\ (feed \in 1 .. Len(feeds) => row <= Len(feeds[feed].rows) + 1)

(* The rows a tool is documented to convert, as facts about the row alone:
   iptoasn/main.go:144-147 and 158, mm-dbip/main.go:109-110, mm-geolite2-asn/
   main.go:124-125. *)
Wanted(r) ==
  /\ r.addrs
  /\ tool = iptoasn =>
       /\ r.cols = 5 /\ r.blocks > 0
       /\ IF country THEN r.assigned ELSE r.asn = "set" \/ (r.asn = "zero" /\ unrouted)
  /\ tool = dbip => ~r.broken /\ r.blocks > 0 /\ r.cols >= IF country THEN 3 ELSE 4
  /\ tool = geolite => ~r.broken /\ r.cols >= 3 /\ r.asn # "bad"

(* The lines of every wanted row, feed by feed. *)
Whole ==
  SeqExt!FlattenSeq([k \in 1 .. Len(feeds) |->
    SeqExt!FlattenSeq([n \in 1 .. Len(feeds[k].rows) |->
      IF Wanted(feeds[k].rows[n]) THEN Lines(k, n) ELSE <<>>])])

(* A run that exits 0 read every feed to its end, and the file holds every
   line of every row it should convert, in order, whatever the buffer passed
   on when. *)
DoneIsWhole ==
  pc = "done" => disk = Whole /\ \A k \in 1 .. Len(feeds) : feeds[k].eof

(* What the file holds is never anything but a beginning of that, so a run
   that failed leaves a shortened spec, never one with lines of other rows.
   (The last row of a truncated stream may be cut short itself: the Scanner
   delivers what it has before it reports the error.)  iptoasn and mm-dbip
   leave the published file alone unless the feed could be opened; mm-geolite2-
   asn has truncated it by then (main.go:72-78). *)
DiskIsBeginning ==
  /\ TypeOK
  /\ disk # Old => SeqExt!IsPrefix(disk, Whole)
  /\ tool # geolite /\ feed = 0 => disk = Old

(* The convert loop of iptoasn ends, also on a feed that breaks off. *)
ConversionEnds == tool = iptoasn /\ pc = "convert" ~> pc # "convert"

(* "recoverable per-line CSV error" (mm-dbip/main.go:122): what the csv loops
   skip is behind them, so that they end as well. *)
CsvConversionEnds == tool # iptoasn /\ pc = "convert" ~> pc # "convert"
=============================================================================
