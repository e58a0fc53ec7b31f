---------------------------- MODULE Nomenclature ----------------------------
(***************************************************************************)
(* cmd/mmdb-build-countries: the rows of two Wikidata answers, in the      *)
(* order they come, are gathered by country and by continent, and written  *)
(* as the nomenclature that mmdb-write embeds.  A country has one row for  *)
(* each combination of its values.                                         *)
(***************************************************************************)
EXTENDS Integers, Sequences, FiniteSetsExt

CONSTANTS
  CountryRows,    (* [code, gid, continent, eu, names]; names maps a key to a
                     label, 0 stands for a value that is absent, continents
                     are numbered in the order of their codes.              *)
  ContinentRows,  (* The same, with the continent as the code.              *)
  NoCode,         (* The code of a row where it is blank.                   *)
  MaxRows,        (* Bound on the rows of an answer.                        *)
  NameKeys,       (* The keys of a locale, by priority.                     *)
  Override, Fallback  (* continentOverride and continentFallback.           *)

ASSUME CountryRowAssumption ==
  \A row \in CountryRows : row.gid \in Nat /\ row.continent \in Nat /\ row.eu \in BOOLEAN

VARIABLES
  npc,            (* "countries", "continents", "write", "done", "failed".  *)
  rows,           (* History: the rows of the first answer.                 *)
  accs,           (* What is gathered of each country.                      *)
  conts,          (* What is gathered of each continent.                    *)
  nomenclature    (* The output file: [state, countries, continents].       *)

nomVars == <<npc, rows, accs, conts, nomenclature>>

NoFile == [state |-> "old", countries |-> <<>>, continents |-> {}]

NomInit ==
  /\ npc = "countries" /\ rows = <<>> /\ accs = <<>> /\ conts = <<>>
  /\ nomenclature = NoFile

NewAcc == [gid |-> 0, name |-> 0, eu |-> FALSE, continents |-> {}]

(* The label under the first key that has one. *)
NameOf(row) ==
  LET given == {i \in DOMAIN NameKeys : row.names[NameKeys[i]] # 0}
  IN IF given = {} THEN 0 ELSE row.names[NameKeys[Min(given)]]

(* Mutant: only the first continent of a country is kept. *)
GatherFirst(acc, row) ==
  [gid |-> IF acc.gid = 0 THEN row.gid ELSE acc.gid,
   name |-> IF acc.name = 0 THEN NameOf(row) ELSE acc.name,
   eu |-> acc.eu \/ row.eu,
   continents |-> IF acc.continents = {} THEN {row.continent} \ {0} ELSE acc.continents]

(* One row: the first identifier and the first name stay. *)
Gather(acc, row) ==
  [gid |-> IF acc.gid = 0 THEN row.gid ELSE acc.gid,
   name |-> IF acc.name = 0 THEN NameOf(row) ELSE acc.name,
   eu |-> acc.eu \/ row.eu,
   continents |-> acc.continents \cup ({row.continent} \ {0})]

GatherInto(f, row) ==
  [c \in DOMAIN f \cup {row.code} |->
     IF c # row.code THEN f[c] ELSE Gather(IF c \in DOMAIN f THEN f[c] ELSE NewAcc, row)]

(* A row with a blank code is skipped. *)
CountryRow(row) ==
  /\ npc = "countries" /\ Len(rows) < MaxRows
  /\ rows' = Append(rows, row)
  /\ accs' = IF row.code = NoCode THEN accs ELSE GatherInto(accs, row)
  /\ UNCHANGED <<npc, conts, nomenclature>>

CountriesEnd ==
  /\ npc = "countries"
  /\ npc' = IF DOMAIN accs = {} THEN "failed" ELSE "continents"
  /\ UNCHANGED <<rows, accs, conts, nomenclature>>

ContinentRow(row) ==
  /\ npc = "continents"
  /\ conts' = IF row.code = NoCode THEN conts ELSE GatherInto(conts, row)
  /\ UNCHANGED <<npc, rows, accs, nomenclature>>

(* No continents are as good as some. *)
ContinentsEnd ==
  /\ npc = "continents"
  /\ npc' = "write"
  /\ UNCHANGED <<rows, accs, conts, nomenclature>>

FetchFails ==
  /\ npc \in {"countries", "continents"}
  /\ npc' = "failed"
  /\ UNCHANGED <<rows, accs, conts, nomenclature>>

pickContinent(cs) == Min(cs)

ContinentOf(code) ==
  CASE code \in DOMAIN Override -> Override[code]
    [] code \notin DOMAIN Override /\ accs[code].continents # {} -> pickContinent(accs[code].continents)
    [] code \in DOMAIN Fallback \ DOMAIN Override /\ accs[code].continents = {} -> Fallback[code]
    [] OTHER -> 0

WriteNomenclature ==
  /\ npc = "write"
  /\ npc' = "done"
  /\ nomenclature' =
       [state |-> "new", continents |-> DOMAIN conts,
        countries |-> [c \in DOMAIN accs |-> [gid |-> accs[c].gid, name |-> accs[c].name,
                                              eu |-> accs[c].eu, continent |-> ContinentOf(c)]]]
  /\ UNCHANGED <<rows, accs, conts>>

(* os.WriteFile truncates the old file before it writes. *)
WriteNomenclatureFails ==
  /\ npc = "write"
  /\ npc' = "failed"
  /\ nomenclature' \in {nomenclature, [NoFile EXCEPT !.state = "partial"]}
  /\ UNCHANGED <<rows, accs, conts>>

NomNext ==
  \/ \E row \in CountryRows : CountryRow(row)
  \/ \E row \in ContinentRows : ContinentRow(row)
  \/ CountriesEnd \/ ContinentsEnd \/ FetchFails
  \/ WriteNomenclature \/ WriteNomenclatureFails
-----------------------------------------------------------------------------
(* The rows of a country, and what the file may say of it. *)
RowsOf(c) == {rows[i] : i \in {j \in DOMAIN rows : rows[j].code = c}}

Decided(c, ci) ==
  LET listed == {r.continent : r \in RowsOf(c)} \ {0}
  IN /\ ci.continent = IF c \in DOMAIN Override THEN Override[c]
                       ELSE Min(IF listed # {} THEN listed
                                ELSE {IF c \in DOMAIN Fallback THEN Fallback[c] ELSE 0})
     /\ ci.eu = \E r \in RowsOf(c) : r.eu
     /\ ci.gid \in {r.gid : r \in RowsOf(c)} /\ (ci.gid = 0 => \A r \in RowsOf(c) : r.gid = 0)
     /\ (ci.name = 0 <=> \A r \in RowsOf(c) : NameOf(r) = 0)

(* "Sorting makes the choice reproducible across runs" (main.go:328-330): the
   continent and the membership of the EU of a country depend on which rows
   the answer has, never on their order; the identifier and the name are of
   some row, and missing only if no row has one. *)
ContinentDecided ==
  nomenclature.state = "new" =>
    /\ DOMAIN nomenclature.countries = {rows[i].code : i \in DOMAIN rows} \ {NoCode}
    /\ \A c \in DOMAIN nomenclature.countries : Decided(c, nomenclature.countries[c])
=============================================================================
