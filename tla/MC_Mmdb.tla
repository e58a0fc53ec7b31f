------------------------------ MODULE MC_Mmdb -------------------------------
(***************************************************************************)
(* IPv4 of two bits in a database of five: ::/96 is 0 .. 3, the mapped     *)
(* addresses are 4 .. 7, and 24 .. 31 is an alias that has, as 6to4 does,  *)
(* a bit behind those of the IPv4 address.                                 *)
(***************************************************************************)
EXTENDS Mmdb

Row(c, g, ct, eu, n) == [code |-> c, gid |-> g, continent |-> ct, eu |-> eu, names |-> n]
NoName == [namePtBr |-> 0, namePt |-> 0]

MCCountryRows == {Row("RU", 1, 2, FALSE, NoName), Row("X", 0, 3, FALSE, [NoName EXCEPT !.namePt = 1]),
                  Row("X", 2, 1, TRUE, [NoName EXCEPT !.namePtBr = 2]), Row("X", 3, 3, FALSE, NoName),
                  Row("CC", 0, 0, FALSE, NoName), Row("Y", 0, 0, FALSE, NoName), Row(NoCode, 1, 1, TRUE, NoName)}
MCContinentRows == {Row(3, 1, 0, FALSE, NoName)}
MCNameKeys == <<"namePtBr", "namePt">>
MCOverride == [RU |-> 3]
MCFallback == [CC |-> 3]

Entry(four, ip, bits, n, o) ==
  LET p == Prefix([v4 |-> four, ip |-> ip, zone |-> 0], bits)
  IN [v4 |-> four, lo |-> p.lo, hi |-> p.hi, length |-> p.length, asn |-> n, org |-> o]

MCAliases == {V6!Prefix(4, 3), V6!Prefix(24, 2)}

Places == {<<TRUE, 0, 1>>, <<TRUE, 1, 2>>, <<FALSE, 16, 1>>, <<FALSE, 20, 4>>, <<FALSE, 0, 0>>,
           <<FALSE, 4, 3>>, <<FALSE, 24, 2>>, <<FALSE, 27, 5>>}
At(p, n, o) == Entry(p[1], p[2], p[3], n, o)
MCSpecs == {<<>>} \cup {<<At(p, 1, "X"), At(q, 2, "RU")>> : p, q \in Places}
           \cup {<<At(p, 1, "X"), At(<<TRUE, 3, 2>>, 1, "X")>> : p \in Places}
           \cup {<<Entry(TRUE, 2, 2, 3, o)>> : o \in {"EU", "CC", "Y", "unknown"}}

MCQueries == {[v4 |-> TRUE, ip |-> i, zone |-> 0] : i \in 0 .. 2}
             \cup {[v4 |-> FALSE, ip |-> i, zone |-> 0] : i \in {1, 5, 9, 21, 27, 30}}

Cells == {[k |-> "ptr", to |-> n] : n \in 0 .. 1} \cup {[k |-> "map", n |-> n] : n \in 1 .. 2}
         \cup {[k |-> "arr", n |-> 2], [k |-> "str", v |-> "a"], [k |-> "cut"]}
File(len, ok, count, vers, nodes, sect) ==
  [length |-> len, valid |-> ok, nodeCount |-> count, version |-> vers, nodes |-> nodes, section |-> sect]
MCForeign ==
  {File(7, TRUE, 1, v, <<<<2 + 1, n>>>>, s) : v \in {6}, n \in {0, 2}, s \in [1 .. 3 -> Cells]}
  \cup {File(len, ok, count, 6, <<<<1, 0>>, <<0, 0>>>>, <<>>) : len \in 0 .. 6, ok \in BOOLEAN, count \in {0, 1, 2, 3, 8, 9}}
=============================================================================
