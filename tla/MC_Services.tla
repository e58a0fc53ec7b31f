---------------------------- MODULE MC_Services -----------------------------
(***************************************************************************)
(* IPv4 of two bits inside an IPv6 of four, mapped at 4 .. 7.              *)
(***************************************************************************)
EXTENDS Services

CONSTANTS s1, s2

Addr4(i) == [v4 |-> TRUE, ip |-> i, zone |-> 0]
Addr6(i, z) == [v4 |-> FALSE, ip |-> i, zone |-> z]
Line(ts) == [kind |-> "entry", texts |-> ts]
Text(a, bits) == [addr |-> a, bits |-> bits]

Wide4 == Line(<<Text(Addr4(0), 1), Text(Addr4(0), 0)>>)
Bare4 == Line(<<Text(Addr4(1), Bare)>>)
Wide6 == Line(<<Text(Addr6(8, 0), 2), Text(Addr6(8, 0), Bare)>>)
Mapped6 == Line(<<Text(Addr6(4, 0), 2)>>)
BareMapped == Line(<<Text(Addr6(5, 1), Bare)>>)
Zoned6 == Line(<<Text(Addr6(10, 1), 4)>>)
BareZoned == Line(<<Text(Addr6(10, 1), Bare)>>)
JunkLine == [kind |-> "junk", texts |-> <<>>]
LongLine == [kind |-> "long", texts |-> <<>>]

LineSet == {Wide4, Bare4, Wide6, Mapped6, BareMapped, Zoned6, BareZoned, JunkLine, LongLine}
Text2 == UNION {[1 .. n -> LineSet] : n \in 0 .. 2}
MCFiles == {[refs |-> r, lines |-> ls] : r \in BOOLEAN, ls \in Text2}
Few == {[refs |-> r, lines |-> ls] : r \in {FALSE}, ls \in {<<Wide4, Bare4>>, <<Wide6, JunkLine>>}}

MCSpecsOf == [cidr |-> MCFiles, http |-> {f \in MCFiles : ~f.refs}, mcp |-> Few, unix |-> {[refs |-> FALSE, lines |-> <<Wide4, Bare4>>]}, caller |-> MCFiles]

MCInputs == {Addr4(0), Addr4(1), Addr6(5, 0), Addr6(5, 1), Addr6(11, 0), Addr6(11, 1), Addr6(10, 1), Junk, Blank}

MCProbes == {Addr6(5, 1), Junk, Blank}

Call(id, tool, ips) == [kind |-> "tools/call", id |-> id, tool |-> tool, ips |-> ips]
MCRequests ==
  {[kind |-> k, id |-> i, tool |-> "none", ips |-> <<>>] :
     k \in {"initialize", "notifications", "other", "blank", "bad"}, i \in {"id1", NoId}}
  \cup {Call(i, "cidr_lookup_batch", <<Addr4(1), Junk, Addr6(11, 1)>>) : i \in {"id1", "id2", NoId}}
  \cup {Call("id2", t, <<q>>) : t \in {"cidr_contains", "cidr_lookup"}, q \in {Addr6(5, 0), Junk}}
  \cup {Call("id2", t, <<>>) : t \in {"no params", "cidr_stats", "cidr_lookup_batch", "unknown"}}
=============================================================================
