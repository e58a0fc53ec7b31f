------------------------------ MODULE Services ------------------------------
(***************************************************************************)
(* The programs that answer addresses from a loaded spec, each on its own: *)
(* the cidr tool, the example servers, and a caller of the loaders.        *)
(***************************************************************************)
EXTENDS CidrTool, HttpServer, McpServer, UnixServer

CONSTANT SpecsOf   (* The files each program is tried with. *)

ASSUME SpecsAssumption == \A p \in {"cidr", "http", "mcp", "unix", "caller"} : SpecsOf[p] \subseteq SpecFiles

VARIABLE prog

allVars == <<prog, loadVars, toolVars, httpVars, mcpVars, unixVars>>

LoaderOf == [cidr |-> {"loadSpec"}, http |-> {"ParseSpec"}, mcp |-> {"ParseSpec"},
             unix |-> {"ParseSpec"}, caller |-> {"LoadASN", "LoadFunc"}]

ServicesInit ==
  /\ prog \in DOMAIN LoaderOf
  /\ LoadInit /\ loader \in LoaderOf[prog] /\ file \in SpecsOf[prog]
  /\ ToolInit /\ (prog # "cidr" => ~match /\ ~stdin)
  /\ HttpInit /\ McpInit /\ UnixInit

ServicesNext ==
  /\ UNCHANGED prog
  /\ \/ LoadNext /\ UNCHANGED <<toolVars, httpVars, mcpVars, unixVars>>
     \/ prog = "cidr" /\ ToolNext /\ UNCHANGED <<loadVars, httpVars, mcpVars, unixVars>>
     \/ prog = "http" /\ HttpNext /\ UNCHANGED <<loadVars, toolVars, mcpVars, unixVars>>
     \/ prog = "mcp" /\ McpNext /\ UNCHANGED <<loadVars, toolVars, httpVars, unixVars>>
     \/ prog = "unix" /\ UnixNext /\ UNCHANGED <<loadVars, toolVars, httpVars, mcpVars>>

ServicesSpec == ServicesInit /\ [][ServicesNext]_allVars
-----------------------------------------------------------------------------
(* What the written spec says, from its text alone. *)

Length(t) == CASE t.bits # Bare -> t.bits
               [] t.bits = Bare -> IF Unmap(t.addr).v4 THEN W4 ELSE W6

(* A prefix with a mask over mapped addresses is of IPv6, and the addresses it
   wraps are asked as IPv4: it lists none of them. *)
Lists(t, u) ==
  LET base == IF t.bits = Bare THEN Unmap(t.addr) ELSE t.addr
      unit == 2^((IF u.v4 THEN W4 ELSE W6) - Length(t))
  IN /\ t.bits # Bare => t.addr.zone = 0
     /\ base.v4 = u.v4 /\ base.ip \div unit = u.ip \div unit

(* The lines that list an unmapped address. *)
Listing(u) == {i \in DOMAIN file.lines : file.lines[i].kind = "entry" /\ Lists(file.lines[i].texts[1], u)}

Readable == ~file.refs \/ DecodesRefs

Listed(u) == Readable /\ Listing(u) # {}

(* An address with a zone compares after the same address without one, so as
   the last address of an interval it is out of it. *)
Member(a) ==
  LET u == Unmap(a)
  IN Listed(u) /\ (u.zone # 0 => Listed([u EXCEPT !.ip = @ + 1]))

(* The line of the owner: of the longest prefixes the last. *)
IsOwner(u, i) ==
  LET len(j) == Length(file.lines[j].texts[1])
  IN i \in Listing(u) /\ \A j \in Listing(u) : len(j) < len(i) \/ (len(j) = len(i) /\ j <= i)

RightResult(r) ==
  /\ r.member = Member(r.ip)
  /\ "info" \in DOMAIN r =>
       IF Listed(Unmap(r.ip)) THEN IsOwner(Unmap(r.ip), r.info.line) ELSE r.info = None

GivenTo(s) == {s[i] : i \in {j \in DOMAIN s : {"ip", "member"} \subseteq DOMAIN s[j]}}

(* Every result that any program gives, whatever lines the spec has and in
   which order, is the one the text of the spec calls for: a bare mapped
   address of the spec or of a query is its IPv4 address, the owner is the most
   specific prefix, and the last one written of the same. *)
AnswersLongestMatch ==
  /\ \A r \in GivenTo(out) \cup GivenTo(answers) \cup GivenTo(sent) : RightResult(r)
  /\ \A i \in DOMAIN replies :
       "results" \in DOMAIN replies[i].body => \A r \in GivenTo(replies[i].body.results) : RightResult(r)

(* -match prints the members among the addresses asked, in their order; the
   exit status is 0 only if there is one, "grep-like: nothing matched"
   (cmd/cidr/main.go:123), and 1 without an error only if there is none. *)
MatchStatus ==
  LET nonMembers == {s \in Inputs \ {Junk, Blank} : ~Member(s)}
  IN /\ match => out = Without(asked, {Junk, Blank} \cup nonMembers)
     /\ ~match => Len(out) = Len(Valid(asked))
     /\ exit = "0" => lpc = "loaded" /\ (match => out # <<>>)
     /\ exit = "1" => lpc = "error" \/ stdin \/ (match /\ out = <<>>)

(* "A stale socket file from a previous run would block the bind"
   (example/unix/main.go:46): a server that no other one meets binds, whatever
   was killed before it, and clients reach it until it is told to stop.  Only a
   killed server leaves its file behind. *)
RestartServes ==
  \A s \in Servers :
    /\ s \notin met => Main(s) # "fatal" /\ (Main(s) = "accept" /\ proc[s].sig = "wait" => path = s)
    /\ path = s /\ ~Alive(s) => s \in killed

AnswersEach(rs, ls) ==
  LET asking == Without(ls, {Blank})
  IN /\ Len(rs) = Len(asking)
     /\ \A i \in DOMAIN rs : IF asking[i] = Junk THEN DOMAIN rs[i] = {"error"} ELSE rs[i].ip = asking[i]

Unreplied(r) == r.kind \in {"blank", "notifications"} \/ (r.kind # "bad" /\ r.id = NoId)

(* Streams answer in order: a batch and a connection every line but the blank
   ones, and the MCP server every request with an id and every broken line, and
   no notification. *)
RepliesInOrder ==
  LET owed == Without(requests, {r \in Requests : Unreplied(r)})
  IN /\ request = "batch" => AnswersEach(answers, body)
     /\ AnswersEach(sent, lines)
     /\ Len(replies) = Len(owed)
     /\ \A i \in DOMAIN owed : replies[i].id = IF owed[i].kind = "bad" THEN Null ELSE owed[i].id
=============================================================================
