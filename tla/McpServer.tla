----------------------------- MODULE McpServer ------------------------------
(***************************************************************************)
(* example/mcp: JSON-RPC requests, one per line of standard input, and at  *)
(* most one reply line for each on standard output.                        *)
(***************************************************************************)
EXTENDS SpecLoader

CONSTANTS
  Requests,    (* The lines: [kind, id, tool, ips]; a kind is "blank", "bad"
                  (no request object), or of a method; tool and ips are of
                  "tools/call", with one element in ips for a single address. *)
  MaxRequests  (* Bound on the lines read.                                  *)

Tools == {"no params", "cidr_stats", "cidr_contains", "cidr_lookup", "cidr_lookup_batch", "unknown"}

ASSUME RequestAssumption ==
  \A r \in Requests :
    /\ r.kind \in {"blank", "bad", "initialize", "ping", "tools/list", "notifications", "tools/call", "other"}
    /\ r.kind = "tools/call" => r.tool \in Tools /\ r.ips \in Seq(Inputs)

VARIABLES
  requests,    (* History: the lines read.                                  *)
  replies,     (* The replies written: [id, body].                          *)
  mpc          (* "serve", or the exit status.                              *)

mcpVars == <<requests, replies, mpc>>

NoId == "none"
Null == "null"

McpInit == requests = <<>> /\ replies = <<>> /\ mpc = "serve"

(* reply sends nothing for a request without an id. *)
reply(r) == IF r.id = NoId THEN <<>> ELSE <<r>>

Error(id, code) == [id |-> id, body |-> [error |-> code]]
Ok(id, body) == [id |-> id, body |-> body]

Valid(ips) == Without(ips, {Junk, Blank})

Results(ips) == [i \in 1 .. Len(Valid(ips)) |-> resolve(entries, Valid(ips)[i])]

(* callTool.  A batch leaves the invalid addresses out of its results. *)
callTool(r) ==
  CASE r.tool = "no params" -> Error(r.id, "invalid params")
    [] r.tool = "cidr_stats" -> Ok(r.id, [stats |-> Stats(entries)])
    [] r.tool = "cidr_contains" /\ Valid(r.ips) # <<>> ->
         Ok(r.id, [member |-> Contains(Freeze(entries), r.ips[1])])
    [] r.tool = "cidr_lookup" /\ Valid(r.ips) # <<>> -> Ok(r.id, [results |-> Results(r.ips)])
    [] r.tool \in {"cidr_contains", "cidr_lookup"} /\ Valid(r.ips) = <<>> -> Ok(r.id, [toolError |-> r.tool])
    [] r.tool = "cidr_lookup_batch" /\ r.ips = <<>> -> Ok(r.id, [toolError |-> r.tool])
    [] r.tool = "cidr_lookup_batch" /\ r.ips # <<>> -> Ok(r.id, [results |-> Results(r.ips)])
    [] r.tool = "unknown" -> Error(r.id, "unknown tool")

(* Mutant: an unknown method answered without an id too. *)
dispatchAlways(r) ==
  CASE r.kind \in {"initialize", "ping", "tools/list"} -> reply(Ok(r.id, [result |-> r.kind]))
    [] r.kind = "notifications" -> <<>>
    [] r.kind = "tools/call" -> reply(callTool(r))
    [] r.kind = "other" -> <<Error(r.id, "method not found")>>

(* dispatch, by the method. *)
dispatch(r) ==
  CASE r.kind \in {"initialize", "ping", "tools/list"} -> reply(Ok(r.id, [result |-> r.kind]))
    [] r.kind = "notifications" -> <<>>
    [] r.kind = "tools/call" -> reply(callTool(r))
    [] r.kind = "other" -> reply(Error(r.id, "method not found"))

(* One line.  A line that is no request object is answered with a null id. *)
Request(r) ==
  /\ mpc = "serve" /\ lpc = "loaded"
  /\ requests' = Append(requests, r)
  /\ replies' = replies \o CASE r.kind = "blank" -> <<>>
                             [] r.kind = "bad" -> <<Error(Null, "parse error")>>
                             [] OTHER -> dispatch(r)
  /\ UNCHANGED mpc

(* The end of the input, a line over the limit or a read error; or no spec. *)
McpEnds ==
  /\ mpc = "serve" /\ lpc # "read"
  /\ mpc' \in IF lpc = "error" THEN {"1"} ELSE {"0", "1"}
  /\ UNCHANGED <<requests, replies>>

McpNext ==
  \/ Len(requests) < MaxRequests /\ \E r \in Requests : Request(r)
  \/ McpEnds
=============================================================================
