------------------------------ MODULE CidrTool ------------------------------
(***************************************************************************)
(* cmd/cidr after the spec is loaded: addresses from the arguments or from *)
(* standard input are answered one by one; -match turns it into a filter   *)
(* with the exit status of grep.                                           *)
(***************************************************************************)
EXTENDS SpecLoader

VARIABLES
  match,       (* -match; -brief only changes the layout of a result.       *)
  stdin,       (* The addresses come from standard input.                   *)
  asked,       (* History: the inputs handled.                              *)
  out,         (* What was printed: results, or addresses with -match.      *)
  members,     (* The tally.                                                *)
  exit         (* "running", or the exit status.                            *)

toolVars == <<match, stdin, asked, out, members, exit>>

ToolInit ==
  /\ match \in BOOLEAN /\ stdin \in BOOLEAN
  /\ asked = <<>> /\ out = <<>> /\ members = 0 /\ exit = "running"

(* The spec could not be loaded: fatal. *)
NoSpec ==
  /\ exit = "running" /\ lpc = "error"
  /\ exit' = "1"
  /\ UNCHANGED <<match, stdin, asked, out, members>>

Ready == exit = "running" /\ lpc = "loaded"

(* handle.  A blank line or a comment is skipped, and so is an invalid address,
   with a message unless -match. *)
handle(s) ==
  /\ Ready
  /\ asked' = Append(asked, s)
  /\ \/ s \in {Junk, Blank} /\ UNCHANGED <<out, members>>
     \/ /\ s \notin {Junk, Blank}
        /\ LET res == resolve(entries, s)
           IN /\ members' = IF res.member THEN members + 1 ELSE members
              /\ out' = IF match THEN (IF res.member THEN Append(out, s) ELSE out)
                        ELSE Append(out, res)
  /\ UNCHANGED <<match, stdin, exit>>

(* A read error or a line over the limit: what there is is flushed.  (A line
   cut short by it is handled as one more input.) *)
StdinFails ==
  /\ Ready /\ stdin
  /\ exit' = "1"
  /\ UNCHANGED <<match, stdin, asked, out, members>>

(* Mutant: the status of -match from the queries instead of the members. *)
FinishQueried ==
  /\ Ready
  /\ exit' = IF match /\ asked = <<>> THEN "1" ELSE "0"
  /\ UNCHANGED <<match, stdin, asked, out, members>>

Finish ==
  /\ Ready
  /\ exit' = IF match /\ members = 0 THEN "1" ELSE "0"
  /\ UNCHANGED <<match, stdin, asked, out, members>>

ToolNext ==
  \/ NoSpec
  \/ Len(asked) < MaxInputs /\ \E s \in Inputs : handle(s)
  \/ StdinFails \/ Finish
=============================================================================
