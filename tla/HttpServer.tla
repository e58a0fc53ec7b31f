----------------------------- MODULE HttpServer -----------------------------
(***************************************************************************)
(* example/http.  Its handlers run concurrently, but they share only the   *)
(* frozen set and table, so one request at a time stands for all of them.  *)
(***************************************************************************)
EXTENDS SpecLoader

VARIABLES
  request,     (* The endpoint asked, "none" before.                        *)
  body,        (* The query parameter, or the lines of the batch so far.    *)
  answers,     (* The results written.                                      *)
  status       (* 0 before the header is written.                           *)

httpVars == <<request, body, answers, status>>

HttpInit == request = "none" /\ body = <<>> /\ answers = <<>> /\ status = 0

Answer(line) == IF line = Junk THEN <<[error |-> line]>>
                ELSE IF line = Blank THEN <<>> ELSE <<resolve(entries, line)>>

Asked(r, b) == lpc = "loaded" /\ request = "none" /\ request' = r /\ body' = b

handleStats ==
  /\ Asked("stats", <<>>)
  /\ answers' = <<Stats(entries)>>
  /\ status' = 200

(* parseIP rejects a missing and an invalid address alike. *)
handleContains(line) ==
  /\ Asked("contains", <<line>>)
  /\ \/ line \in {Junk, Blank} /\ answers' = <<>> /\ status' = 400
     \/ /\ line \notin {Junk, Blank} /\ status' = 200
        /\ answers' = <<[ip |-> line, member |-> Contains(Freeze(entries), line)]>>

handleLookup(line) ==
  /\ Asked("lookup", <<line>>)
  /\ \/ line \in {Junk, Blank} /\ answers' = <<>> /\ status' = 400
     \/ line \notin {Junk, Blank} /\ answers' = Answer(line) /\ status' = 200

handleBatch == Asked("batch", <<>>) /\ UNCHANGED <<answers, status>>

BatchLine(line) ==
  /\ request = "batch" /\ status = 0
  /\ body' = Append(body, line)
  /\ answers' = answers \o Answer(line)
  /\ UNCHANGED <<request, status>>

(* The end of the body, a line over the limit or a read error end the batch
   alike: the scanner's error is not looked at, and the status is 200. *)
BatchEnds ==
  /\ request = "batch" /\ status = 0
  /\ status' = 200
  /\ UNCHANGED <<request, body, answers>>

HttpNext ==
  \/ handleStats \/ handleBatch \/ BatchEnds
  \/ \E line \in Inputs : handleContains(line) \/ handleLookup(line)
  \/ Len(body) < MaxInputs /\ \E line \in Inputs : BatchLine(line)
=============================================================================
