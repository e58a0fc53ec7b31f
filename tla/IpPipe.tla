------------------------------- MODULE IpPipe -------------------------------
(***************************************************************************)
(* The two address tools of cmd/, each on its own and as the pipeline      *)
(* ipunfold | ipfold.  What ipunfold writes is what ipfold may read, in    *)
(* order and as far as it has been written; the end of ipunfold, whatever  *)
(* its exit status, is all ipfold sees of a failure.                       *)
(***************************************************************************)
EXTENDS Integers, Sequences

CONSTANTS W, WordBits, SwitchAt, Zones, MaxGiven, MaxLines, Limits

ASSUME WordAssumption == W \in Nat /\ WordBits \in 1 .. 2^W /\ 2^W % WordBits = 0
ASSUME InputAssumption ==
  /\ SwitchAt \in Nat \ {0} /\ 0 \in Zones /\ Zones \subseteq Nat
  /\ Limits \subseteq Nat /\ MaxGiven \in Nat /\ MaxLines \in Nat

(* What the arithmetic of numbers of W bits rests on. *)
ASSUME PowerAssumption ==
  /\ 2^0 = 1 /\ 2^1 = 2
  /\ \A j \in 0 .. W : 2^j \in Nat \ {0}
  /\ \A j \in 0 .. W : \A k \in 0 .. j : 2^j = 2^k * 2^(j - k)

VARIABLES
  piped,                                    (* Whether ipfold reads from ipunfold. *)
  upc, count, max, total, x, hi, written, taken,          (* ipunfold *)
  fpc, v4, slice, bitmap, at, run, emitted, given         (* ipfold   *)

unfoldVars == <<upc, count, max, total, x, hi, written, taken>>
foldVars == <<fpc, v4, slice, bitmap, at, run, emitted, given>>
vars == <<piped, unfoldVars, foldVars>>

Unfold == INSTANCE IpUnfold WITH pc <- upc
Fold == INSTANCE IpFold WITH pc <- fpc

Init ==
  /\ piped \in BOOLEAN
  /\ Unfold!Init /\ (~piped => ~count /\ max = 0)
  /\ Fold!Init

(* One address read from the pipe. *)
Transfer ==
  /\ Len(given) < Len(written)
  /\ Fold!Read([ip |-> written[Len(given) + 1], zone |-> 0])

(* The writing end closes when ipunfold has ended.  It flushes before, except
   that a failed write loses what is still in its buffer. *)
PipeClosed ==
  \/ upc \in {"done", "max"} /\ Len(given) = Len(written)
  \/ upc = "failed"

FoldInput ==
  \/ ~piped /\ (Fold!Type \/ Fold!EndOfInput)
  \/ piped /\ (Transfer \/ (PipeClosed /\ Fold!EndOfInput))

(* What ipfold does with a beginning of its input commutes with what ipunfold
   still writes behind it: nothing is lost by letting it wait. *)
FoldRuns == piped => upc \in {"done", "max", "failed"}

Next ==
  \/ /\ FoldRuns
     /\ FoldInput \/ Fold!ReadFails \/ Fold!Fold \/ Fold!WriteFails
     /\ UNCHANGED <<piped, unfoldVars>>
  \/ /\ piped /\ Unfold!Next
     /\ UNCHANGED <<piped, foldVars>>

Spec == Init /\ [][Next]_vars

FairSpec == Spec /\ WF_vars(piped /\ Unfold!Write /\ UNCHANGED <<piped, foldVars>>)
-----------------------------------------------------------------------------
FoldsMinimal == Fold!FoldsMinimal
WritesExpansion == Unfold!WritesExpansion
LimitKept == Unfold!LimitKept
ExpansionEnds == Unfold!ExpansionEnds

(* "the inverse: expand CIDRs back into the individual addresses" (README.md of
   the repository, 149): folding what was unfolded gives the minimal cover of
   the prefixes, whatever they repeat and however the two interleave; also up
   to the prefix that -max stopped at.  After a failed write the cover is of
   addresses of the prefixes, but not of all, and ipfold cannot tell. *)
PipeInverse ==
  LET asked == UNION {taken[i].lo .. taken[i].hi : i \in 1 .. Len(taken)}
  IN piped /\ fpc = "done" =>
       /\ UNION {p.lo .. p.hi : p \in Fold!Written} \subseteq asked
       /\ upc \in {"done", "max"} /\ ~count => Fold!Written = Fold!MinimalCover(asked)
=============================================================================
