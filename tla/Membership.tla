----------------------------- MODULE Membership -----------------------------
(***************************************************************************)
(* What Builder and Set promise, without arrays, merging or searching: a   *)
(* builder is a set of addresses that grows, a frozen set is a copy of it  *)
(* that never changes, and a query answers whether an address is in it.    *)
(***************************************************************************)
EXTENDS Naturals, Sequences

CONSTANTS Addr, Readers

VARIABLES building, frozen, call

vars == <<building, frozen, call>>

NoCall == [pc |-> "none", set |-> 0, a |-> 0, ok |-> FALSE]

Init == building = {} /\ frozen = <<>> /\ call = [g \in Readers |-> NoCall]

Insert ==
  /\ \E S \in SUBSET Addr : building' = building \cup S
  /\ UNCHANGED <<frozen, call>>

Compile ==
  /\ frozen' = Append(frozen, building)
  /\ UNCHANGED <<building, call>>

Ask(g, k, a) ==
  /\ call[g].pc = "none"
  /\ call' = [call EXCEPT ![g] = [pc |-> "asked", set |-> k, a |-> a, ok |-> FALSE]]
  /\ UNCHANGED <<building, frozen>>

Answer(g) ==
  LET c == call[g]
      ok == c.a \in frozen[c.set]
  IN /\ c.pc = "asked"
     /\ call' = [call EXCEPT ![g] = [pc |-> "answered", set |-> c.set, a |-> c.a, ok |-> ok]]
     /\ UNCHANGED <<building, frozen>>

Take(g) ==
  /\ call[g].pc = "answered"
  /\ call' = [call EXCEPT ![g] = NoCall]
  /\ UNCHANGED <<building, frozen>>

Next ==
  \/ Insert
  \/ Compile
  \/ \E g \in Readers :
       \/ \E k \in DOMAIN frozen, a \in Addr : Ask(g, k, a)
       \/ Answer(g)
       \/ Take(g)

Spec == Init /\ [][Next]_vars
=============================================================================
