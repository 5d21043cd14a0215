------------------------------- MODULE MCGate -------------------------------
(***************************************************************************)
(* Instances of Gate for TLC.                                              *)
(***************************************************************************)
EXTENDS Gate, TLC

CONSTANTS c1, c2, i1, i2, k1, k2   \* requests, tickets, keys

r(name, action, effect) == [name |-> name, action |-> action, effect |-> effect]

\* A read is allowed, production needs approval, and the catch-all is scoped:
\* a call that declares no effect matches nothing.
MCRulebooks == {<<r("push", "allow", "read"), r("*", "approve", "prod")>>}

Symmetry == Permutations(Clients) \cup Permutations(Ids) \cup Permutations(Keys)
=============================================================================
