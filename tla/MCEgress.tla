------------------------------ MODULE MCEgress ------------------------------
(* The instance of Egress that TLC checks: two names, two public and a     *)
(* private address, an allowlist policy, one that denies everything, and   *)
(* one of rules that intercepts a host.                                    *)
EXTENDS Egress

Rule(hs, ops, ok, mitm) ==
    [hosts |-> hs, ops |-> ops, scheme |-> "", port |-> "", allow |-> ok, mitm |-> mitm]

MCTerms ==
    "flat" :> policyOf({"a", "b"}, {}, <<>>, 0) @@ "deny" :> policyOf({}, {}, <<>>, 0) @@
    "rules" :> policyOf({}, {}, <<Rule({"a"}, {"get"}, TRUE, TRUE), Rule({"a"}, {}, TRUE, FALSE),
                                  Rule({"b"}, {}, FALSE, FALSE)>>, 1)

Symmetry == Permutations(Workers) \cup Permutations(Conns)
=============================================================================
