------------------------------ MODULE MCVolumes ------------------------------
(***************************************************************************)
(* Two volumes and two snapshots under two concurrent requests; two        *)
(* sandboxes on one manager, as in a server, or on one each, as under      *)
(* `agentpvm run`.  The halves share no state, so each has its budget.     *)
(***************************************************************************)
EXTENDS Volumes, TLC
CONSTANTS v1, v2, s1, s2, k1, k2, x1, x2, m1, m2, b1, b2

MCVols == {v1, v2}
MCSnaps == {s1, s2}
MCHandlers == {k1, k2}
MCBuckets == {b1, b2}
MCSandboxes == {x1, x2}
MCManagers == {m1, m2}
MCWirings == {[s \in MCSandboxes |-> m1], (x1 :> m1) @@ (x2 :> m2)}
MCMounts == {<< <<b1, "s3">>, <<b2, "s3">> >>, << <<b2, "s3">>, <<b1, "builtin">> >>}
MCBudgets == {[blocks |-> 6, mounts |-> 0], [blocks |-> 0, mounts |-> 4]}
Symmetric == Permutations(MCHandlers)
=============================================================================
