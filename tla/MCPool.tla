------------------------------- MODULE MCPool -------------------------------
(***************************************************************************)
(* Instances of Pool for TLC.                                              *)
(***************************************************************************)
EXTENDS Pool, TLC

CONSTANTS p1, p2, s1, s2, s3, s4, k1, k2   \* goroutines, sandboxes, tasks

\* One template of one cpu and two MB of quota.
MCCPU(t) == 1
MCMemMB(t) == 2

\* The default quota, and one that a tenant may be cut down to.
Ample == [conc |-> 2, cpu |-> 2, mem |-> 3, rate |-> 2]
Tight == [conc |-> 1, cpu |-> 1, mem |-> 2, rate |-> 2]
MCQuotas == {Ample, Tight}

Symmetry == Permutations(Procs) \cup Permutations(Ids) \cup Permutations(Tasks)
=============================================================================
