---------------------------- MODULE MCContainment ----------------------------
(* The instance of Containment that ContainAll.cfg checks: reports and     *)
(* handlers are interchangeable, tasks are not (they start differently).   *)
EXTENDS Containment, TLC

Symmetry == Permutations(Handlers) \cup Permutations(Reports)
=============================================================================
