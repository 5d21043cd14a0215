------------------------------ MODULE MCLedger ------------------------------
(***************************************************************************)
(* Instances of Ledger for TLC.                                            *)
(***************************************************************************)
EXTENDS Ledger, TLC

CONSTANTS o1, o2   \* Ledger objects

Symmetry == Permutations(Objects)
=============================================================================
