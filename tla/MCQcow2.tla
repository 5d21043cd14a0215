------------------------------ MODULE MCQcow2 ------------------------------
(* Three clusters of two words, the last one half a cluster past the end of *)
(* the disk; two L2 tables; a backing image shorter than the overlay.       *)
EXTENDS Qcow2

MCBase == [w \in 0 .. 2 |-> 7]
=============================================================================
