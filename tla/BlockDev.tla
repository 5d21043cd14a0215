------------------------------ MODULE BlockDev ------------------------------
(***************************************************************************)
(* What a guest expects of its disk (cow.WritableBackend): a write changes *)
(* the words it names and no other, all of them before it reports success. *)
(* A write that fails, or whose server dies, may have reached any of its   *)
(* words.  Opening, closing, compacting or losing the server change        *)
(* nothing.                                                                *)
(***************************************************************************)
EXTENDS Naturals

CONSTANTS Words,    \* the words of the disk
          Values    \* what a word can hold

VARIABLES disk,     \* the content of the disk
          todo,     \* words of the write in flight that are not yet written
          val,      \* the value it writes
          res       \* "busy" while a write is in flight, else its outcome

vars == <<disk, todo, val, res>>

Init == /\ disk \in [Words -> Values]
        /\ todo = {}
        /\ val \in Values
        /\ res = "ok"

(* A write is accepted. *)
Begin == /\ res # "busy"
         /\ todo' \in SUBSET Words
         /\ val' \in Values
         /\ res' = "busy"
         /\ UNCHANGED disk

(* Some of its words reach the disk; it goes on or ends, with success only *)
(* if they were the last.                                                  *)
Apply == /\ res = "busy"
         /\ \E S \in SUBSET todo :
              /\ disk' = [w \in Words |-> IF w \in S THEN val ELSE disk[w]]
              /\ \/ res' = "busy" /\ todo' = todo \ S /\ val' = val
                 \/ /\ res' \in {"error"} \cup (IF S = todo THEN {"ok"} ELSE {})
                    /\ todo' = {} /\ val' \in Values

Next == Begin \/ Apply

Spec == Init /\ [][Next]_vars
=============================================================================
