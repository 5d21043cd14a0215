------------------------------ MODULE MCVhost ------------------------------
(***************************************************************************)
(* The block server with a queue of two and indices that wrap at four:     *)
(* long queues, odd requests and resets in one session, and two frontends  *)
(* one after the other.                                                    *)
(***************************************************************************)
EXTENDS Vhost

MCLimits == {[sessions |-> 1, posts |-> 5, odd |-> 0, resets |-> 0],
             [sessions |-> 1, posts |-> 3, odd |-> 1, resets |-> 0],
             [sessions |-> 1, posts |-> 4, odd |-> 0, resets |-> 1],
             [sessions |-> 2, posts |-> 1, odd |-> 1, resets |-> 0]}
=============================================================================
