---------------------------- MODULE MCSnapshots ----------------------------
(* Instances of Snapshots for TLC.  Each profile is the set of operations  *)
(* of one story with the number of them that a behaviour may start.        *)
EXTENDS Snapshots, TLC

CONSTANTS a, b, c

MCTask == {a, b, c}

(* Snapshots taken, rolled back to and dropped while a guest writes and    *)
(* the task is deleted; clones of clones against deletions; restores and   *)
(* failing relaunches; crashes.                                            *)
MCProfiles ==
  { [ops |-> 5, specs |-> 1 .. 2,
     kinds |-> {"launch", "write", "snapshot", "rollback", "drop"}],
    [ops |-> 4, specs |-> {1}, kinds |-> {"launch", "clone", "delete", "rollback", "snapshot"}],
    [ops |-> 6, specs |-> {1}, kinds |-> {"launch", "clone", "delete", "crash"}],
    [ops |-> 5, specs |-> {1},
     kinds |-> {"launch", "relaunch", "clone", "export", "delete"}],
    [ops |-> 4, specs |-> {1}, kinds |-> {"launch", "snapshot", "export", "drop", "part"}],
    [ops |-> 4, specs |-> {1}, kinds |-> {"launch", "clone", "delete", "part"}],
    [ops |-> 4, specs |-> {1},
     kinds |-> {"launch", "snapshot", "drop", "rollback", "crash", "delete", "part"}] }

(* Every formula treats all tasks but the restored one alike. *)
Symmetry == Permutations({a, b})
=============================================================================
