----------------------------- MODULE TaskState -----------------------------
(***************************************************************************)
(* The task lifecycle state machine of internal/state/manager.go: the      *)
(* statuses, the edge table, and what ContainerState.Transition accepts.   *)
(* Only the fields of ContainerState that control flow reads are kept:     *)
(* the status, whether Metadata["pause_mode"] is "deep", and whether       *)
(* Metadata["pause_memory_max"] (the balloon marker) is present.           *)
(***************************************************************************)

Status == {"pending", "provisioning", "ready", "running", "suspended",
           "resuming", "review", "completed", "failed", "quarantined",
           "destroy", "stopped", "exited"}

Terminal(s) == s \in {"destroy", "stopped", "exited"}

\* The edge table: a status without an entry in the Go map has no edge out.
allowed == [pending      |-> {"provisioning", "destroy", "failed", "quarantined"},
            provisioning |-> {"ready", "failed", "quarantined", "destroy"},
            ready        |-> {"running", "suspended", "failed", "quarantined", "destroy"},
            running      |-> {"suspended", "review", "failed", "quarantined", "destroy"},
            suspended    |-> {"resuming", "review", "failed", "quarantined", "destroy"},
            resuming     |-> {"running", "failed", "quarantined", "destroy"},
            review       |-> {"completed", "failed", "quarantined", "destroy"},
            failed       |-> {"provisioning", "quarantined", "destroy"},
            quarantined  |-> {"failed", "destroy"},
            completed    |-> {"destroy"},
            destroy      |-> {},
            stopped      |-> {},
            exited       |-> {}]

\* Re-applying the current status is an accepted no-op.
canTransition(from, to) == from = to \/ to \in allowed[from]

ContainerState == [status: Status, deep: BOOLEAN, balloon: BOOLEAN]

\* Setting (or deleting) the two metadata keys.
MarkDeep(st) == [st EXCEPT !.deep = TRUE]
ClearDeep(st) == [st EXCEPT !.deep = FALSE]
MarkBalloon(st) == [st EXCEPT !.balloon = TRUE]
ClearBalloon(st) == [st EXCEPT !.balloon = FALSE]

\* Transition returns nil exactly here ...
Accepts(st, to) == ~Terminal(st.status) /\ canTransition(st.status, to)

\* ... and the status the in-memory state has after the call, error or not.
Transition(st, to) == IF Accepts(st, to) THEN [st EXCEPT !.status = to] ELSE st
=============================================================================
