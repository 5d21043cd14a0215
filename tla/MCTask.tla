------------------------------- MODULE MCTask -------------------------------
(***************************************************************************)
(* Instances of TaskControl for TLC.                                       *)
(***************************************************************************)
EXTENDS TaskControl, TLC

CONSTANTS r1, r2, r3, r4, r5   \* request goroutines

\* Which request is which does not matter to any state.
Symmetry == Permutations(Requests)

CONSTANT Boxes   \* the kinds of task a run starts with

VARIABLES
    contained,   \* history: an incident has frozen the task
    box          \* "as given", or with other lifecycle settings or another host

\* A task with an idle timeout whose pause is deep, and a task outside the
\* pool on a host without cgroups.
Idling == INSTANCE TaskControl WITH
            Idle <- TRUE, SlowTimers <- TRUE, Kinds <- {"exec"}
Bare == INSTANCE TaskControl WITH
            HasCgroup <- FALSE, Pooled <- FALSE, MaxFaults <- 2, Kinds <- Kinds \cup {"freeze"}

Contains == \E r \in Requests : At(r, "idle") /\ th'[r].pc = "iload"

MCInit == /\ box \in Boxes /\ contained = FALSE
          /\ CASE box = "as given" -> Init
               [] box = "idling"   -> Idling!Init
               [] box = "bare"     -> Bare!Init

MCNext == /\ \/ box = "as given" /\ Next
             \/ box = "idling" /\ Idling!Next
             \/ box = "bare" /\ Bare!Next
          /\ contained' = (contained \/ Contains)
          /\ UNCHANGED box

MCSpec == MCInit /\ [][MCNext]_<<vars, contained, box>>

MCFairSpec == MCSpec /\ Fairness

\* When everything has settled, a task that is Running on disk is not frozen,
\* unless an incident froze it or the server died between a freeze and its
\* save: "frozen while on disk it is still Running ... never self-heals"
\* (autopause.go, commitPause).
RunningNotFrozen ==
    Quiet /\ restarts = 0 /\ ~contained /\ disk.status = "running" => ~frozen

\* Compensated, with what is expected of each kind of task: every compensation
\* path of the handlers and of the idle callback ends with the runtime, the
\* quota, the balloon, the guest and the persisted status in step
\* (autopause.go Resume, balloon.go, deeppause.go, e2b_server.go).
AllCompensated == IF box = "bare" THEN Bare!Compensated ELSE Compensated
=============================================================================
