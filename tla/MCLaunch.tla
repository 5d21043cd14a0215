------------------------------ MODULE MCLaunch ------------------------------
(* Launches of three tasks that between them take every path of StartTask. *)
EXTENDS Launch, TLC

CONSTANTS web, job, tmp

\* A published service on the bridge; a job on the tc plane that is allowed to
\* run with less protection; and an ephemeral task without limits or a network.
MCSpecOf ==
    (web :> [net |-> "auto", bridge |-> TRUE, policy |-> TRUE, ports |-> {80},
             dns |-> TRUE, disk |-> "overlay", vols |-> 1, limits |-> TRUE,
             degradable |-> FALSE, compact |-> TRUE]) @@
    (job :> [net |-> "tc", bridge |-> TRUE, policy |-> FALSE, ports |-> {80},
             dns |-> FALSE, disk |-> "ubd", vols |-> 0, limits |-> TRUE,
             degradable |-> TRUE, compact |-> FALSE]) @@
    (tmp :> [net |-> "none", bridge |-> FALSE, policy |-> FALSE, ports |-> {},
             dns |-> FALSE, disk |-> "ephemeral", vols |-> 2, limits |-> FALSE,
             degradable |-> FALSE, compact |-> FALSE])

\* Every task is on the bridge and publishes nothing.
MCBridgeSpecOf == [t \in Tasks |-> [MCSpecOf[web] EXCEPT !.ports = {}]]

LaunchSymmetry == Permutations(Procs)
=============================================================================
