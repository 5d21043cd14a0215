---------------------------- MODULE Containment ----------------------------
(***************************************************************************)
(* The credential broker (internal/identity, api/identity_api.go) and the  *)
(* incident controller that uses it to cut a task off                      *)
(* (internal/incident, api/incident_api.go), in one server process that    *)
(* can die and start again over its key and revocation files.              *)
(*                                                                         *)
(* A token is its id, its signed task claim and its expiry.  A refresh and *)
(* the revocation of one token are several steps of the broker, a report   *)
(* walks its hooks one at a time, and every write of the revocation file   *)
(* can fail before or after the rename.                                    *)
(***************************************************************************)
EXTENDS Integers, FiniteSets, Sequences

CONSTANTS
    TaskIds,
    Handlers,    \* REST handlers in flight
    Reports,     \* incident reports
    MaxTokens,   \* bound: tokens minted
    Budget,      \* bound: requests
    MaxFailures  \* bound: failed writes, reads and hooks

ASSUME ContainAssumption == MaxTokens \in Nat /\ Budget \in Nat /\ MaxFailures \in Nat

Severities == {"low", "medium", "high", "critical"}

VARIABLES
    keyFile,   \* identity.key: "none", "empty", "ok"
    proc,      \* the process: "down", "keying" (creating the key), "up" (broker built)
    token,     \* the tokens handed out: their task and whether they have expired
    revoked,   \* Broker.revoked
    shut,      \* Broker.revokedTasks
    active,    \* Broker.taskByToken: the ids the process still links to a task
    file,      \* identity-revocations.json
    handler,   \* the handlers
    cached,    \* the incident controller: not built, or built with or without a broker
    handled,   \* Controller.handled
    report,    \* the reports
    box,       \* per task: the guest, its stored status, and whether it was launched into a cgroup
    left, failures,
    gone,      \* ghost: ids and tasks whose revocation was reported as done
    narrowed   \* ghost: a start lost the revocation file

bvars == <<keyFile, proc, token, revoked, shut, active, file, handler, gone, narrowed>>
ivars == <<cached, handled, report, box>>
containVars == <<bvars, ivars, left, failures>>

Rest == [pc |-> "idle", id |-> 0]
NoReport == [pc |-> "idle", task |-> "", act |-> "none", todo |-> <<>>, failed |-> {}, undone |-> {}]

ContainInit ==
    /\ keyFile = "none" /\ proc = "down"
    /\ token = <<>> /\ revoked = {} /\ shut = {} /\ active = {}
    /\ file = [ids |-> {}, tasks |-> {}]
    /\ handler = [h \in Handlers |-> Rest]
    /\ cached = "unset" /\ handled = [t \in TaskIds |-> 0]
    /\ report = [r \in Reports |-> NoReport]
    /\ box \in [TaskIds -> [run : {"running"}, status : {"Running"}, cg : BOOLEAN]]
    /\ left = Budget /\ failures = 0
    /\ gone = [ids |-> {}, tasks |-> {}] /\ narrowed = FALSE

Spend == left > 0 /\ left' = left - 1
Fault == failures < MaxFailures /\ failures' = failures + 1
Minted == DOMAIN token

-----------------------------------------------------------------------------
(* The process and its files.                                              *)

\* LoadOrCreateKey: the O_EXCL create and the write are two steps.
CreateKey ==
    /\ proc = "down" /\ keyFile = "none"
    /\ keyFile' = "empty" /\ proc' = "keying"
    /\ UNCHANGED <<token, revoked, shut, active, file, handler, gone, narrowed, ivars, left, failures>>

WriteKey ==
    /\ proc = "keying"
    /\ keyFile' = "ok" /\ proc' = "down"
    /\ UNCHANGED <<token, revoked, shut, active, file, handler, gone, narrowed, ivars, left, failures>>

\* CurrentIdentity, PersistRevocations: the file is loaded and written back.
Load ==
    /\ proc = "down" /\ keyFile = "ok"
    /\ proc' = "up" /\ revoked' = file.ids /\ shut' = file.tasks
    /\ UNCHANGED <<keyFile, token, active, file, handler, gone, narrowed, ivars, left, failures>>

\* An unreadable file is reported and passed over; a corrupt one is set aside.
LoadFails ==
    /\ proc = "down" /\ keyFile = "ok" /\ Fault
    /\ proc' = "up" /\ narrowed' = TRUE
    /\ file' \in {file, [ids |-> {}, tasks |-> {}]}
    /\ UNCHANGED <<keyFile, token, revoked, shut, active, handler, gone, ivars, left>>

\* The process dies: the files, the tokens and the guests stay.
Crash ==
    /\ proc # "down" \/ cached # "unset"
    /\ Fault
    /\ proc' = "down" /\ revoked' = {} /\ shut' = {} /\ active' = {}
    /\ handler' = [h \in Handlers |-> Rest]
    /\ cached' = "unset" /\ handled' = [t \in TaskIds |-> 0]
    /\ report' = [r \in Reports |-> [report[r] EXCEPT !.pc = IF @ = "idle" THEN @ ELSE "lost"]]
    /\ UNCHANGED <<keyFile, token, file, box, gone, narrowed, left>>

-----------------------------------------------------------------------------
(* The broker.                                                             *)

(* Mutant: the task-wide gate is asked of the in-memory link only. *)
Validates_LinkOnly(id) ==
    /\ id \in Minted /\ id \notin revoked /\ ~token[id].exp
    /\ ~(id \in active /\ token[id].task \in shut)

\* Validate: the id, the task it is linked to and the signed claim are looked up.
Validates(id) == id \in Minted /\ id \notin revoked /\ token[id].task \notin shut /\ ~token[id].exp

Mint(t) == Len(token) < MaxTokens /\ token' = Append(token, [task |-> t, exp |-> FALSE])

\* persistRevLocked: the write fails before or after its rename, or succeeds.
persistRevLocked(R, T, ok) ==
    IF ok THEN file' = [ids |-> R, tasks |-> T] /\ UNCHANGED failures
    ELSE Fault /\ file' \in {file, [ids |-> R, tasks |-> T]}

Revoke(id, ok) ==
    /\ revoked' = revoked \cup {id} /\ active' = active \ {id}
    /\ persistRevLocked(revoked', shut, ok)
    /\ gone' = IF ok THEN [gone EXCEPT !.ids = @ \cup {id}] ELSE gone

RevokeAllForTask(t, ok) ==
    /\ revoked' = revoked \cup {id \in active : token[id].task = t}
    /\ active' = {id \in active : token[id].task # t}
    /\ shut' = shut \cup {t}
    /\ persistRevLocked(revoked', shut', ok)
    /\ gone' = IF ok THEN [gone EXCEPT !.tasks = @ \cup {t}] ELSE gone

\* POST /identity/:task/tokens
PostToken(t) ==
    /\ proc = "up" /\ Spend
    /\ Mint(t) /\ active' = active \cup (DOMAIN token' \ Minted)
    /\ UNCHANGED <<keyFile, proc, revoked, shut, file, handler, gone, narrowed, ivars, failures>>

\* POST /identity/refresh: Validate, Mint, Revoke are three steps.
RefreshCheck(h, id) ==
    /\ proc = "up" /\ handler[h].pc = "idle" /\ Validates(id) /\ Spend
    /\ handler' = [handler EXCEPT ![h] = [pc |-> "mint", id |-> id]]
    /\ UNCHANGED <<keyFile, proc, token, revoked, shut, active, file, gone, narrowed, ivars, failures>>

RefreshMint(h) ==
    /\ handler[h].pc = "mint"
    /\ Mint(token[handler[h].id].task) /\ active' = active \cup (DOMAIN token' \ Minted)
    /\ handler' = [handler EXCEPT ![h].pc = "revoke"]
    /\ UNCHANGED <<keyFile, proc, revoked, shut, file, gone, narrowed, ivars, left, failures>>

\* POST /identity/:task/revoke of one token: Validate, the claim, then Revoke.
RevokeCheck(h, t, id) ==
    /\ proc = "up" /\ handler[h].pc = "idle" /\ Validates(id) /\ token[id].task = t /\ Spend
    /\ handler' = [handler EXCEPT ![h] = [pc |-> "revoke", id |-> id]]
    /\ UNCHANGED <<keyFile, proc, token, revoked, shut, active, file, gone, narrowed, ivars, failures>>

RevokeOne(h, ok) ==
    /\ handler[h].pc = "revoke"
    /\ Revoke(handler[h].id, ok)
    /\ handler' = [handler EXCEPT ![h] = Rest]
    /\ UNCHANGED <<keyFile, proc, token, shut, narrowed, ivars, left>>

RevokeAll(t, ok) ==
    /\ proc = "up" /\ Spend
    /\ RevokeAllForTask(t, ok)
    /\ UNCHANGED <<keyFile, proc, token, handler, narrowed, ivars>>

Expire(id) ==
    /\ id \in Minted /\ ~token[id].exp
    /\ token' = [token EXCEPT ![id].exp = TRUE]
    /\ UNCHANGED <<keyFile, proc, revoked, shut, active, file, handler, gone, narrowed, ivars, left, failures>>

\* Validate of an expired token clears its id from the sets.
Forget(id) ==
    /\ proc = "up" /\ id \in Minted /\ token[id].exp /\ id \in active
    /\ id \notin revoked /\ token[id].task \notin shut
    /\ active' = active \ {id}
    /\ UNCHANGED <<keyFile, proc, token, revoked, shut, file, handler, gone, narrowed, ivars, left, failures>>

-----------------------------------------------------------------------------
(* The incident controller.                                                *)

\* currentIncident: built once, on the broker there is at that moment or on none.
currentIncident ==
    /\ cached = "unset" /\ proc \in {"up", "down"}
    /\ \/ proc = "up" /\ cached' = "broker" /\ UNCHANGED failures
       \/ proc = "down" /\ keyFile = "empty" /\ cached' = "nil" /\ UNCHANGED failures
       \/ proc = "down" /\ keyFile # "empty" /\ Fault /\ cached' = "nil"
    /\ UNCHANGED <<bvars, handled, report, box, left>>

Classify(sev) ==
    CASE sev = "critical" -> "terminate"
      [] sev = "high" -> "quarantine"
      [] sev = "medium" -> "pause"
      [] sev = "low" -> "block"

Mild == {"block", "pause"}

(* Mutant: the count is read before it is raised. *)
escalated_Late(n, act) == IF n > 3 /\ act \in Mild THEN "quarantine" ELSE act

\* The third report on a task, and every later one, is answered with quarantine.
escalated(n, act) == IF n >= 3 /\ act \in Mild THEN "quarantine" ELSE act

Stages(act) ==
    CASE act = "terminate" -> <<"revoke", "block", "pause", "preserve", "terminate">>
      [] act = "quarantine" -> <<"revoke", "block", "pause", "preserve">>
      [] act = "pause" -> <<"pause", "preserve">>
      [] act = "block" -> <<"block">>

\* Controller.Handle, to the classification: the count is raised and read under one lock.
Handle(r, t, sev) ==
    /\ cached # "unset" /\ report[r].pc = "idle" /\ Spend
    /\ handled' = [handled EXCEPT ![t] = @ + 1]
    /\ LET act == escalated(handled'[t], Classify(sev))
       IN  report' = [report EXCEPT ![r] =
             [pc |-> "walk", task |-> t, act |-> act, todo |-> Stages(act), failed |-> {}, undone |-> {}]]
    /\ UNCHANGED <<bvars, cached, box, failures>>

(* Mutant: the walk stops at the first hook that fails. *)
walked_Aborts(rec, ok) ==
    IF ok THEN [rec EXCEPT !.todo = Tail(@)]
    ELSE [rec EXCEPT !.todo = <<>>, !.failed = @ \cup {Head(rec.todo)}]

\* recordFailure: a failed hook is noted and the walk goes on.
walked(rec, ok) ==
    [rec EXCEPT !.todo = Tail(@), !.failed = IF ok THEN @ ELSE @ \cup {Head(rec.todo)}]

NextStage(r, stage) == report[r].pc = "walk" /\ report[r].todo # <<>> /\ Head(report[r].todo) = stage

applyRevoke(r, ok) ==
    /\ NextStage(r, "revoke")
    /\ IF cached = "nil"
       THEN ok /\ UNCHANGED <<revoked, shut, active, file, gone, failures>>
       ELSE proc = "up" /\ RevokeAllForTask(report[r].task, ok)
    /\ report' = [report EXCEPT ![r] = walked(report[r], ok)]
    /\ UNCHANGED <<keyFile, proc, token, handler, narrowed, cached, handled, box, left>>

\* No caller publishes a gateway to this process (RegisterEgressGateway): the hook errs.
applyBlock(r) ==
    /\ NextStage(r, "block")
    /\ report' = [report EXCEPT ![r] = walked(report[r], FALSE)]
    /\ UNCHANGED <<bvars, cached, handled, box, left, failures>>

\* FreezeRuntime: a missing cgroup is no failure, and the stored status follows if the save works.
Froze(b) ==
    IF ~b.cg \/ b.run = "dead" THEN b
    ELSE [b EXCEPT !.run = "frozen", !.status = IF @ = "Running" THEN "Suspended" ELSE @]

applyPause(r) ==
    /\ NextStage(r, "pause")
    /\ box' = [box EXCEPT ![report[r].task] = Froze(box[report[r].task])]
    /\ report' = [report EXCEPT ![r] = walked(report[r], TRUE)]
    /\ UNCHANGED <<bvars, cached, handled, left, failures>>

\* The freeze fails, or it works and its status is not saved.
applyPauseFails(r) ==
    /\ NextStage(r, "pause") /\ Fault /\ box[report[r].task].cg /\ box[report[r].task].run # "dead"
    /\ \/ box' = box /\ report' = [report EXCEPT ![r] = walked(report[r], FALSE)]
       \/ /\ box' = [box EXCEPT ![report[r].task].run = "frozen"]
          /\ report' = [report EXCEPT ![r] = walked(report[r], TRUE)]
    /\ UNCHANGED <<bvars, cached, handled, left>>

\* Preserve: an event snapshot of the task, which leaves the task as it is.
applyPreserve(r, ok) ==
    /\ NextStage(r, "preserve")
    /\ IF ok THEN UNCHANGED failures ELSE Fault
    /\ report' = [report EXCEPT ![r] = walked(report[r], ok)]
    /\ UNCHANGED <<bvars, cached, handled, box, left>>

\* Terminate: the guest is killed when its pid is in the task's cgroup.
Killed(b) == [b EXCEPT !.run = IF b.cg THEN "dead" ELSE @, !.status = "Destroy"]

Terminate(r, ok) ==
    /\ NextStage(r, "terminate")
    /\ IF ok
       THEN /\ box' = [box EXCEPT ![report[r].task] = Killed(box[report[r].task])]
            /\ UNCHANGED failures
       ELSE Fault /\ UNCHANGED box
    /\ report' = [report EXCEPT ![r] = walked(report[r], ok)]
    /\ UNCHANGED <<bvars, cached, handled, left>>

\* reportIncident: the action and the first error are recorded and returned.
Answered(r) ==
    /\ report[r].pc = "walk" /\ report[r].todo = <<>>
    /\ report' = [report EXCEPT ![r].pc = "done"]
    /\ UNCHANGED <<bvars, cached, handled, box, left, failures>>

\* The rest of the server: the owner resumes a paused task, a guest exits.
ResumeTask(t) ==
    /\ box[t].status = "Suspended" /\ box[t].run = "frozen" /\ Spend
    /\ box' = [box EXCEPT ![t].run = "running", ![t].status = "Running"]
    /\ report' = [r \in Reports |->
         IF report[r].task = t THEN [report[r] EXCEPT !.undone = @ \cup {"pause"}] ELSE report[r]]
    /\ UNCHANGED <<bvars, cached, handled, failures>>

Exit(t) ==
    /\ box[t].run = "running" /\ Spend
    /\ box' = [box EXCEPT ![t].run = "dead"]
    /\ UNCHANGED <<bvars, cached, handled, report, failures>>

ContainNext ==
    \/ CreateKey \/ WriteKey \/ Load \/ LoadFails \/ Crash \/ currentIncident
    \/ \E t \in TaskIds :
        \/ PostToken(t) \/ ResumeTask(t) \/ Exit(t)
        \/ \E ok \in BOOLEAN : RevokeAll(t, ok)
        \/ \E r \in Reports, sev \in Severities : Handle(r, t, sev)
    \/ \E h \in Handlers :
        \/ RefreshMint(h)
        \/ \E ok \in BOOLEAN : RevokeOne(h, ok)
        \/ \E id \in Minted : RefreshCheck(h, id) \/ \E t \in TaskIds : RevokeCheck(h, t, id)
    \/ \E id \in Minted : Expire(id) \/ Forget(id)
    \/ \E r \in Reports :
        \/ applyBlock(r) \/ applyPause(r) \/ applyPauseFails(r) \/ Answered(r)
        \/ \E ok \in BOOLEAN : applyRevoke(r, ok) \/ applyPreserve(r, ok) \/ Terminate(r, ok)

ContainSpec == ContainInit /\ [][ContainNext]_containVars

-----------------------------------------------------------------------------
(* A revocation the broker reported as done (a single token, a whole task, *)
(* by REST, by a rotation or by an incident) holds from then on: whatever  *)
(* interleaves with it (a rotation that has passed its check, a mint for   *)
(* the task) and whatever restarts follow, no token it covers validates    *)
(* again (Broker.Revoke, RevokeAllForTask, PersistRevocations).  The one   *)
(* way back is a start that cannot read its revocation file.               *)
RevokedStaysRevoked ==
    (proc = "up" /\ ~narrowed) =>
        \A id \in Minted :
            (id \in gone.ids \/ token[id].task \in gone.tasks) => ~Validates(id)

Stage(r, s) == s \in {Stages(report[r].act)[i] : i \in DOMAIN Stages(report[r].act)} /\ s \notin report[r].failed

(* Controller.Handle applies all the containment it can: of a report that  *)
(* was answered, every stage not reported as failed is in force (no token  *)
(* of the task validates, the guest is frozen or gone until somebody       *)
(* resumes it, a terminated guest is dead), whichever hooks failed before  *)
(* it.  A controller built without a broker and a task launched outside a  *)
(* cgroup are the two exceptions (README, findings).                       *)
ContainmentComplete ==
    \A r \in Reports : report[r].pc = "done" =>
        LET t == report[r].task
        IN  /\ Stage(r, "revoke") /\ cached = "broker" /\ proc = "up" =>
                  \A id \in Minted : token[id].task = t => ~Validates(id)
            /\ Stage(r, "pause") /\ box[t].cg /\ "pause" \notin report[r].undone =>
                  box[t].run \in {"frozen", "dead"}
            /\ Stage(r, "terminate") /\ box[t].cg => box[t].run = "dead"

(* Reports on one task handled at the same time each count: of all the     *)
(* reports one process has taken on a task at most two are answered with   *)
(* less than quarantine (Controller.handled under its lock).               *)
EscalatesOnThird ==
    \A t \in TaskIds :
        Cardinality({r \in Reports : /\ report[r].task = t /\ report[r].pc \in {"walk", "done"}
                                     /\ report[r].act \in Mild}) <= 2
=============================================================================
