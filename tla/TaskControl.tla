---------------------------- MODULE TaskControl ----------------------------
(***************************************************************************)
(* One task and everything that drives it: the AutoPause manager of        *)
(* Lifecycle, the API handlers that take the per-task lock (internal/api), *)
(* the actors that do not (exec activity, incident hooks, watchdog), the   *)
(* launcher that waits for the guest (internal/container), the guest, and  *)
(* a restart of the API server.                                            *)
(***************************************************************************)
EXTENDS Lifecycle

CONSTANTS
    Kinds,        \* what a request may be, a subset of RequestKinds
    AutoResume,   \* lifecycle.auto_resume of the task
    Targets,      \* statuses POST /tasks/:id/transition is called with
    LaunchPath,   \* who waits for the guest: "Boot" or "StartTask"
    GuestMayExit, \* the guest may end on its own
    MaxRestarts   \* bound: restarts of the API server

RequestKinds == {"pause", "deeppause", "resume", "transition", "exec",
                 "freeze", "terminate", "kill"}

ASSUME TaskControlAssumption ==
    /\ Kinds \subseteq RequestKinds
    /\ AutoResume \in BOOLEAN
    /\ Targets \subseteq Status
    /\ LaunchPath \in {"Boot", "StartTask"}
    /\ GuestMayExit \in BOOLEAN
    /\ MaxRestarts \in Nat

VARIABLES
    launcher,  \* the goroutine blocked in Launcher.Wait
    verdict,   \* the state the launcher is about to save
    restarts,  \* restarts so far
    lost,      \* history: a dump ended the guest and the save after it failed
    unthawed   \* history: restored into a frozen cgroup, not thawed since

vars == <<disk, frozen, squeezed, alive, sandbox, gen, epoch, nextGen, lock, faults, th,
          launcher, verdict, restarts, lost, unthawed>>
outside == <<launcher, verdict, restarts>>

Running == [status |-> "running", deep |-> FALSE, balloon |-> FALSE]

\* The task has just been launched: StartTask persisted Running and armed
\* the timer.
Init ==
    /\ disk = Running
    /\ frozen = FALSE
    /\ squeezed = FALSE
    /\ alive = TRUE
    /\ sandbox = IF Pooled THEN "claimed" ELSE "none"
    /\ gen = IF Idle THEN 1 ELSE 0
    /\ epoch = gen
    /\ nextGen = gen
    /\ lock = NoOne
    /\ faults = 0
    /\ th = [a \in Actors |-> NotRunning("idle")]
    /\ launcher = "waiting"
    /\ verdict = Running
    /\ restarts = 0
    /\ lost = FALSE
    /\ unthawed = FALSE

-----------------------------------------------------------------------------
(* Requests that hold the per-task lock from the load to the return. *)

\* taskLock(id), then the handler's LoadState.
Enter(r, kind) == kind \in Kinds /\ At(r, "idle") /\ lock = NoOne

\* POST /tasks/:id/pause, shallow or with ?deep=1
PauseEnter(r) ==
    /\ \/ Enter(r, "pause") /\ GotoWith(r, "pfreeze", disk)
       \/ Enter(r, "deeppause") /\ GotoWith(r, "dload", disk)
    /\ disk.status = "running"
    /\ lock' = r
    /\ UNCHANGED <<disk, host, sandbox, sched, faults>>

PauseRefused(r) ==
    /\ Enter(r, "pause") \/ Enter(r, "deeppause")
    /\ disk.status # "running"
    /\ Finish(r)
    /\ UNCHANGED <<disk, host, sandbox, sched, faults>>

\* A missing cgroup and a failed freeze both end the request.
HandlerFreeze(r) ==
    /\ At(r, "pfreeze")
    /\ \/ HasCgroup /\ Works /\ frozen' = TRUE /\ Goto(r, "pdisarm") /\ UNCHANGED lock
       \/ HasCgroup /\ Fails("freeze") /\ UNCHANGED frozen /\ Finish(r)
       \/ ~HasCgroup /\ Works /\ UNCHANGED frozen /\ Finish(r)
    /\ UNCHANGED <<disk, squeezed, alive, sandbox, sched>>

HandlerDisarm(r) ==
    /\ At(r, "pdisarm")
    /\ Disarm
    /\ IF Accepts(th[r].st, "suspended")
       THEN GotoWith(r, "psave", Transition(th[r].st, "suspended"))
       ELSE Goto(r, "pthaw")
    /\ UNCHANGED <<disk, host, sandbox, lock, faults>>

HandlerSave(r) ==
    /\ At(r, "psave")
    /\ \/ Works /\ disk' = th[r].st /\ Goto(r, "bload")
       \/ Fails("save") /\ UNCHANGED disk /\ Goto(r, "pthaw")
    /\ UNCHANGED <<host, sandbox, sched, lock>>

HandlerThaw(r) ==
    /\ At(r, "pthaw")
    /\ BestEffort("thaw", FALSE)
    /\ Goto(r, "rarm")
    /\ UNCHANGED <<disk, squeezed, alive, sandbox, sched, lock>>

\* POST /tasks/:id/resume; /connect runs the same code.
IsDeepPaused == disk.status = "suspended" /\ disk.deep

ResumeEnter(r) ==
    /\ Enter(r, "resume")
    /\ Goto(r, IF IsDeepPaused THEN "drload" ELSE "rload")
    /\ lock' = r
    /\ UNCHANGED <<disk, host, sandbox, sched, faults>>

\* POST /tasks/:id/transition
TransitionEnter(r) ==
    /\ Enter(r, "transition")
    /\ GotoWith(r, "tbump", disk)
    /\ lock' = r
    /\ UNCHANGED <<disk, host, sandbox, sched, faults>>

bumpIdleTimer(st) == IF st.status = "running" THEN ArmIfIdle ELSE UNCHANGED sched

\* Mutant of TransitionApply: a refused transition keeps the lock.
TransitionApply_KeepsLock(r, to) ==
    /\ At(r, "tbump")
    /\ bumpIdleTimer(th[r].st)
    /\ IF Accepts(th[r].st, to)
       THEN GotoWith(r, "tsave", Transition(th[r].st, to))
       ELSE Return(r)
    /\ UNCHANGED <<disk, host, sandbox, lock, faults>>

TransitionApply(r, to) ==
    /\ At(r, "tbump")
    /\ bumpIdleTimer(th[r].st)
    /\ IF Accepts(th[r].st, to)
       THEN GotoWith(r, "tsave", Transition(th[r].st, to)) /\ UNCHANGED lock
       ELSE Finish(r)
    /\ UNCHANGED <<disk, host, sandbox, faults>>

TransitionSave(r) ==
    /\ At(r, "tsave")
    /\ \/ Works /\ disk' = th[r].st
       \/ Fails("save") /\ UNCHANGED disk
    /\ Finish(r)
    /\ UNCHANGED <<host, sandbox, sched>>

-----------------------------------------------------------------------------
(* Actors that never take the per-task lock. *)

Start(r, kind) == kind \in Kinds /\ At(r, "idle")

\* lifecycleActivity of POST /exec: resume, bump or nothing
ExecActivity(r) ==
    /\ Start(r, "exec")
    /\ \/ /\ disk.status = "suspended" /\ AutoResume
          /\ Goto(r, "rload")
       \/ /\ disk.status = "running"
          /\ GotoWith(r, "xbump", disk)
       \/ /\ disk.status # "running" /\ ~(disk.status = "suspended" /\ AutoResume)
          /\ Return(r)
    /\ UNCHANGED <<disk, host, sandbox, sched, lock, faults>>

ExecBump(r) ==
    /\ At(r, "xbump")
    /\ bumpIdleTimer(th[r].st)
    /\ Return(r)
    /\ UNCHANGED <<disk, host, sandbox, lock, faults>>

\* incident.Hooks.FreezeRuntime: no cgroup means nothing to do
FreezeRuntime(r) ==
    /\ Start(r, "freeze")
    /\ \/ HasCgroup /\ Works /\ frozen' = TRUE /\ Goto(r, "iload")
       \/ HasCgroup /\ Fails("freeze") /\ UNCHANGED frozen /\ Return(r)
       \/ ~HasCgroup /\ Works /\ UNCHANGED frozen /\ Return(r)
    /\ UNCHANGED <<disk, squeezed, alive, sandbox, sched, lock>>

FreezeRuntimeLoad(r) ==
    /\ At(r, "iload")
    /\ IF disk.status = "running"
       THEN GotoWith(r, "isave", Transition(disk, "suspended"))
       ELSE Return(r)
    /\ UNCHANGED <<disk, host, sandbox, sched, lock, faults>>

\* incident.Hooks.Terminate: load, then kill the recorded process if its
\* cgroup shows that it is still the task's
Terminate(r) ==
    /\ Start(r, "terminate")
    /\ GotoWith(r, "ikill", disk)
    /\ UNCHANGED <<disk, host, sandbox, sched, lock, faults>>

TerminateKill(r) ==
    /\ At(r, "ikill")
    /\ \/ /\ Works /\ alive' = (alive /\ ~HasCgroup)
          /\ GotoWith(r, "isave", Transition(th[r].st, "destroy"))
       \/ alive /\ HasCgroup /\ Fails("kill") /\ UNCHANGED alive /\ Return(r)
    /\ UNCHANGED <<disk, frozen, squeezed, sandbox, sched, lock>>

\* killTask of the watchdog: kill (error ignored), then load and save
killTask(r) ==
    /\ Start(r, "kill")
    /\ disk.status \in {"running", "suspended", "ready", "resuming", "pending", "provisioning"}
    /\ \/ Works /\ alive' = FALSE
       \/ alive /\ Fails("kill") /\ UNCHANGED alive
    /\ Goto(r, "kload")
    /\ UNCHANGED <<disk, frozen, squeezed, sandbox, sched, lock>>

killTaskLoad(r) ==
    /\ At(r, "kload")
    /\ GotoWith(r, "isave", Transition(disk, "destroy"))
    /\ UNCHANGED <<disk, host, sandbox, sched, lock, faults>>

\* All three save without looking at the errors of Transition and SaveState.
SaveIgnored(r) ==
    /\ At(r, "isave")
    /\ \/ Works /\ disk' = th[r].st
       \/ Fails("save") /\ UNCHANGED disk
    /\ Return(r)
    /\ UNCHANGED <<host, sandbox, sched, lock>>

-----------------------------------------------------------------------------
(* The guest and the launcher that waits for it. *)

GuestExit ==
    /\ GuestMayExit /\ alive /\ ~frozen
    /\ alive' = FALSE
    /\ UNCHANGED <<disk, frozen, squeezed, sandbox, sched, lock, faults, th, outside>>

\* Mutant of WaitExitLoad: the deep pause is not spared.
WaitExitLoad_NoDeepCheck ==
    /\ LaunchPath = "Boot" /\ launcher = "waiting" /\ ~alive
    /\ launcher' = "save"
    /\ \E s \in {"exited", "stopped"} : verdict' = [disk EXCEPT !.status = s]
    /\ UNCHANGED <<lifecycleVars, restarts>>

\* WaitExit: reload, spare a deep pause, else a status outside the FSM.
WaitExitLoad ==
    /\ LaunchPath = "Boot" /\ launcher = "waiting" /\ ~alive
    /\ IF IsDeepPaused
       THEN launcher' = "gone" /\ UNCHANGED verdict
       ELSE /\ launcher' = "save"
            /\ \E s \in {"exited", "stopped"} : verdict' = [disk EXCEPT !.status = s]
    /\ UNCHANGED <<lifecycleVars, restarts>>

\* StartTask: the verdict is taken on the state it kept since the launch.
StartTaskExit ==
    /\ LaunchPath = "StartTask" /\ launcher = "waiting" /\ ~alive
    /\ launcher' = "save"
    /\ \E s \in {"failed", "review"} : verdict' = Transition(verdict, s)
    /\ UNCHANGED <<lifecycleVars, restarts>>

LauncherSave ==
    /\ launcher = "save"
    /\ \/ Works /\ disk' = verdict
       \/ Fails("save") /\ UNCHANGED disk
    /\ launcher' = IF LaunchPath = "StartTask" THEN "disarm" ELSE "gone"
    /\ UNCHANGED <<host, sandbox, sched, lock, th, verdict, restarts>>

\* The deferred Disarm of StartTask.
LauncherDisarm ==
    /\ launcher = "disarm"
    /\ Disarm
    /\ launcher' = "gone"
    /\ UNCHANGED <<disk, host, sandbox, lock, faults, th, verdict, restarts>>

-----------------------------------------------------------------------------
(* A crash of the API server and its start: every goroutine and timer is   *)
(* gone; rearmAllAutopause arms a persisted Running task again.            *)

Restart ==
    /\ restarts < MaxRestarts
    /\ restarts' = restarts + 1
    /\ gen' = IF Idle /\ disk.status = "running" THEN 1 ELSE 0
    /\ epoch' = gen'
    /\ nextGen' = gen'
    /\ lock' = NoOne
    /\ th' = [a \in Actors |-> NotRunning(IF a \in Gens \/ At(a, "idle") THEN "idle" ELSE "done")]
    /\ launcher' = "gone"
    /\ UNCHANGED <<disk, host, sandbox, faults, verdict>>

-----------------------------------------------------------------------------

HandlerStep(r) ==
    \/ PauseEnter(r) \/ PauseRefused(r) \/ HandlerFreeze(r) \/ HandlerDisarm(r)
    \/ HandlerSave(r) \/ HandlerThaw(r)
    \/ ResumeEnter(r)
    \/ TransitionEnter(r) \/ (\E to \in Targets : TransitionApply(r, to)) \/ TransitionSave(r)
    \/ ExecActivity(r) \/ ExecBump(r)
    \/ FreezeRuntime(r) \/ FreezeRuntimeLoad(r)
    \/ Terminate(r) \/ TerminateKill(r)
    \/ killTask(r) \/ killTaskLoad(r) \/ SaveIgnored(r)

Environment ==
    GuestExit \/ WaitExitLoad \/ StartTaskExit \/ LauncherSave \/ LauncherDisarm \/ Restart

Step ==
    \/ \E g \in Gens : CallbackStep(g) /\ UNCHANGED outside
    \/ \E a \in Actors : ManagerStep(a) /\ UNCHANGED outside
    \/ \E r \in Requests : HandlerStep(r) /\ UNCHANGED outside
    \/ Environment

\* What DeepPause and DeepResume do not put right.
LosesGuest == \E a \in Actors : At(a, "dsave") /\ th'[a].pc = "dthaw" /\ ~alive
LeavesFrozen == \E a \in Actors : At(a, "restore") /\ th'[a].pc = "drsave" /\ frozen

Remember ==
    /\ lost' = (lost \/ LosesGuest)
    /\ unthawed' = (frozen' /\ (unthawed \/ LeavesFrozen))

Next == Step /\ Remember

Spec == Init /\ [][Next]_vars

\* Go runs every runnable goroutine and fires every timer; a lock that is
\* free is eventually taken.  Requests arrive only if they please.
Fairness ==
    /\ \A g \in Gens :
          WF_vars((CallbackStep(g) \/ ManagerStep(g)) /\ UNCHANGED outside /\ Remember)
    /\ \A r \in Requests :
          WF_vars(((~At(r, "idle") /\ HandlerStep(r)) \/ ManagerStep(r)) /\ UNCHANGED outside /\ Remember)

-----------------------------------------------------------------------------
(* Properties. *)

\* Every variable has its type: state.json always holds a status of the FSM
\* and the schedule names a generation that was stamped.
TypeOK ==
    /\ ManagerTypeOK
    /\ launcher \in {"waiting", "save", "disarm", "gone"}
    /\ verdict \in ContainerState
    /\ restarts \in 0 .. MaxRestarts
    /\ lost \in BOOLEAN /\ unthawed \in BOOLEAN

\* A callback that won the generation check of pause() and has not returned.
Pausing(g) == th[g].pc \notin {"idle", "claim", "done"}

\* Of the callbacks that are past the claim, at most one may still commit or
\* retry (its captured epoch is the current one), and while there is one no
\* other schedule is live: what "a concurrent Arm cannot double-fire" and
\* rearmRetry's check rest on (autopause.go, pause).
SingleCurrentPause ==
    \A g \in Gens : Pausing(g) /\ epochCurrent(g) =>
        /\ gen = 0
        /\ \A h \in Gens : Pausing(h) /\ epochCurrent(h) => h = g

\* A retry never replaces a schedule that someone else made, and never brings
\* one back after a Disarm or Arm that came after the callback's claim
\* (autopause.go, rearmRetry: "do not touch it").
RetryNeverClobbers ==
    [][\A g \in Gens : At(g, "retry") /\ th'[g].pc = "done" /\ gen' # gen =>
          gen = 0 /\ \A h \in Gens : Pausing(h) /\ h # g => th[h].ep < th[g].ep]_vars

\* No goroutine is in the middle of something and the launcher has recorded
\* the death of the guest.  Armed timers may be live.
Quiet == /\ \A a \in Actors : th[a].pc \in {"idle", "done"}
         /\ launcher \in {"waiting", "gone"}
         /\ launcher = "waiting" => alive

\* When everything has settled, a Running task with a guest and an idle
\* timeout has a live schedule: autopause never goes "permanently silent"
\* (autopause.go).
RunningIsWatched == Quiet /\ Idle /\ alive /\ disk.status = "running" => gen # 0

\* When everything has settled, the guest of a Suspended task is frozen: "the
\* persisted Suspended + frozen runtime pair stays consistent" (autopause.go,
\* Resume).
SuspendedIsFrozen == Quiet /\ HasCgroup /\ alive /\ disk.status = "suspended" => frozen

\* When everything has settled, a task that runs is charged for its memory
\* and not squeezed: "not thawed-but-unaccounted", "must not revive squeezed
\* into an OOM" (autopause.go, Resume).
RunningIsCharged ==
    Quiet /\ disk.status = "running" => sandbox # "paused" /\ ~squeezed

\* A lowered memory.max is always undone by the next resume: the marker that
\* tells Resume so is on disk (balloon.go, BalloonPause).
SqueezeIsMarked ==
    Quiet /\ squeezed /\ disk.status = "suspended" => disk.balloon

\* WaitExit loaded the state before the deep pause was on disk: what it is about
\* to save carries no deep mode.
LoadedBeforeDeep == LaunchPath = "Boot" /\ launcher = "save" /\ ~verdict.deep

\* The end of the guest that DeepPause causes is never recorded over the deep
\* pause by a launcher that could have seen it: "the paused task survives until
\* DeepResume or an explicit delete" (deeppause.go).  Only a WaitExit that woke up
\* and loaded the state before the save of the deep pause overwrites it.
DeepPauseSurvives ==
    [][disk.status = "suspended" /\ disk.deep =>
          \/ disk'.status \in {"suspended", "resuming", "running"}
          \/ LoadedBeforeDeep]_vars

\* When everything has settled the task is not stuck in Resuming, which no
\* resume path accepts, unless it is a deep pause whose restore failed
\* (autopause.go, Resume: the rollback to Suspended is saved).
NotStuckResuming == Quiet /\ disk.status = "resuming" => disk.deep

\* Once the finitely many requests, failures and restarts are over, an idle
\* task whose guest lives is suspended and stays so: a failed freeze or save is
\* retried "instead of going permanently silent" (autopause.go, pause).
EventuallyPaused == <>[](alive => disk.status # "running")

\* A handler that took the per-task lock gives it back, on every error path
\* (e2b_server.go, taskLock and its deferred release).
LockReleased == lock # NoOne ~> lock = NoOne

\* When everything has settled, a Running task has a guest process: a deep
\* pause is revived "through criu, not a cgroup thaw" (e2b_server.go, resume).
\* The exception is a deep pause whose save failed after the dump had ended the
\* guest, when no launcher is left to record the end (deeppause.go).
RunningIsAlive == Quiet /\ disk.status = "running" => alive \/ lost

\* When everything has settled, a Running task is not frozen: "frozen while on
\* disk it is still Running ... never self-heals" (autopause.go, commitPause).
\* The exception is a deep resume, which restores the guest into the cgroup
\* that its deep pause froze, until something else thaws it (deeppause.go).
RunningIsThawed == Quiet /\ disk.status = "running" => ~frozen \/ unthawed

\* Every compensation path of the handlers ends with the runtime, the quota,
\* the balloon, the guest and the persisted status in step
\* (autopause.go Resume, balloon.go, deeppause.go, e2b_server.go).
Compensated ==
    RunningIsCharged /\ SqueezeIsMarked /\ SuspendedIsFrozen
    /\ NotStuckResuming /\ RunningIsAlive /\ RunningIsThawed
=============================================================================
