----------------------------- MODULE Lifecycle -----------------------------
(***************************************************************************)
(* internal/lifecycle: the AutoPause manager for ONE task (the manager's   *)
(* maps are keyed by task and tasks share nothing but the mutex).          *)
(*                                                                         *)
(* Every goroutine that works on the task is an actor: a timer callback is *)
(* named by the generation Arm stamped on it, a request by a member of     *)
(* Requests.  An actor holds a program counter, its private copy of the    *)
(* persisted state (LoadState returns a fresh object each time) and the    *)
(* cancel epoch it captured.  One step is one effect another goroutine can *)
(* observe: a file read or write, a cgroup write, a section under m.mu.    *)
(***************************************************************************)
EXTENDS Naturals, TaskState

CONSTANTS
    MaxGen,     \* bound: timer generations ever stamped
    MaxFaults,  \* bound: injected failures of the operations in Faulty
    Requests,   \* request goroutines (API handlers, incident hooks, watchdog)
    Faulty,     \* operations that may fail, a subset of FaultyOps
    HasCgroup,  \* the task has a cgroup (FALSE: unprivileged hosts, tests)
    Idle,       \* the task has a positive idle_timeout
    DeepTask,   \* lifecycle.deep_pause of the task's spec
    HasCRIU,    \* a criu binary is installed
    Pooled,     \* the task was claimed from the warm pool
    SlowTimers, \* an idle timeout outlasts the work of one callback
    NoOne       \* the task lock is free

FaultyOps == {"freeze", "thaw", "save", "mem", "pool", "quota", "dump", "kill", "restore"}

ASSUME LifecycleAssumption ==
    /\ MaxGen \in Nat \ {0}
    /\ MaxFaults \in Nat
    /\ Faulty \subseteq FaultyOps
    /\ HasCgroup \in BOOLEAN /\ Idle \in BOOLEAN /\ DeepTask \in BOOLEAN
    /\ HasCRIU \in BOOLEAN /\ Pooled \in BOOLEAN /\ SlowTimers \in BOOLEAN
    /\ Requests \cap Nat = {}
    /\ NoOne \notin Requests

Gens == 1 .. MaxGen
Actors == Gens \cup Requests

VARIABLES
    disk,      \* state.json
    frozen,    \* cgroup.freeze
    squeezed,  \* memory.max is lowered to the usage at the pause
    alive,     \* the guest process exists
    sandbox,   \* the pool's view of the task's sandbox
    gen,       \* gens[taskID], 0 when there is no live schedule
    epoch,     \* epochs[taskID]
    nextGen,   \* the generation last stamped
    lock,      \* holder of the API server's per-task lock
    faults,    \* failures injected so far
    th         \* the actors

host  == <<frozen, squeezed, alive>>
sched == <<gen, epoch, nextGen>>
lifecycleVars == <<disk, frozen, squeezed, alive, sandbox, gen, epoch, nextGen,
                   lock, faults, th>>

SandboxStates == {"none", "claimed", "paused"}

\* Where an actor can be; the last group are the API handlers' own steps.
PCs == {"idle", "claim", "load", "freeze", "retry", "check1", "save", "abort", "check2",
        "rollback", "thaw", "bload", "bset", "bsave", "bundo", "release",
        "rload", "rquota", "rball", "rthaw", "rsave1", "rsave2", "rsave3", "refreeze", "rarm",
        "dload", "dfreeze", "ddump", "dsave", "dkill", "drollback", "dthaw", "disarm",
        "drload", "drquota", "restore", "drrelease", "drsave", "done",
        "pfreeze", "pdisarm", "psave", "pthaw", "tbump", "tsave", "xbump",
        "iload", "ikill", "isave", "kload"}

Thread == [pc: PCs, st: ContainerState, dst: ContainerState, ep: Nat]

HostTypeOK == frozen \in BOOLEAN /\ squeezed \in BOOLEAN /\ alive \in BOOLEAN

ActorTypeOK ==
    /\ disk \in ContainerState
    /\ sandbox \in SandboxStates
    /\ gen \in 0 .. nextGen
    /\ epoch \in Nat
    /\ nextGen \in 0 .. MaxGen
    /\ lock \in Requests \cup {NoOne}
    /\ faults \in 0 .. MaxFaults
    /\ th \in [Actors -> Thread]

ManagerTypeOK == HostTypeOK /\ ActorTypeOK

-----------------------------------------------------------------------------
(* Actors. *)

At(a, label) == th[a].pc = label
Goto(a, label) == th' = [th EXCEPT ![a].pc = label]
GotoWith(a, label, st) == th' = [th EXCEPT ![a].pc = label, ![a].st = st]
GotoDeep(a, label, st) == th' = [th EXCEPT ![a].pc = label, ![a].dst = st]

\* A goroutine that is not running; what it held in memory is gone.
Blank == [status |-> "pending", deep |-> FALSE, balloon |-> FALSE]
NotRunning(label) == [pc |-> label, st |-> Blank, dst |-> Blank, ep |-> 0]

Return(a) == th' = [th EXCEPT ![a] = NotRunning("done")]

\* The goroutine returns; an API handler's deferred release frees the lock.
Finish(a) == /\ Return(a)
             /\ lock' = IF lock = a THEN NoOne ELSE lock

Works == UNCHANGED faults
Fails(op) == /\ op \in Faulty
             /\ faults < MaxFaults
             /\ faults' = faults + 1

\* A best-effort write of the freezer file: errors are ignored.
BestEffort(op, v) == \/ Works /\ frozen' = (v /\ HasCgroup)
                     \/ Fails(op) /\ UNCHANGED frozen

-----------------------------------------------------------------------------
(* The schedule: armLocked, Disarm, rearmRetry. *)

\* Mutants of armLocked: the epoch is not bumped; the counter is not stored.
armLocked_NoEpochBump == /\ nextGen < MaxGen
                         /\ nextGen' = nextGen + 1
                         /\ gen' = nextGen + 1
                         /\ UNCHANGED epoch

armLocked_CounterNotStored == /\ nextGen < MaxGen
                              /\ epoch' = epoch + 1
                              /\ gen' = nextGen + 1
                              /\ UNCHANGED nextGen

armLocked == /\ nextGen < MaxGen
             /\ epoch' = epoch + 1
             /\ nextGen' = nextGen + 1
             /\ gen' = nextGen + 1

ArmIfIdle == IF Idle THEN armLocked ELSE UNCHANGED sched

Disarm == /\ epoch' = epoch + 1
          /\ gen' = 0
          /\ UNCHANGED nextGen

epochCurrent(a) == th[a].ep = epoch

\* The AfterFunc timer of the live schedule fires: its goroutine starts.
Fire(g) == /\ gen = g
           /\ At(g, "idle")
           /\ SlowTimers => \A h \in Gens : th[h].pc \in {"idle", "done"}
           /\ Goto(g, "claim")
           /\ UNCHANGED <<disk, host, sandbox, sched, lock, faults>>

\* Mutant of rearmRetry: it ignores the epoch.
rearmRetry_IgnoresEpoch(g) == /\ At(g, "retry")
                              /\ armLocked
                              /\ Return(g)
                              /\ UNCHANGED <<disk, host, sandbox, lock, faults>>

rearmRetry(g) == /\ At(g, "retry")
                 /\ IF epochCurrent(g) THEN armLocked ELSE UNCHANGED sched
                 /\ Return(g)
                 /\ UNCHANGED <<disk, host, sandbox, lock, faults>>

-----------------------------------------------------------------------------
(* pause(taskID, gen), commitPause and abortPause: the timer callback. *)

PauseClaim(g) ==
    /\ At(g, "claim")
    /\ IF gen = g
       THEN /\ th' = [th EXCEPT ![g].pc = "load", ![g].ep = epoch]
            /\ gen' = 0
       ELSE Return(g) /\ UNCHANGED gen
    /\ UNCHANGED <<disk, host, sandbox, epoch, nextGen, lock, faults>>

PauseLoad(g) ==
    /\ At(g, "load")
    /\ IF disk.status = "running"
       THEN GotoWith(g, IF DeepTask THEN "dload" ELSE "freeze", disk)
       ELSE Return(g)
    /\ UNCHANGED <<disk, host, sandbox, sched, lock, faults>>

\* Mutant of PauseFreeze: a failed freeze is not retried.
PauseFreeze_NoRetry(g) ==
    /\ At(g, "freeze")
    /\ \/ Works /\ frozen' = HasCgroup /\ Goto(g, "check1")
       \/ HasCgroup /\ Fails("freeze") /\ UNCHANGED frozen /\ Return(g)
    /\ UNCHANGED <<disk, squeezed, alive, sandbox, sched, lock>>

PauseFreeze(g) ==
    /\ At(g, "freeze")
    /\ \/ Works /\ frozen' = HasCgroup /\ Goto(g, "check1")
       \/ HasCgroup /\ Fails("freeze") /\ UNCHANGED frozen /\ Goto(g, "retry")
    /\ UNCHANGED <<disk, squeezed, alive, sandbox, sched, lock>>

\* Mutant of PauseCheck1: a cancelled callback returns without the thaw.
PauseCheck1_NoThaw(g) ==
    /\ At(g, "check1")
    /\ IF epochCurrent(g)
       THEN IF Accepts(th[g].st, "suspended")
            THEN GotoWith(g, "save", Transition(th[g].st, "suspended"))
            ELSE Goto(g, "abort")
       ELSE Return(g)
    /\ UNCHANGED <<disk, host, sandbox, sched, lock, faults>>

\* First epoch check of commitPause, and the in-memory transition.
PauseCheck1(g) ==
    /\ At(g, "check1")
    /\ IF epochCurrent(g)
       THEN IF Accepts(th[g].st, "suspended")
            THEN GotoWith(g, "save", Transition(th[g].st, "suspended"))
            ELSE Goto(g, "abort")
       ELSE Goto(g, "thaw")
    /\ UNCHANGED <<disk, host, sandbox, sched, lock, faults>>

PauseSave(g) ==
    /\ At(g, "save")
    /\ \/ Works /\ disk' = th[g].st /\ Goto(g, "check2")
       \/ Fails("save") /\ UNCHANGED disk /\ Goto(g, "abort")
    /\ UNCHANGED <<host, sandbox, sched, lock>>

abortPause(g) ==
    /\ At(g, "abort")
    /\ BestEffort("thaw", FALSE)
    /\ Goto(g, "retry")
    /\ UNCHANGED <<disk, squeezed, alive, sandbox, sched, lock>>

\* Second epoch check, after the persist.
PauseCheck2(g) ==
    /\ At(g, "check2")
    /\ IF epochCurrent(g)
       THEN Goto(g, "bload")
       ELSE GotoWith(g, "rollback",
                     Transition(Transition(th[g].st, "resuming"), "running"))
    /\ UNCHANGED <<disk, host, sandbox, sched, lock, faults>>

PauseRollback(g) ==
    /\ At(g, "rollback")
    /\ \/ Works /\ disk' = th[g].st
       \/ Fails("save") /\ UNCHANGED disk
    /\ Goto(g, "thaw")
    /\ UNCHANGED <<host, sandbox, sched, lock>>

PauseThaw(g) ==
    /\ At(g, "thaw")
    /\ BestEffort("thaw", FALSE)
    /\ Return(g)
    /\ UNCHANGED <<disk, squeezed, alive, sandbox, sched, lock>>

-----------------------------------------------------------------------------
(* BalloonPause, then releaseQuota: the tail of every committed pause. *)

BalloonLoad(a) ==
    /\ At(a, "bload")
    /\ \/ /\ disk.status = "suspended" /\ ~disk.balloon /\ HasCgroup
          /\ \/ Works /\ GotoWith(a, "bset", disk)
             \/ Fails("mem") /\ Goto(a, "release")
       \/ /\ ~(disk.status = "suspended" /\ ~disk.balloon /\ HasCgroup)
          /\ Works /\ Goto(a, "release")
    /\ UNCHANGED <<disk, host, sandbox, sched, lock>>

BalloonSet(a) ==
    /\ At(a, "bset")
    /\ \/ /\ Works /\ squeezed' = TRUE
          /\ GotoWith(a, "bsave", MarkBalloon(th[a].st))
       \/ Fails("mem") /\ UNCHANGED squeezed /\ Goto(a, "release")
    /\ UNCHANGED <<disk, frozen, alive, sandbox, sched, lock>>

\* Mutant of BalloonSave: an unrecorded squeeze is not undone.
BalloonSave_NoUndo(a) ==
    /\ At(a, "bsave")
    /\ \/ Works /\ disk' = th[a].st
       \/ Fails("save") /\ UNCHANGED disk
    /\ Goto(a, "release")
    /\ UNCHANGED <<host, sandbox, sched, lock>>

BalloonSave(a) ==
    /\ At(a, "bsave")
    /\ \/ Works /\ disk' = th[a].st /\ Goto(a, "release")
       \/ Fails("save") /\ UNCHANGED disk /\ Goto(a, "bundo")
    /\ UNCHANGED <<host, sandbox, sched, lock>>

BalloonUndo(a) ==
    /\ At(a, "bundo")
    /\ \/ Works /\ squeezed' = FALSE
       \/ Fails("mem") /\ UNCHANGED squeezed
    /\ Goto(a, "release")
    /\ UNCHANGED <<disk, frozen, alive, sandbox, sched, lock>>

\* SuspendByTask through the pool; the pool rolls back a failed persist.
SuspendByTask == \/ Works /\ sandbox' = IF sandbox = "claimed" THEN "paused" ELSE sandbox
                 \/ sandbox = "claimed" /\ Fails("pool") /\ UNCHANGED sandbox

releaseQuota(a) ==
    /\ At(a, "release")
    /\ SuspendByTask
    /\ Finish(a)
    /\ UNCHANGED <<disk, host, sched>>

\* ResumeByTask: a no-op for a task that is not pooled; a sandbox that is
\* not paused is ErrBadState; otherwise the quota check may refuse.
reserveQuota(a, from, onward) ==
    /\ At(a, from)
    /\ \/ sandbox = "none" /\ Works /\ UNCHANGED <<sandbox, lock>> /\ onward
       \/ sandbox = "paused" /\ Works /\ sandbox' = "claimed" /\ UNCHANGED lock /\ onward
       \/ sandbox = "paused" /\ Fails("quota") /\ UNCHANGED sandbox /\ Finish(a)
       \/ sandbox = "claimed" /\ Works /\ UNCHANGED sandbox /\ Finish(a)
    /\ UNCHANGED <<disk, host, sched>>

-----------------------------------------------------------------------------
(* Resume: Suspended -> Resuming -> Running with compensation. *)

ResumeLoad(a) ==
    /\ At(a, "rload")
    /\ IF disk.status = "suspended"
       THEN GotoWith(a, "rquota", disk) /\ UNCHANGED lock
       ELSE Finish(a)
    /\ UNCHANGED <<disk, host, sandbox, sched, faults>>

ResumeReserve(a) == reserveQuota(a, "rquota", Goto(a, "rball"))

\* RestorePauseBalloon: the marker is cleared even when the write fails.
RestorePauseBalloon(a) ==
    /\ At(a, "rball")
    /\ \/ Works /\ squeezed' = (squeezed /\ ~th[a].st.balloon)
       \/ th[a].st.balloon /\ Fails("mem") /\ UNCHANGED squeezed
    /\ GotoWith(a, "rthaw", ClearBalloon(th[a].st))
    /\ UNCHANGED <<disk, frozen, alive, sandbox, sched, lock>>

ResumeThaw(a) ==
    /\ At(a, "rthaw")
    /\ \/ /\ Works /\ frozen' = FALSE
          /\ GotoWith(a, "rsave1", Transition(th[a].st, "resuming"))
       \/ HasCgroup /\ Fails("thaw") /\ UNCHANGED frozen /\ Goto(a, "release")
    /\ UNCHANGED <<disk, squeezed, alive, sandbox, sched, lock>>

ResumeSaveResuming(a) ==
    /\ At(a, "rsave1")
    /\ \/ Works /\ disk' = th[a].st /\ GotoWith(a, "rsave2", Transition(th[a].st, "running"))
       \/ Fails("save") /\ UNCHANGED disk /\ Goto(a, "refreeze")
    /\ UNCHANGED <<host, sandbox, sched, lock>>

ResumeSaveRunning(a) ==
    /\ At(a, "rsave2")
    /\ \/ Works /\ disk' = th[a].st /\ Goto(a, "rarm")
       \/ /\ Fails("save") /\ UNCHANGED disk
          /\ GotoWith(a, "rsave3", Transition(th[a].st, "suspended"))
    /\ UNCHANGED <<host, sandbox, sched, lock>>

ResumeRollback(a) ==
    /\ At(a, "rsave3")
    /\ \/ Works /\ disk' = th[a].st
       \/ Fails("save") /\ UNCHANGED disk
    /\ Goto(a, "refreeze")
    /\ UNCHANGED <<host, sandbox, sched, lock>>

refreezeBestEffort(a) ==
    /\ At(a, "refreeze")
    /\ BestEffort("freeze", TRUE)
    /\ Goto(a, "release")
    /\ UNCHANGED <<disk, squeezed, alive, sandbox, sched, lock>>

ResumeArm(a) ==
    /\ At(a, "rarm")
    /\ ArmIfIdle
    /\ Finish(a)
    /\ UNCHANGED <<disk, host, sandbox, faults>>

-----------------------------------------------------------------------------
(* DeepPause: checkpoint, persist Suspended+deep, then kill. *)

\* The callback falls back to the shallow freeze; a handler answers 409.
DeepError(a) == IF a \in Gens THEN Goto(a, "freeze") /\ UNCHANGED lock ELSE Finish(a)

\* Includes the PID identity check: a dead guest's pid is refused.
DeepLoad(a) ==
    /\ At(a, "dload")
    /\ IF disk.status = "running" /\ HasCRIU /\ alive
       THEN GotoDeep(a, "dfreeze", MarkDeep(disk)) /\ UNCHANGED lock
       ELSE DeepError(a)
    /\ UNCHANGED <<disk, host, sandbox, sched, faults>>

DeepFreeze(a) ==
    /\ At(a, "dfreeze")
    /\ \/ Works /\ frozen' = HasCgroup /\ Goto(a, "ddump") /\ UNCHANGED lock
       \/ HasCgroup /\ Fails("freeze") /\ UNCHANGED frozen /\ DeepError(a)
    /\ UNCHANGED <<disk, squeezed, alive, sandbox, sched>>

\* A dump without --leave-running ends the tree it has written, so the guest
\* is gone before the deep pause is on disk.  A tree that outlives its dump is
\* what the kill and its rollback are for.
DeepDump(a) ==
    /\ At(a, "ddump")
    /\ \/ /\ Works /\ (alive' = FALSE \/ UNCHANGED alive)
          /\ GotoDeep(a, "dsave", Transition(th[a].dst, "suspended"))
       \/ Fails("dump") /\ UNCHANGED alive /\ Goto(a, "dthaw")
    /\ UNCHANGED <<disk, frozen, squeezed, sandbox, sched, lock>>

DeepSave(a) ==
    /\ At(a, "dsave")
    /\ \/ Works /\ disk' = th[a].dst /\ Goto(a, "dkill")
       \/ Fails("save") /\ UNCHANGED disk /\ Goto(a, "dthaw")
    /\ UNCHANGED <<host, sandbox, sched, lock>>

\* SIGKILL, retried once; ESRCH counts as success.
DeepKill(a) ==
    /\ At(a, "dkill")
    /\ \/ Works /\ alive' = FALSE /\ Goto(a, "disarm")
       \/ /\ alive /\ Fails("kill") /\ UNCHANGED alive
          /\ GotoDeep(a, "drollback",
                      Transition(Transition(ClearDeep(th[a].dst), "resuming"), "running"))
    /\ UNCHANGED <<disk, frozen, squeezed, sandbox, sched, lock>>

\* Only a persisted rollback thaws.
DeepRollback(a) ==
    /\ At(a, "drollback")
    /\ \/ Works /\ disk' = th[a].dst /\ Goto(a, "dthaw") /\ UNCHANGED lock
       \/ Fails("save") /\ UNCHANGED disk /\ DeepError(a)
    /\ UNCHANGED <<host, sandbox, sched>>

DeepThaw(a) ==
    /\ At(a, "dthaw")
    /\ BestEffort("thaw", FALSE)
    /\ DeepError(a)
    /\ UNCHANGED <<disk, squeezed, alive, sandbox, sched>>

DeepDisarm(a) ==
    /\ At(a, "disarm")
    /\ Disarm
    /\ Goto(a, "release")
    /\ UNCHANGED <<disk, host, sandbox, lock, faults>>

-----------------------------------------------------------------------------
(* DeepResume: criu restore.  The images outlive every step, so the stat   *)
(* of pause_memory succeeds.                                               *)

DeepResumeLoad(a) ==
    /\ At(a, "drload")
    /\ IF disk.status = "suspended" /\ disk.deep
       THEN GotoWith(a, "drquota", disk) /\ UNCHANGED lock
       ELSE Finish(a)
    /\ UNCHANGED <<disk, host, sandbox, sched, faults>>

DeepResumeReserve(a) ==
    reserveQuota(a, "drquota", GotoWith(a, "restore", Transition(th[a].st, "resuming")))

\* criu restores the recorded pids: it cannot while they are in use.  Nothing
\* thaws the cgroup that DeepPause froze.
DeepRestore(a) ==
    /\ At(a, "restore")
    /\ \/ /\ ~alive /\ Works /\ alive' = TRUE
          /\ GotoWith(a, "drsave", Transition(ClearDeep(th[a].st), "running"))
       \/ /\ Fails("restore") \/ (alive /\ Works)
          /\ UNCHANGED alive /\ Goto(a, "drrelease")
    /\ UNCHANGED <<disk, frozen, squeezed, sandbox, sched, lock>>

\* The failed restore releases the quota, asks the FSM for Suspended
\* (ignoring its answer) and saves whatever status results.
DeepRestoreFailed(a) ==
    /\ At(a, "drrelease")
    /\ SuspendByTask
    /\ GotoWith(a, "drsave", Transition(th[a].st, "suspended"))
    /\ UNCHANGED <<disk, host, sched, lock>>

DeepResumeSave(a) ==
    /\ At(a, "drsave")
    /\ \/ Works /\ disk' = th[a].st
       \/ Fails("save") /\ UNCHANGED disk
    /\ Finish(a)
    /\ UNCHANGED <<host, sandbox, sched>>

-----------------------------------------------------------------------------

CallbackStep(g) ==
    \/ Fire(g) \/ PauseClaim(g) \/ PauseLoad(g) \/ PauseFreeze(g) \/ PauseCheck1(g)
    \/ PauseSave(g) \/ abortPause(g) \/ PauseCheck2(g) \/ PauseRollback(g)
    \/ PauseThaw(g) \/ rearmRetry(g)

ManagerStep(a) ==
    \/ BalloonLoad(a) \/ BalloonSet(a) \/ BalloonSave(a) \/ BalloonUndo(a) \/ releaseQuota(a)
    \/ ResumeLoad(a) \/ ResumeReserve(a) \/ RestorePauseBalloon(a) \/ ResumeThaw(a)
    \/ ResumeSaveResuming(a) \/ ResumeSaveRunning(a) \/ ResumeRollback(a)
    \/ refreezeBestEffort(a) \/ ResumeArm(a)
    \/ DeepLoad(a) \/ DeepFreeze(a) \/ DeepDump(a) \/ DeepSave(a) \/ DeepKill(a)
    \/ DeepRollback(a) \/ DeepThaw(a) \/ DeepDisarm(a)
    \/ DeepResumeLoad(a) \/ DeepResumeReserve(a) \/ DeepRestore(a)
    \/ DeepRestoreFailed(a) \/ DeepResumeSave(a)
=============================================================================
