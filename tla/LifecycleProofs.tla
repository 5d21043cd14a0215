-------------------------- MODULE LifecycleProofs --------------------------
(***************************************************************************)
(* Proofs about TaskControl, for every value of its constants: type        *)
(* correctness, and the licence argument of the cancel epochs.  EpochInv   *)
(* is the inductive strengthening: a captured epoch is never ahead of the  *)
(* current one, and equality with it means that no schedule is live and    *)
(* that no other callback shares it.                                       *)
(*                                                                         *)
(* Then, for a task that only the handlers of pause and resume drive, what *)
(* each of their steps finds and leaves behind (HInv): the per-task lock   *)
(* keeps them apart, and every error path compensates what came before.    *)
(*                                                                         *)
(* Last, for a task with an idle timer (WInv): whenever it is Running      *)
(* without a live schedule, some goroutine is on its way to arm one or to  *)
(* write another status.                                                   *)
(***************************************************************************)
EXTENDS TaskControl, TLAPS

EpochInv ==
    /\ \A g \in Gens : Pausing(g) => th[g].ep <= epoch
    /\ SingleCurrentPause

\* What a step of actor a other than a claim does to the callbacks and the
\* schedule: it moves no one else, gives no callback a new epoch, and either
\* leaves the schedule alone or bumps the epoch; a retry bumps it only when
\* the callback's epoch is current.
Moves(a) ==
    /\ \A b \in Actors \ {a} : th'[b] = th[b]
    /\ a \in Gens => (Pausing(a)' => Pausing(a) /\ th'[a].ep = th[a].ep)
Benign(a) ==
    /\ Moves(a)
    /\ UNCHANGED sched \/ epoch' = epoch + 1
    /\ At(a, "retry") => UNCHANGED sched \/ epochCurrent(a)

-----------------------------------------------------------------------------
(* Typing of the building blocks. *)

\* Transition keeps the metadata and yields a status of the FSM
\* (state/manager.go, Transition).
LEMMA TransitionType ==
    ASSUME NEW st \in ContainerState, NEW to \in Status
    PROVE  Transition(st, to) \in ContainerState
BY DEF Transition, ContainerState

\* The metadata updates of the pause paths keep the state well-typed
\* (deeppause.go, balloon.go).
LEMMA MetadataType ==
    ASSUME NEW st \in ContainerState
    PROVE  /\ MarkDeep(st) \in ContainerState
           /\ ClearDeep(st) \in ContainerState
           /\ MarkBalloon(st) \in ContainerState
           /\ ClearBalloon(st) \in ContainerState
BY DEF ContainerState, MarkDeep, ClearDeep, MarkBalloon, ClearBalloon

\* A goroutine that is not running is a thread.
LEMMA NotRunningType ==
    /\ NotRunning("idle") \in Thread
    /\ NotRunning("done") \in Thread
<1>1. Blank \in ContainerState
  BY DEF Blank, ContainerState, Status
<1> QED
  BY <1>1 DEF NotRunning, Thread, PCs

\* The three ways an actor's record changes keep it a thread.
LEMMA GotoType ==
    ASSUME th \in [Actors -> Thread], NEW a \in Actors, NEW label \in PCs,
           NEW st \in ContainerState
    PROVE  /\ Goto(a, label) => th' \in [Actors -> Thread]
           /\ GotoWith(a, label, st) => th' \in [Actors -> Thread]
           /\ GotoDeep(a, label, st) => th' \in [Actors -> Thread]
           /\ Return(a) => th' \in [Actors -> Thread]
BY NotRunningType DEF Goto, GotoWith, GotoDeep, Return, Thread

\* ... and, for an actor that is not a callback before its claim, keep the
\* epoch it captured.
LEMMA GotoMoves ==
    ASSUME th \in [Actors -> Thread], NEW a \in Actors, NEW label \in PCs,
           NEW st \in ContainerState, a \in Gens => Pausing(a)
    PROVE  /\ Goto(a, label) => Moves(a)
           /\ GotoWith(a, label, st) => Moves(a)
           /\ GotoDeep(a, label, st) => Moves(a)
           /\ Return(a) => Moves(a)
BY DEF Goto, GotoWith, GotoDeep, Return, Thread, Moves, Pausing, NotRunning

\* A request is not a timer generation.
LEMMA RequestsAreNotGens ==
    Requests \cap Gens = {} /\ Requests \subseteq Actors /\ Gens \subseteq Actors
BY LifecycleAssumption DEF Gens, Actors

-----------------------------------------------------------------------------
(* Every step, one actor at a time. *)

\* Every step of Resume, DeepPause, DeepResume and the pause tail is typed and
\* benign, whoever takes it.
LEMMA ManagerStepBenign ==
    ASSUME ManagerTypeOK, NEW a \in Actors, ManagerStep(a)
    PROVE  ManagerTypeOK' /\ Benign(a)
<1> USE LifecycleAssumption
<1>1. /\ a \in Actors /\ th[a] \in Thread
      /\ th \in [Actors -> Thread] /\ th[a].st \in ContainerState
      /\ th[a].dst \in ContainerState /\ disk \in ContainerState
      /\ HostTypeOK /\ ActorTypeOK
  BY RequestsAreNotGens DEF ManagerTypeOK, ActorTypeOK, Thread
<1>2. ASSUME BalloonLoad(a) PROVE ManagerTypeOK' /\ Benign(a)
  <2>1. HostTypeOK'
    BY <1>1, <1>2
       DEF BalloonLoad, host, ManagerTypeOK, HostTypeOK
  <2>2. ActorTypeOK' /\ Benign(a)
    BY <1>1, <1>2, GotoType, GotoMoves
       DEF BalloonLoad, Fails, sched, Works, ActorTypeOK, SandboxStates, Benign, At,
           Pausing, PCs, Status
  <2> QED BY <2>1, <2>2 DEF ManagerTypeOK
<1>3. ASSUME BalloonSet(a) PROVE ManagerTypeOK' /\ Benign(a)
  <2>1. HostTypeOK'
    BY <1>1, <1>3
       DEF BalloonSet, ManagerTypeOK, HostTypeOK
  <2>2. ActorTypeOK' /\ Benign(a)
    BY <1>1, <1>3, GotoType, GotoMoves, MetadataType
       DEF BalloonSet, Fails, sched, Works, ActorTypeOK, SandboxStates, Benign, At,
           Pausing, PCs, Status
  <2> QED BY <2>1, <2>2 DEF ManagerTypeOK
<1>4. ASSUME BalloonSave(a) PROVE ManagerTypeOK' /\ Benign(a)
  <2>1. HostTypeOK'
    BY <1>1, <1>4
       DEF BalloonSave, host, ManagerTypeOK, HostTypeOK
  <2>2. ActorTypeOK' /\ Benign(a)
    BY <1>1, <1>4, GotoType, GotoMoves
       DEF BalloonSave, Fails, sched, Works, ActorTypeOK, SandboxStates, Benign, At,
           Pausing, PCs, Status
  <2> QED BY <2>1, <2>2 DEF ManagerTypeOK
<1>5. ASSUME BalloonUndo(a) PROVE ManagerTypeOK' /\ Benign(a)
  <2>1. HostTypeOK'
    BY <1>1, <1>5
       DEF BalloonUndo, ManagerTypeOK, HostTypeOK
  <2>2. ActorTypeOK' /\ Benign(a)
    BY <1>1, <1>5, GotoType, GotoMoves
       DEF BalloonUndo, Fails, sched, Works, ActorTypeOK, SandboxStates, Benign, At,
           Pausing, PCs, Status
  <2> QED BY <2>1, <2>2 DEF ManagerTypeOK
<1>6. ASSUME releaseQuota(a) PROVE ManagerTypeOK' /\ Benign(a)
  <2>1. HostTypeOK'
    BY <1>1, <1>6
       DEF releaseQuota, host, ManagerTypeOK, HostTypeOK
  <2>2. ActorTypeOK' /\ Benign(a)
    BY <1>1, <1>6, GotoType, GotoMoves
       DEF releaseQuota, SuspendByTask, Fails, Finish, sched, Works, ActorTypeOK,
           SandboxStates, Benign, At, Pausing, PCs, Status
  <2> QED BY <2>1, <2>2 DEF ManagerTypeOK
<1>7. ASSUME ResumeLoad(a) PROVE ManagerTypeOK' /\ Benign(a)
  <2>1. HostTypeOK'
    BY <1>1, <1>7
       DEF ResumeLoad, host, ManagerTypeOK, HostTypeOK
  <2>2. ActorTypeOK' /\ Benign(a)
    BY <1>1, <1>7, GotoType, GotoMoves
       DEF ResumeLoad, Finish, sched, ActorTypeOK, SandboxStates, Benign, At, Pausing, PCs,
           Status
  <2> QED BY <2>1, <2>2 DEF ManagerTypeOK
<1>8. ASSUME ResumeReserve(a) PROVE ManagerTypeOK' /\ Benign(a)
  <2>1. HostTypeOK'
    BY <1>1, <1>8
       DEF ResumeReserve, reserveQuota, host, ManagerTypeOK, HostTypeOK
  <2>2. ActorTypeOK' /\ Benign(a)
    BY <1>1, <1>8, GotoType, GotoMoves
       DEF ResumeReserve, reserveQuota, Fails, Finish, sched, Works, ActorTypeOK,
           SandboxStates, Benign, At, Pausing, PCs, Status
  <2> QED BY <2>1, <2>2 DEF ManagerTypeOK
<1>9. ASSUME RestorePauseBalloon(a) PROVE ManagerTypeOK' /\ Benign(a)
  <2>1. HostTypeOK'
    BY <1>1, <1>9
       DEF RestorePauseBalloon, ManagerTypeOK, HostTypeOK
  <2>2. ActorTypeOK' /\ Benign(a)
    BY <1>1, <1>9, GotoType, GotoMoves, MetadataType
       DEF RestorePauseBalloon, Fails, sched, Works, ActorTypeOK, SandboxStates, Benign,
           At, Pausing, PCs, Status
  <2> QED BY <2>1, <2>2 DEF ManagerTypeOK
<1>10. ASSUME ResumeThaw(a) PROVE ManagerTypeOK' /\ Benign(a)
  <2>1. HostTypeOK'
    BY <1>1, <1>10
       DEF ResumeThaw, ManagerTypeOK, HostTypeOK
  <2>2. ActorTypeOK' /\ Benign(a)
    BY <1>1, <1>10, GotoType, GotoMoves, TransitionType
       DEF ResumeThaw, Fails, sched, Works, ActorTypeOK, SandboxStates, Benign, At,
           Pausing, PCs, Status
  <2> QED BY <2>1, <2>2 DEF ManagerTypeOK
<1>11. ASSUME ResumeSaveResuming(a) PROVE ManagerTypeOK' /\ Benign(a)
  <2>1. HostTypeOK'
    BY <1>1, <1>11
       DEF ResumeSaveResuming, host, ManagerTypeOK, HostTypeOK
  <2>2. ActorTypeOK' /\ Benign(a)
    BY <1>1, <1>11, GotoType, GotoMoves, TransitionType
       DEF ResumeSaveResuming, Fails, sched, Works, ActorTypeOK, SandboxStates, Benign, At,
           Pausing, PCs, Status
  <2> QED BY <2>1, <2>2 DEF ManagerTypeOK
<1>12. ASSUME ResumeSaveRunning(a) PROVE ManagerTypeOK' /\ Benign(a)
  <2>1. HostTypeOK'
    BY <1>1, <1>12
       DEF ResumeSaveRunning, host, ManagerTypeOK, HostTypeOK
  <2>2. ActorTypeOK' /\ Benign(a)
    BY <1>1, <1>12, GotoType, GotoMoves, TransitionType
       DEF ResumeSaveRunning, Fails, sched, Works, ActorTypeOK, SandboxStates, Benign, At,
           Pausing, PCs, Status
  <2> QED BY <2>1, <2>2 DEF ManagerTypeOK
<1>13. ASSUME ResumeRollback(a) PROVE ManagerTypeOK' /\ Benign(a)
  <2>1. HostTypeOK'
    BY <1>1, <1>13
       DEF ResumeRollback, host, ManagerTypeOK, HostTypeOK
  <2>2. ActorTypeOK' /\ Benign(a)
    BY <1>1, <1>13, GotoType, GotoMoves
       DEF ResumeRollback, Fails, sched, Works, ActorTypeOK, SandboxStates, Benign, At,
           Pausing, PCs, Status
  <2> QED BY <2>1, <2>2 DEF ManagerTypeOK
<1>14. ASSUME refreezeBestEffort(a) PROVE ManagerTypeOK' /\ Benign(a)
  <2>1. HostTypeOK'
    BY <1>1, <1>14
       DEF refreezeBestEffort, BestEffort, ManagerTypeOK, HostTypeOK
  <2>2. ActorTypeOK' /\ Benign(a)
    BY <1>1, <1>14, GotoType, GotoMoves
       DEF refreezeBestEffort, Fails, sched, Works, BestEffort, ActorTypeOK, SandboxStates,
           Benign, At, Pausing, PCs, Status
  <2> QED BY <2>1, <2>2 DEF ManagerTypeOK
<1>15. ASSUME ResumeArm(a) PROVE ManagerTypeOK' /\ Benign(a)
  <2>1. HostTypeOK'
    BY <1>1, <1>15
       DEF ResumeArm, host, ManagerTypeOK, HostTypeOK
  <2>2. ActorTypeOK' /\ Benign(a)
    BY <1>1, <1>15, GotoType, GotoMoves
       DEF ResumeArm, ArmIfIdle, armLocked, sched, Finish, ActorTypeOK, SandboxStates,
           Benign, At, Pausing, PCs, Status
  <2> QED BY <2>1, <2>2 DEF ManagerTypeOK
<1>16. ASSUME DeepLoad(a) PROVE ManagerTypeOK' /\ Benign(a)
  <2>1. HostTypeOK'
    BY <1>1, <1>16
       DEF DeepLoad, DeepError, host, ManagerTypeOK, HostTypeOK
  <2>2. ActorTypeOK' /\ Benign(a)
    BY <1>1, <1>16, GotoType, GotoMoves, MetadataType
       DEF DeepLoad, DeepError, Finish, sched, ActorTypeOK, SandboxStates, Benign, At,
           Pausing, PCs, Status
  <2> QED BY <2>1, <2>2 DEF ManagerTypeOK
<1>17. ASSUME DeepFreeze(a) PROVE ManagerTypeOK' /\ Benign(a)
  <2>1. HostTypeOK'
    BY <1>1, <1>17
       DEF DeepFreeze, DeepError, ManagerTypeOK, HostTypeOK
  <2>2. ActorTypeOK' /\ Benign(a)
    BY <1>1, <1>17, GotoType, GotoMoves
       DEF DeepFreeze, Fails, DeepError, Finish, sched, Works, ActorTypeOK, SandboxStates,
           Benign, At, Pausing, PCs, Status
  <2> QED BY <2>1, <2>2 DEF ManagerTypeOK
<1>18. ASSUME DeepDump(a) PROVE ManagerTypeOK' /\ Benign(a)
  <2>1. HostTypeOK'
    BY <1>1, <1>18
       DEF DeepDump, ManagerTypeOK, HostTypeOK
  <2>2. ActorTypeOK' /\ Benign(a)
    BY <1>1, <1>18, GotoType, GotoMoves, TransitionType
       DEF DeepDump, Fails, sched, Works, ActorTypeOK, SandboxStates, Benign, At, Pausing,
           PCs, Status
  <2> QED BY <2>1, <2>2 DEF ManagerTypeOK
<1>19. ASSUME DeepSave(a) PROVE ManagerTypeOK' /\ Benign(a)
  <2>1. HostTypeOK'
    BY <1>1, <1>19
       DEF DeepSave, host, ManagerTypeOK, HostTypeOK
  <2>2. ActorTypeOK' /\ Benign(a)
    BY <1>1, <1>19, GotoType, GotoMoves
       DEF DeepSave, Fails, sched, Works, ActorTypeOK, SandboxStates, Benign, At, Pausing,
           PCs, Status
  <2> QED BY <2>1, <2>2 DEF ManagerTypeOK
<1>20. ASSUME DeepKill(a) PROVE ManagerTypeOK' /\ Benign(a)
  <2>1. HostTypeOK'
    BY <1>1, <1>20
       DEF DeepKill, ManagerTypeOK, HostTypeOK
  <2>2. ActorTypeOK' /\ Benign(a)
    BY <1>1, <1>20, GotoType, GotoMoves, TransitionType, MetadataType
       DEF DeepKill, Fails, sched, Works, ActorTypeOK, SandboxStates, Benign, At, Pausing,
           PCs, Status
  <2> QED BY <2>1, <2>2 DEF ManagerTypeOK
<1>21. ASSUME DeepRollback(a) PROVE ManagerTypeOK' /\ Benign(a)
  <2>1. HostTypeOK'
    BY <1>1, <1>21
       DEF DeepRollback, DeepError, host, ManagerTypeOK, HostTypeOK
  <2>2. ActorTypeOK' /\ Benign(a)
    BY <1>1, <1>21, GotoType, GotoMoves
       DEF DeepRollback, Fails, DeepError, Finish, sched, Works, ActorTypeOK,
           SandboxStates, Benign, At, Pausing, PCs, Status
  <2> QED BY <2>1, <2>2 DEF ManagerTypeOK
<1>22. ASSUME DeepThaw(a) PROVE ManagerTypeOK' /\ Benign(a)
  <2>1. HostTypeOK'
    BY <1>1, <1>22
       DEF DeepThaw, BestEffort, DeepError, ManagerTypeOK, HostTypeOK
  <2>2. ActorTypeOK' /\ Benign(a)
    BY <1>1, <1>22, GotoType, GotoMoves
       DEF DeepThaw, Fails, DeepError, Finish, sched, Works, BestEffort, ActorTypeOK,
           SandboxStates, Benign, At, Pausing, PCs, Status
  <2> QED BY <2>1, <2>2 DEF ManagerTypeOK
<1>23. ASSUME DeepDisarm(a) PROVE ManagerTypeOK' /\ Benign(a)
  <2>1. HostTypeOK'
    BY <1>1, <1>23
       DEF DeepDisarm, host, ManagerTypeOK, HostTypeOK
  <2>2. ActorTypeOK' /\ Benign(a)
    BY <1>1, <1>23, GotoType, GotoMoves
       DEF DeepDisarm, Disarm, ActorTypeOK, SandboxStates, Benign, At, Pausing, PCs, Status
  <2> QED BY <2>1, <2>2 DEF ManagerTypeOK
<1>24. ASSUME DeepResumeLoad(a) PROVE ManagerTypeOK' /\ Benign(a)
  <2>1. HostTypeOK'
    BY <1>1, <1>24
       DEF DeepResumeLoad, host, ManagerTypeOK, HostTypeOK
  <2>2. ActorTypeOK' /\ Benign(a)
    BY <1>1, <1>24, GotoType, GotoMoves
       DEF DeepResumeLoad, Finish, sched, ActorTypeOK, SandboxStates, Benign, At, Pausing,
           PCs, Status
  <2> QED BY <2>1, <2>2 DEF ManagerTypeOK
<1>25. ASSUME DeepResumeReserve(a) PROVE ManagerTypeOK' /\ Benign(a)
  <2>1. HostTypeOK'
    BY <1>1, <1>25
       DEF DeepResumeReserve, reserveQuota, host, ManagerTypeOK, HostTypeOK
  <2>2. ActorTypeOK' /\ Benign(a)
    BY <1>1, <1>25, GotoType, GotoMoves, TransitionType
       DEF DeepResumeReserve, reserveQuota, Fails, Finish, sched, Works, ActorTypeOK,
           SandboxStates, Benign, At, Pausing, PCs, Status
  <2> QED BY <2>1, <2>2 DEF ManagerTypeOK
<1>26. ASSUME DeepRestore(a) PROVE ManagerTypeOK' /\ Benign(a)
  <2>1. HostTypeOK'
    BY <1>1, <1>26
       DEF DeepRestore, ManagerTypeOK, HostTypeOK
  <2>2. ActorTypeOK' /\ Benign(a)
    BY <1>1, <1>26, GotoType, GotoMoves, TransitionType, MetadataType
       DEF DeepRestore, Fails, sched, Works, ActorTypeOK, SandboxStates, Benign, At,
           Pausing, PCs, Status
  <2> QED BY <2>1, <2>2 DEF ManagerTypeOK
<1>27. ASSUME DeepRestoreFailed(a) PROVE ManagerTypeOK' /\ Benign(a)
  <2>1. HostTypeOK'
    BY <1>1, <1>27
       DEF DeepRestoreFailed, host, ManagerTypeOK, HostTypeOK
  <2>2. ActorTypeOK' /\ Benign(a)
    BY <1>1, <1>27, GotoType, GotoMoves, TransitionType
       DEF DeepRestoreFailed, SuspendByTask, Fails, sched, Works, ActorTypeOK,
           SandboxStates, Benign, At, Pausing, PCs, Status
  <2> QED BY <2>1, <2>2 DEF ManagerTypeOK
<1>28. ASSUME DeepResumeSave(a) PROVE ManagerTypeOK' /\ Benign(a)
  <2>1. HostTypeOK'
    BY <1>1, <1>28
       DEF DeepResumeSave, host, ManagerTypeOK, HostTypeOK
  <2>2. ActorTypeOK' /\ Benign(a)
    BY <1>1, <1>28, GotoType, GotoMoves
       DEF DeepResumeSave, Fails, Finish, sched, Works, ActorTypeOK, SandboxStates, Benign,
           At, Pausing, PCs, Status
  <2> QED BY <2>1, <2>2 DEF ManagerTypeOK
<1> QED
  BY <1>2, <1>3, <1>4, <1>5, <1>6, <1>7, <1>8, <1>9, <1>10, <1>11, <1>12, <1>13, <1>14,
     <1>15, <1>16, <1>17, <1>18, <1>19, <1>20, <1>21, <1>22, <1>23, <1>24, <1>25, <1>26,
     <1>27, <1>28 DEF ManagerStep

\* Every step of a request is typed and benign.
LEMMA HandlerStepBenign ==
    ASSUME ManagerTypeOK, NEW r \in Requests, HandlerStep(r)
    PROVE  ManagerTypeOK' /\ Benign(r)
<1> USE LifecycleAssumption
<1>1. /\ r \in Actors /\ th[r] \in Thread
      /\ th \in [Actors -> Thread] /\ th[r].st \in ContainerState
      /\ th[r].dst \in ContainerState /\ disk \in ContainerState
      /\ HostTypeOK /\ ActorTypeOK
  BY RequestsAreNotGens DEF ManagerTypeOK, ActorTypeOK, Thread
<1>2. ASSUME PauseEnter(r) PROVE ManagerTypeOK' /\ Benign(r)
  <2>1. HostTypeOK'
    BY <1>1, <1>2
       DEF PauseEnter, host, ManagerTypeOK, HostTypeOK
  <2>2. ActorTypeOK' /\ Benign(r)
    BY <1>1, <1>2, GotoType, GotoMoves, RequestsAreNotGens
       DEF PauseEnter, Enter, sched, ActorTypeOK, SandboxStates, Benign, At, Pausing, PCs,
           Status
  <2> QED BY <2>1, <2>2 DEF ManagerTypeOK
<1>3. ASSUME PauseRefused(r) PROVE ManagerTypeOK' /\ Benign(r)
  <2>1. HostTypeOK'
    BY <1>1, <1>3
       DEF PauseRefused, host, ManagerTypeOK, HostTypeOK
  <2>2. ActorTypeOK' /\ Benign(r)
    BY <1>1, <1>3, GotoType, GotoMoves, RequestsAreNotGens
       DEF PauseRefused, Enter, Finish, sched, ActorTypeOK, SandboxStates, Benign, At,
           Pausing, PCs, Status
  <2> QED BY <2>1, <2>2 DEF ManagerTypeOK
<1>4. ASSUME HandlerFreeze(r) PROVE ManagerTypeOK' /\ Benign(r)
  <2>1. HostTypeOK'
    BY <1>1, <1>4
       DEF HandlerFreeze, ManagerTypeOK, HostTypeOK
  <2>2. ActorTypeOK' /\ Benign(r)
    BY <1>1, <1>4, GotoType, GotoMoves, RequestsAreNotGens
       DEF HandlerFreeze, Fails, Finish, sched, Works, ActorTypeOK, SandboxStates, Benign,
           At, Pausing, PCs, Status
  <2> QED BY <2>1, <2>2 DEF ManagerTypeOK
<1>5. ASSUME HandlerDisarm(r) PROVE ManagerTypeOK' /\ Benign(r)
  <2>1. HostTypeOK'
    BY <1>1, <1>5
       DEF HandlerDisarm, host, ManagerTypeOK, HostTypeOK
  <2>2. ActorTypeOK' /\ Benign(r)
    BY <1>1, <1>5, GotoType, GotoMoves, RequestsAreNotGens, TransitionType
       DEF HandlerDisarm, Disarm, ActorTypeOK, SandboxStates, Benign, At, Pausing, PCs,
           Status
  <2> QED BY <2>1, <2>2 DEF ManagerTypeOK
<1>6. ASSUME HandlerSave(r) PROVE ManagerTypeOK' /\ Benign(r)
  <2>1. HostTypeOK'
    BY <1>1, <1>6
       DEF HandlerSave, host, ManagerTypeOK, HostTypeOK
  <2>2. ActorTypeOK' /\ Benign(r)
    BY <1>1, <1>6, GotoType, GotoMoves, RequestsAreNotGens
       DEF HandlerSave, Fails, sched, Works, ActorTypeOK, SandboxStates, Benign, At,
           Pausing, PCs, Status
  <2> QED BY <2>1, <2>2 DEF ManagerTypeOK
<1>7. ASSUME HandlerThaw(r) PROVE ManagerTypeOK' /\ Benign(r)
  <2>1. HostTypeOK'
    BY <1>1, <1>7
       DEF HandlerThaw, BestEffort, ManagerTypeOK, HostTypeOK
  <2>2. ActorTypeOK' /\ Benign(r)
    BY <1>1, <1>7, GotoType, GotoMoves, RequestsAreNotGens
       DEF HandlerThaw, Fails, sched, Works, BestEffort, ActorTypeOK, SandboxStates,
           Benign, At, Pausing, PCs, Status
  <2> QED BY <2>1, <2>2 DEF ManagerTypeOK
<1>8. ASSUME ResumeEnter(r) PROVE ManagerTypeOK' /\ Benign(r)
  <2>1. HostTypeOK'
    BY <1>1, <1>8
       DEF ResumeEnter, host, ManagerTypeOK, HostTypeOK
  <2>2. ActorTypeOK' /\ Benign(r)
    BY <1>1, <1>8, GotoType, GotoMoves, RequestsAreNotGens
       DEF ResumeEnter, Enter, sched, ActorTypeOK, SandboxStates, Benign, At, Pausing, PCs,
           Status
  <2> QED BY <2>1, <2>2 DEF ManagerTypeOK
<1>9. ASSUME TransitionEnter(r) PROVE ManagerTypeOK' /\ Benign(r)
  <2>1. HostTypeOK'
    BY <1>1, <1>9
       DEF TransitionEnter, host, ManagerTypeOK, HostTypeOK
  <2>2. ActorTypeOK' /\ Benign(r)
    BY <1>1, <1>9, GotoType, GotoMoves, RequestsAreNotGens
       DEF TransitionEnter, Enter, sched, ActorTypeOK, SandboxStates, Benign, At, Pausing,
           PCs, Status
  <2> QED BY <2>1, <2>2 DEF ManagerTypeOK
<1>10. ASSUME NEW to \in Targets, TransitionApply(r, to) PROVE ManagerTypeOK' /\ Benign(r)
  <2>1. HostTypeOK'
    BY <1>1, <1>10
       DEF TransitionApply, host, ManagerTypeOK, HostTypeOK
  <2>2. ActorTypeOK' /\ Benign(r)
    BY <1>1, <1>10, GotoType, GotoMoves, RequestsAreNotGens, TransitionType, TaskControlAssumption
       DEF TransitionApply, bumpIdleTimer, ArmIfIdle, armLocked, sched, Finish,
           ActorTypeOK, SandboxStates, Benign, At, Pausing, PCs, Status
  <2> QED BY <2>1, <2>2 DEF ManagerTypeOK
<1>11. ASSUME TransitionSave(r) PROVE ManagerTypeOK' /\ Benign(r)
  <2>1. HostTypeOK'
    BY <1>1, <1>11
       DEF TransitionSave, host, ManagerTypeOK, HostTypeOK
  <2>2. ActorTypeOK' /\ Benign(r)
    BY <1>1, <1>11, GotoType, GotoMoves, RequestsAreNotGens
       DEF TransitionSave, Fails, Finish, sched, Works, ActorTypeOK, SandboxStates, Benign,
           At, Pausing, PCs, Status
  <2> QED BY <2>1, <2>2 DEF ManagerTypeOK
<1>12. ASSUME ExecActivity(r) PROVE ManagerTypeOK' /\ Benign(r)
  <2>1. HostTypeOK'
    BY <1>1, <1>12
       DEF ExecActivity, host, ManagerTypeOK, HostTypeOK
  <2>2. ActorTypeOK' /\ Benign(r)
    BY <1>1, <1>12, GotoType, GotoMoves, RequestsAreNotGens
       DEF ExecActivity, Start, sched, ActorTypeOK, SandboxStates, Benign, At, Pausing,
           PCs, Status
  <2> QED BY <2>1, <2>2 DEF ManagerTypeOK
<1>13. ASSUME ExecBump(r) PROVE ManagerTypeOK' /\ Benign(r)
  <2>1. HostTypeOK'
    BY <1>1, <1>13
       DEF ExecBump, host, ManagerTypeOK, HostTypeOK
  <2>2. ActorTypeOK' /\ Benign(r)
    BY <1>1, <1>13, GotoType, GotoMoves, RequestsAreNotGens
       DEF ExecBump, bumpIdleTimer, ArmIfIdle, armLocked, sched, ActorTypeOK,
           SandboxStates, Benign, At, Pausing, PCs, Status
  <2> QED BY <2>1, <2>2 DEF ManagerTypeOK
<1>14. ASSUME FreezeRuntime(r) PROVE ManagerTypeOK' /\ Benign(r)
  <2>1. HostTypeOK'
    BY <1>1, <1>14
       DEF FreezeRuntime, ManagerTypeOK, HostTypeOK
  <2>2. ActorTypeOK' /\ Benign(r)
    BY <1>1, <1>14, GotoType, GotoMoves, RequestsAreNotGens
       DEF FreezeRuntime, Start, Fails, sched, Works, ActorTypeOK, SandboxStates, Benign,
           At, Pausing, PCs, Status
  <2> QED BY <2>1, <2>2 DEF ManagerTypeOK
<1>15. ASSUME FreezeRuntimeLoad(r) PROVE ManagerTypeOK' /\ Benign(r)
  <2>1. HostTypeOK'
    BY <1>1, <1>15
       DEF FreezeRuntimeLoad, host, ManagerTypeOK, HostTypeOK
  <2>2. ActorTypeOK' /\ Benign(r)
    BY <1>1, <1>15, GotoType, GotoMoves, RequestsAreNotGens, TransitionType
       DEF FreezeRuntimeLoad, sched, ActorTypeOK, SandboxStates, Benign, At, Pausing, PCs,
           Status
  <2> QED BY <2>1, <2>2 DEF ManagerTypeOK
<1>16. ASSUME Terminate(r) PROVE ManagerTypeOK' /\ Benign(r)
  <2>1. HostTypeOK'
    BY <1>1, <1>16
       DEF Terminate, host, ManagerTypeOK, HostTypeOK
  <2>2. ActorTypeOK' /\ Benign(r)
    BY <1>1, <1>16, GotoType, GotoMoves, RequestsAreNotGens
       DEF Terminate, Start, sched, ActorTypeOK, SandboxStates, Benign, At, Pausing, PCs,
           Status
  <2> QED BY <2>1, <2>2 DEF ManagerTypeOK
<1>17. ASSUME TerminateKill(r) PROVE ManagerTypeOK' /\ Benign(r)
  <2>1. HostTypeOK'
    BY <1>1, <1>17
       DEF TerminateKill, ManagerTypeOK, HostTypeOK
  <2>2. ActorTypeOK' /\ Benign(r)
    BY <1>1, <1>17, GotoType, GotoMoves, RequestsAreNotGens, TransitionType
       DEF TerminateKill, Fails, sched, Works, ActorTypeOK, SandboxStates, Benign, At,
           Pausing, PCs, Status
  <2> QED BY <2>1, <2>2 DEF ManagerTypeOK
<1>18. ASSUME killTask(r) PROVE ManagerTypeOK' /\ Benign(r)
  <2>1. HostTypeOK'
    BY <1>1, <1>18
       DEF killTask, ManagerTypeOK, HostTypeOK
  <2>2. ActorTypeOK' /\ Benign(r)
    BY <1>1, <1>18, GotoType, GotoMoves, RequestsAreNotGens
       DEF killTask, Start, Fails, sched, Works, ActorTypeOK, SandboxStates, Benign, At,
           Pausing, PCs, Status
  <2> QED BY <2>1, <2>2 DEF ManagerTypeOK
<1>19. ASSUME killTaskLoad(r) PROVE ManagerTypeOK' /\ Benign(r)
  <2>1. HostTypeOK'
    BY <1>1, <1>19
       DEF killTaskLoad, host, ManagerTypeOK, HostTypeOK
  <2>2. ActorTypeOK' /\ Benign(r)
    BY <1>1, <1>19, GotoType, GotoMoves, RequestsAreNotGens, TransitionType
       DEF killTaskLoad, sched, ActorTypeOK, SandboxStates, Benign, At, Pausing, PCs, Status
  <2> QED BY <2>1, <2>2 DEF ManagerTypeOK
<1>20. ASSUME SaveIgnored(r) PROVE ManagerTypeOK' /\ Benign(r)
  <2>1. HostTypeOK'
    BY <1>1, <1>20
       DEF SaveIgnored, host, ManagerTypeOK, HostTypeOK
  <2>2. ActorTypeOK' /\ Benign(r)
    BY <1>1, <1>20, GotoType, GotoMoves, RequestsAreNotGens
       DEF SaveIgnored, Fails, sched, Works, ActorTypeOK, SandboxStates, Benign, At,
           Pausing, PCs, Status
  <2> QED BY <2>1, <2>2 DEF ManagerTypeOK
<1> QED
  BY <1>2, <1>3, <1>4, <1>5, <1>6, <1>7, <1>8, <1>9, <1>10, <1>11, <1>12, <1>13, <1>14,
     <1>15, <1>16, <1>17, <1>18, <1>19, <1>20 DEF HandlerStep

\* Every step of a timer callback other than the claim is typed and benign.
LEMMA CallbackStepBenign ==
    ASSUME ManagerTypeOK, NEW g \in Gens, CallbackStep(g), ~PauseClaim(g)
    PROVE  ManagerTypeOK' /\ Benign(g)
<1> USE LifecycleAssumption
<1>1. /\ g \in Actors /\ th[g] \in Thread
      /\ th \in [Actors -> Thread] /\ th[g].st \in ContainerState
      /\ th[g].dst \in ContainerState /\ disk \in ContainerState
      /\ HostTypeOK /\ ActorTypeOK
  BY RequestsAreNotGens DEF ManagerTypeOK, ActorTypeOK, Thread
<1>2. ASSUME PauseLoad(g) PROVE ManagerTypeOK' /\ Benign(g)
  <2>1. HostTypeOK'
    BY <1>1, <1>2
       DEF PauseLoad, host, ManagerTypeOK, HostTypeOK
  <2>2. ActorTypeOK' /\ Benign(g)
    BY <1>1, <1>2, GotoType, GotoMoves
       DEF PauseLoad, sched, ActorTypeOK, SandboxStates, Benign, At, Pausing, PCs, Status
  <2> QED BY <2>1, <2>2 DEF ManagerTypeOK
<1>3. ASSUME PauseFreeze(g) PROVE ManagerTypeOK' /\ Benign(g)
  <2>1. HostTypeOK'
    BY <1>1, <1>3
       DEF PauseFreeze, ManagerTypeOK, HostTypeOK
  <2>2. ActorTypeOK' /\ Benign(g)
    BY <1>1, <1>3, GotoType, GotoMoves
       DEF PauseFreeze, Fails, sched, Works, ActorTypeOK, SandboxStates, Benign, At,
           Pausing, PCs, Status
  <2> QED BY <2>1, <2>2 DEF ManagerTypeOK
<1>4. ASSUME PauseCheck1(g) PROVE ManagerTypeOK' /\ Benign(g)
  <2>1. HostTypeOK'
    BY <1>1, <1>4
       DEF PauseCheck1, host, ManagerTypeOK, HostTypeOK
  <2>2. ActorTypeOK' /\ Benign(g)
    BY <1>1, <1>4, GotoType, GotoMoves, TransitionType
       DEF PauseCheck1, sched, ActorTypeOK, SandboxStates, Benign, At, Pausing, PCs, Status
  <2> QED BY <2>1, <2>2 DEF ManagerTypeOK
<1>5. ASSUME PauseSave(g) PROVE ManagerTypeOK' /\ Benign(g)
  <2>1. HostTypeOK'
    BY <1>1, <1>5
       DEF PauseSave, host, ManagerTypeOK, HostTypeOK
  <2>2. ActorTypeOK' /\ Benign(g)
    BY <1>1, <1>5, GotoType, GotoMoves
       DEF PauseSave, Fails, sched, Works, ActorTypeOK, SandboxStates, Benign, At, Pausing,
           PCs, Status
  <2> QED BY <2>1, <2>2 DEF ManagerTypeOK
<1>6. ASSUME abortPause(g) PROVE ManagerTypeOK' /\ Benign(g)
  <2>1. HostTypeOK'
    BY <1>1, <1>6
       DEF abortPause, BestEffort, ManagerTypeOK, HostTypeOK
  <2>2. ActorTypeOK' /\ Benign(g)
    BY <1>1, <1>6, GotoType, GotoMoves
       DEF abortPause, Fails, sched, Works, BestEffort, ActorTypeOK, SandboxStates, Benign,
           At, Pausing, PCs, Status
  <2> QED BY <2>1, <2>2 DEF ManagerTypeOK
<1>7. ASSUME PauseCheck2(g) PROVE ManagerTypeOK' /\ Benign(g)
  <2>1. HostTypeOK'
    BY <1>1, <1>7
       DEF PauseCheck2, host, ManagerTypeOK, HostTypeOK
  <2>2. ActorTypeOK' /\ Benign(g)
    BY <1>1, <1>7, GotoType, GotoMoves, TransitionType
       DEF PauseCheck2, sched, ActorTypeOK, SandboxStates, Benign, At, Pausing, PCs, Status
  <2> QED BY <2>1, <2>2 DEF ManagerTypeOK
<1>8. ASSUME PauseRollback(g) PROVE ManagerTypeOK' /\ Benign(g)
  <2>1. HostTypeOK'
    BY <1>1, <1>8
       DEF PauseRollback, host, ManagerTypeOK, HostTypeOK
  <2>2. ActorTypeOK' /\ Benign(g)
    BY <1>1, <1>8, GotoType, GotoMoves
       DEF PauseRollback, Fails, sched, Works, ActorTypeOK, SandboxStates, Benign, At,
           Pausing, PCs, Status
  <2> QED BY <2>1, <2>2 DEF ManagerTypeOK
<1>9. ASSUME PauseThaw(g) PROVE ManagerTypeOK' /\ Benign(g)
  <2>1. HostTypeOK'
    BY <1>1, <1>9
       DEF PauseThaw, BestEffort, ManagerTypeOK, HostTypeOK
  <2>2. ActorTypeOK' /\ Benign(g)
    BY <1>1, <1>9, GotoType, GotoMoves
       DEF PauseThaw, Fails, sched, Works, BestEffort, ActorTypeOK, SandboxStates, Benign,
           At, Pausing, PCs, Status
  <2> QED BY <2>1, <2>2 DEF ManagerTypeOK
<1>10. ASSUME rearmRetry(g) PROVE ManagerTypeOK' /\ Benign(g)
  <2>1. HostTypeOK'
    BY <1>1, <1>10
       DEF rearmRetry, host, ManagerTypeOK, HostTypeOK
  <2>2. ActorTypeOK' /\ Benign(g)
    BY <1>1, <1>10, GotoType, GotoMoves
       DEF rearmRetry, armLocked, sched, ActorTypeOK, SandboxStates, Benign, At, Pausing,
           PCs, Status, epochCurrent
  <2> QED BY <2>1, <2>2 DEF ManagerTypeOK
<1>11. ASSUME Fire(g) PROVE ManagerTypeOK' /\ Benign(g)
  BY <1>1, <1>11, GotoType
     DEF Fire, host, sched, ManagerTypeOK, HostTypeOK, ActorTypeOK, Benign, Moves, Goto,
         Thread, At, Pausing, PCs
<1> QED
  BY <1>11, <1>2, <1>3, <1>4, <1>5, <1>6, <1>7, <1>8, <1>9, <1>10 DEF CallbackStep

-----------------------------------------------------------------------------
(* The licence argument. *)

\* The claim of pause() is typed: the callback captures the current epoch.
LEMMA ClaimType ==
    ASSUME ManagerTypeOK, NEW g \in Gens, PauseClaim(g)
    PROVE  ManagerTypeOK'
<1>1. g \in Actors /\ HostTypeOK /\ ActorTypeOK /\ th[g] \in Thread
  BY RequestsAreNotGens DEF ManagerTypeOK, ActorTypeOK
<1>2. th' \in [Actors -> Thread]
  <2>1. CASE gen = g
    BY <1>1, <2>1 DEF PauseClaim, ActorTypeOK, Thread, PCs
  <2>2. CASE gen # g
    BY <1>1, <2>2, NotRunningType DEF PauseClaim, ActorTypeOK, Return
  <2> QED BY <2>1, <2>2
<1> QED
  BY <1>1, <1>2 DEF PauseClaim, host, ManagerTypeOK, HostTypeOK, ActorTypeOK

\* A benign step keeps the licence invariant: a bumped epoch is ahead of
\* every captured one.
LEMMA BenignKeepsEpochInv ==
    ASSUME ManagerTypeOK, ManagerTypeOK', EpochInv, NEW a \in Actors, Benign(a)
    PROVE  EpochInv'
<1>1. \A g \in Gens : g \in Actors /\ th[g].ep \in Nat /\ th'[g].ep \in Nat
  BY RequestsAreNotGens DEF ManagerTypeOK, ActorTypeOK, Thread
<1>2. epoch \in Nat /\ epoch' \in Nat /\ epoch <= epoch'
  BY DEF ManagerTypeOK, ActorTypeOK, Benign, sched
<1>3. \A g \in Gens : Pausing(g)' => Pausing(g) /\ th'[g].ep = th[g].ep
  BY <1>1 DEF Benign, Moves, Pausing
<1>4. \A g \in Gens : Pausing(g)' => th'[g].ep <= epoch'
  BY <1>1, <1>2, <1>3 DEF EpochInv
<1>5. SingleCurrentPause'
  <2>1. CASE UNCHANGED sched
    BY <1>1, <1>3, <2>1 DEF EpochInv, SingleCurrentPause, epochCurrent, sched
  <2>2. CASE epoch' = epoch + 1
    <3>1. \A g \in Gens : Pausing(g)' => ~epochCurrent(g)'
      BY <1>1, <1>2, <1>3, <2>2 DEF EpochInv, epochCurrent
    <3> QED BY <3>1 DEF SingleCurrentPause
  <2> QED BY <2>1, <2>2 DEF Benign
<1> QED BY <1>4, <1>5 DEF EpochInv

\* The claim hands the licence to one callback: the live schedule proves
\* that no other callback held it.
LEMMA ClaimKeepsEpochInv ==
    ASSUME ManagerTypeOK, EpochInv, NEW g \in Gens, PauseClaim(g)
    PROVE  EpochInv'
<1>1. \A h \in Gens : h \in Actors /\ th[h].ep \in Nat
  BY RequestsAreNotGens DEF ManagerTypeOK, ActorTypeOK, Thread
<1>2. epoch \in Nat /\ epoch' = epoch /\ g # 0 /\ th \in [Actors -> Thread]
  BY LifecycleAssumption DEF ManagerTypeOK, ActorTypeOK, PauseClaim, Gens
<1>3. \A h \in Gens : h # g => th'[h] = th[h]
  BY <1>1, <1>2 DEF PauseClaim, Return
<1>4. CASE gen = g
  <2>1. gen' = 0 /\ th'[g].ep = epoch
    BY <1>1, <1>2, <1>4 DEF PauseClaim, Thread
  <2>2. \A h \in Gens : h # g /\ Pausing(h) => ~epochCurrent(h)
    BY <1>2, <1>4 DEF EpochInv, SingleCurrentPause
  <2> QED
    BY <1>1, <1>2, <1>3, <2>1, <2>2 DEF EpochInv, SingleCurrentPause, Pausing, epochCurrent
<1>5. CASE gen # g
  <2>1. gen' = gen /\ ~Pausing(g)'
    BY <1>1, <1>2, <1>5 DEF PauseClaim, Return, NotRunning, Pausing
  <2> QED
    BY <1>1, <1>2, <1>3, <2>1 DEF EpochInv, SingleCurrentPause, Pausing, epochCurrent
<1> QED BY <1>4, <1>5

\* The guest, the launcher and a restart keep the types and the licence: the
\* launcher only disarms, a restart leaves no callback.
LEMMA EnvironmentKeeps ==
    ASSUME TypeOK, EpochInv, Environment, lost' \in BOOLEAN, unthawed' \in BOOLEAN
    PROVE  TypeOK' /\ EpochInv'
<1> USE LifecycleAssumption, TaskControlAssumption
<1>1. /\ HostTypeOK /\ ActorTypeOK /\ disk \in ContainerState
      /\ verdict \in ContainerState /\ restarts \in 0 .. MaxRestarts
  BY DEF TypeOK, ManagerTypeOK, ActorTypeOK
<1>2. CASE GuestExit
  BY <1>1, <1>2 DEF GuestExit, TypeOK, ManagerTypeOK, HostTypeOK, ActorTypeOK, sched, outside,
                    EpochInv, SingleCurrentPause, Pausing, epochCurrent
<1>3. CASE WaitExitLoad
  <2>1. verdict' \in ContainerState
    BY <1>1, <1>3 DEF WaitExitLoad, ContainerState, Status
  <2> QED
    BY <1>1, <1>3, <2>1 DEF WaitExitLoad, TypeOK, ManagerTypeOK, HostTypeOK, ActorTypeOK,
       lifecycleVars, EpochInv, SingleCurrentPause, Pausing, epochCurrent
<1>4. CASE StartTaskExit
  <2>1. verdict' \in ContainerState
    BY <1>1, <1>4, TransitionType DEF StartTaskExit, Status
  <2> QED
    BY <1>1, <1>4, <2>1 DEF StartTaskExit, TypeOK, ManagerTypeOK, HostTypeOK, ActorTypeOK,
       lifecycleVars, EpochInv, SingleCurrentPause, Pausing, epochCurrent
<1>5. CASE LauncherSave
  BY <1>1, <1>5 DEF LauncherSave, Works, Fails, TypeOK, ManagerTypeOK, HostTypeOK, ActorTypeOK,
     host, sched, EpochInv, SingleCurrentPause, Pausing, epochCurrent
<1>6. CASE LauncherDisarm
  <2>1. TypeOK'
    BY <1>1, <1>6 DEF LauncherDisarm, Disarm, TypeOK, ManagerTypeOK, HostTypeOK, ActorTypeOK, host
  <2>2. \A g \in Gens : g \in Actors /\ th[g].ep \in Nat
    BY <1>1, RequestsAreNotGens DEF ActorTypeOK, Thread
  <2>3. epoch \in Nat /\ epoch' = epoch + 1 /\ th' = th
    BY <1>1, <1>6 DEF LauncherDisarm, Disarm, ActorTypeOK
  <2>4. \A g \in Gens : Pausing(g)' => th'[g].ep <= epoch' /\ ~epochCurrent(g)'
    BY <2>2, <2>3 DEF EpochInv, Pausing, epochCurrent
  <2> QED BY <2>1, <2>4 DEF EpochInv, SingleCurrentPause
<1>7. CASE Restart
  <2>1. th' \in [Actors -> Thread] /\ \A g \in Gens : ~Pausing(g)'
    BY <1>7, NotRunningType, RequestsAreNotGens DEF Restart, Pausing, NotRunning
  <2>2. restarts' \in 0 .. MaxRestarts
    BY <1>1, <1>7 DEF Restart
  <2>3. gen' \in 0 .. nextGen' /\ epoch' \in Nat /\ nextGen' \in 0 .. MaxGen
    BY <1>1, <1>7 DEF Restart
  <2>4. TypeOK'
    BY <1>1, <1>7, <2>1, <2>2, <2>3
       DEF Restart, TypeOK, ManagerTypeOK, HostTypeOK, ActorTypeOK, host
  <2> QED BY <2>1, <2>4 DEF EpochInv, SingleCurrentPause
<1> QED BY <1>2, <1>3, <1>4, <1>5, <1>6, <1>7 DEF Environment

-----------------------------------------------------------------------------
(* The theorems. *)

IInv == TypeOK /\ EpochInv

\* A freshly launched task satisfies the invariant.
LEMMA InitIInv == Init => IInv
<1> SUFFICES ASSUME Init PROVE IInv
  OBVIOUS
<1> USE LifecycleAssumption, TaskControlAssumption
<1>1. Running \in ContainerState
  BY DEF Running, ContainerState, Status
<1>2. th \in [Actors -> Thread] /\ \A g \in Gens : ~Pausing(g)
  BY NotRunningType, RequestsAreNotGens DEF Init, Pausing, NotRunning
<1>3. HostTypeOK /\ lost \in BOOLEAN /\ unthawed \in BOOLEAN
  BY DEF Init, HostTypeOK
<1>4. gen \in 0 .. nextGen /\ epoch \in Nat /\ nextGen \in 0 .. MaxGen
  BY DEF Init
<1>5. TypeOK
  BY <1>1, <1>2, <1>3, <1>4 DEF Init, TypeOK, ManagerTypeOK, ActorTypeOK, SandboxStates
<1> QED BY <1>2, <1>5 DEF IInv, EpochInv, SingleCurrentPause

\* Every step of every actor keeps the invariant.
LEMMA NextIInv == IInv /\ [Next]_vars => IInv'
<1> SUFFICES ASSUME IInv, [Next]_vars PROVE IInv'
  OBVIOUS
<1>0. lost' \in BOOLEAN /\ unthawed' \in BOOLEAN
  BY DEF Next, Remember, vars, IInv, TypeOK
<1>1. ManagerTypeOK /\ TypeOK /\ EpochInv
  BY DEF IInv, TypeOK
<1>2. ASSUME NEW g \in Gens, CallbackStep(g), UNCHANGED outside PROVE IInv'
  <2>1. CASE PauseClaim(g)
    BY <1>0, <1>1, <1>2, <2>1, ClaimType, ClaimKeepsEpochInv DEF IInv, TypeOK, outside
  <2>2. CASE ~PauseClaim(g)
    BY <1>0, <1>1, <1>2, <2>2, CallbackStepBenign, BenignKeepsEpochInv, RequestsAreNotGens
       DEF IInv, TypeOK, outside
  <2> QED BY <2>1, <2>2
<1>3. ASSUME NEW a \in Actors, ManagerStep(a), UNCHANGED outside PROVE IInv'
  BY <1>0, <1>1, <1>3, ManagerStepBenign, BenignKeepsEpochInv DEF IInv, TypeOK, outside
<1>4. ASSUME NEW r \in Requests, HandlerStep(r), UNCHANGED outside PROVE IInv'
  BY <1>0, <1>1, <1>4, HandlerStepBenign, BenignKeepsEpochInv, RequestsAreNotGens
     DEF IInv, TypeOK, outside
<1>5. CASE Environment
  BY <1>0, <1>1, <1>5, EnvironmentKeeps DEF IInv
<1>6. CASE UNCHANGED vars
  BY <1>1, <1>6 DEF vars, IInv, TypeOK, ManagerTypeOK, HostTypeOK, ActorTypeOK, EpochInv,
                    SingleCurrentPause, Pausing, epochCurrent
<1> QED BY <1>2, <1>3, <1>4, <1>5, <1>6 DEF Next, Step

\* A step that takes callback g from a failed pause to its return, changing
\* the live schedule, is g's own rearmRetry with a current epoch.
LEMMA RetryStep ==
    ASSUME IInv, [Next]_vars, NEW g \in Gens, At(g, "retry"), th'[g].pc = "done", gen' # gen
    PROVE  epochCurrent(g)
<1>1. ManagerTypeOK /\ g \in Actors /\ th[g].pc # "done" /\ th \in [Actors -> Thread]
  BY RequestsAreNotGens DEF IInv, TypeOK, ManagerTypeOK, ActorTypeOK, At
<1>2. ASSUME NEW a \in Actors, Benign(a) PROVE epochCurrent(g)
  <2>1. a = g
    BY <1>1, <1>2 DEF Benign, Moves
  <2> QED BY <1>2, <2>1 DEF Benign, sched
<1>3. ASSUME NEW h \in Gens, CallbackStep(h) PROVE epochCurrent(g)
  <2>1. ~PauseClaim(h)
    <3> SUFFICES ASSUME PauseClaim(h) PROVE FALSE
      OBVIOUS
    <3>1. h # g
      BY DEF PauseClaim, At
    <3>2. th'[g] = th[g]
      BY <1>1, <3>1, RequestsAreNotGens DEF PauseClaim, Return
    <3> QED BY <1>1, <3>2
  <2> QED BY <1>1, <1>2, <1>3, <2>1, CallbackStepBenign, RequestsAreNotGens
<1>4. ASSUME NEW a \in Actors, ManagerStep(a) PROVE epochCurrent(g)
  BY <1>1, <1>2, <1>4, ManagerStepBenign
<1>5. ASSUME NEW r \in Requests, HandlerStep(r) PROVE epochCurrent(g)
  BY <1>1, <1>2, <1>5, HandlerStepBenign, RequestsAreNotGens
<1>6. ~Environment
  <2>1. Environment => th' = th \/ Restart
    BY DEF Environment, GuestExit, WaitExitLoad, StartTaskExit, LauncherSave, LauncherDisarm,
           lifecycleVars
  <2>2. Restart => th'[g].pc = "idle"
    BY <1>1 DEF Restart, NotRunning
  <2> QED BY <1>1, <2>1, <2>2
<1>7. ~UNCHANGED vars
  BY DEF vars
<1> QED BY <1>3, <1>4, <1>5, <1>6, <1>7 DEF Next, Step

\* Type correctness: state.json always holds a status of the FSM, and the
\* live schedule always names a stamped generation, whatever fails and
\* however the actors of a task interleave.
THEOREM TypeCorrect == Spec => []TypeOK
<1>1. IInv => TypeOK
  BY DEF IInv
<1> QED BY <1>1, InitIInv, NextIInv, PTL DEF Spec

\* At most one timer callback may still commit its pause, and then no other
\* schedule is live (autopause.go: Arm, Disarm, pause), for every number of
\* requests, generations, faults and restarts.
THEOREM SinglePause == Spec => []SingleCurrentPause
<1>1. IInv => SingleCurrentPause
  BY DEF IInv, EpochInv
<1> QED BY <1>1, InitIInv, NextIInv, PTL DEF Spec

\* rearmRetry never replaces another schedule and never undoes a Disarm that
\* came after its callback's claim (autopause.go, rearmRetry).
THEOREM RetrySafe == Spec => RetryNeverClobbers
<1>1. IInv /\ [Next]_vars =>
        [\A g \in Gens : At(g, "retry") /\ th'[g].pc = "done" /\ gen' # gen =>
            gen = 0 /\ \A h \in Gens : Pausing(h) /\ h # g => th[h].ep < th[g].ep]_vars
  <2> SUFFICES ASSUME IInv, [Next]_vars, NEW g \in Gens,
                      At(g, "retry"), th'[g].pc = "done", gen' # gen
               PROVE  gen = 0 /\ \A h \in Gens : Pausing(h) /\ h # g => th[h].ep < th[g].ep
    OBVIOUS
  <2>1. epochCurrent(g) /\ Pausing(g)
    BY RetryStep DEF Pausing, At
  <2>2. \A h \in Gens : th[h].ep \in Nat /\ epoch \in Nat
    BY RequestsAreNotGens DEF IInv, TypeOK, ManagerTypeOK, ActorTypeOK, Thread
  <2> QED
    BY <2>1, <2>2 DEF IInv, EpochInv, SingleCurrentPause, epochCurrent
<1> QED BY <1>1, InitIInv, NextIInv, PTL DEF Spec, RetryNeverClobbers

-----------------------------------------------------------------------------
(* The handlers of pause and resume, one at a time under the task's lock. *)
\* Only the handlers of pause and resume drive the task, each under its lock,
\* and WaitExit is the one that waits for a guest that does not end by itself.
HandlersOnly ==
    /\ Kinds \subseteq {"pause", "deeppause", "resume"}
    /\ ~Idle /\ ~GuestMayExit /\ LaunchPath = "Boot"

\* At most one operation fails, no write of memory.max does, and the server
\* does not die between two steps of a handler.
Gentle == MaxFaults <= 1 /\ "mem" \notin Faulty /\ MaxRestarts = 0

\* The launcher has recorded an end.
Ended == disk.status \in {"exited", "stopped"}

\* Between two handlers the runtime, the balloon and the disk are in step.
Settled ==
    Gentle => /\ disk.status = "suspended" /\ HasCgroup => frozen
              /\ disk.status = "running" => ~frozen \/ unthawed
              /\ squeezed => disk.balloon \/ Ended
              /\ disk.status = "resuming" => disk.deep

Deep == disk.status = "suspended" /\ disk.deep
Shallow == disk.status = "suspended" /\ ~disk.deep
Held == HasCgroup => frozen
Fresh == Gentle => ~squeezed
Booked == sandbox # "paused"
Struck == faults > 0
Breathing == Gentle => alive \/ lost

\* A dead guest is a deep pause, a deep pause whose restore failed, an end that
\* is recorded, or was lost to a failed save.
Accounted == Breathing \/ Ended \/ (disk.status \in {"suspended", "resuming"} /\ disk.deep)

\* What the task looks like to the handler that holds its lock, at each of
\* its steps, and what the copy of the state it will save says.  Ended: the
\* launcher may have recorded an end under the handler.
PauseWorks(x) ==
    /\ x.pc \in {"pfreeze", "pdisarm", "psave", "pthaw", "rarm", "dload", "dfreeze", "ddump", "dsave", "dthaw"} =>
          (disk.status = "running" \/ Ended) /\ Fresh /\ Booked
    /\ x.pc \in {"pfreeze", "rarm", "dload", "dfreeze"} => Settled
    /\ x.pc \in {"pfreeze", "pdisarm"} => x.st.status = "running" /\ ~x.st.deep
    /\ x.pc \in {"pdisarm", "psave"} => Held
    /\ x.pc = "psave" => x.st.status = "suspended" /\ ~x.st.deep
    /\ x.pc \in {"pthaw", "dthaw"} => Struck
    /\ x.pc \in {"bload", "bset", "bsave", "bundo"} => (Shallow \/ Ended) /\ (Gentle => Held)
    /\ x.pc \in {"bload", "bset"} => Fresh
    /\ x.pc \in {"bset", "bsave"} => x.st.status = "suspended" /\ ~x.st.deep
    /\ x.pc = "bsave" => x.st.balloon
    /\ x.pc = "bundo" => Struck
    /\ x.pc = "release" => (Shallow \/ Deep \/ Ended \/ (disk.status = "resuming" /\ ~disk.deep)) /\ Settled

ResumeWorks(x) ==
    /\ x.pc = "rload" => ~Deep /\ Settled
    /\ x.pc \in {"rquota", "rball", "rthaw", "rsave1"} => Shallow \/ Ended
    /\ x.pc \in {"rquota", "rball", "rthaw"} => Settled /\ x.st.status = "suspended" /\ ~x.st.deep
    /\ x.pc \in {"rquota", "rball"} => (Gentle /\ squeezed => x.st.balloon)
    /\ x.pc \in {"rball", "rthaw", "rsave1", "rsave2"} => Booked
    /\ x.pc \in {"rthaw", "rsave1", "rsave2", "rsave3", "refreeze"} => Fresh
    /\ x.pc \in {"rsave1", "rsave2"} => ~frozen /\ ~x.st.deep
    /\ x.pc = "rsave1" => x.st.status = "resuming"
    /\ x.pc \in {"rsave2", "rsave3"} => (disk.status = "resuming" /\ ~disk.deep) \/ Ended
    /\ x.pc = "rsave2" => x.st.status = "running"
    /\ x.pc = "rsave3" => x.st.status = "suspended" /\ ~x.st.deep
    /\ x.pc \in {"rsave3", "refreeze"} => Struck
    /\ x.pc = "refreeze" => /\ Shallow \/ Ended \/ (disk.status = "resuming" /\ ~disk.deep)
                            /\ Gentle => disk.status # "resuming"

DeepWorks(x) ==
    /\ x.pc \in {"dfreeze", "ddump"} => x.dst.status = "running" /\ x.dst.deep /\ alive
    /\ x.pc \in {"ddump", "dsave", "dkill", "drollback"} => Held /\ Booked
    /\ x.pc \in {"dsave", "dkill"} => x.dst.status = "suspended" /\ x.dst.deep
    /\ x.pc = "drollback" => alive /\ x.dst.status = "running" /\ ~x.dst.deep /\ Struck
    /\ x.pc \in {"dkill", "drollback", "disarm", "drload", "drquota", "restore", "drrelease", "drsave"} =>
          (Deep \/ Ended) /\ Fresh
    /\ x.pc \in {"disarm", "drload", "drquota", "restore", "drrelease", "drsave"} => Settled
    /\ x.pc = "drquota" => x.st.status = "suspended" /\ x.st.deep
    /\ x.pc \in {"restore", "drrelease"} => x.st.status = "resuming" /\ x.st.deep
    /\ x.pc = "restore" => Booked
    /\ x.pc = "drsave" => \/ x.st.status = "resuming" /\ x.st.deep
                          \/ /\ x.st.status = "running" /\ ~x.st.deep /\ Booked /\ alive
                             /\ frozen => unthawed

\* The guest lives at every step that may save a status it needs it for.
GuestWorks(x) ==
    /\ x.pc # "dsave" => Accounted
    /\ x.pc \in {"pfreeze", "pdisarm", "psave", "pthaw", "rarm", "dload", "dthaw", "bload", "bset", "bsave", "bundo",
                 "rquota", "rball", "rthaw", "rsave1", "rsave2", "rsave3", "refreeze"} => Breathing

Doing(x) == PauseWorks(x) /\ ResumeWorks(x) /\ DeepWorks(x) /\ GuestWorks(x)

\* The steps of those handlers.
HandlerPCs ==
    {"pfreeze", "pdisarm", "psave", "pthaw", "rarm", "bload", "bset", "bsave", "bundo", "release",
     "rload", "rquota", "rball", "rthaw", "rsave1", "rsave2", "rsave3", "refreeze",
     "dload", "dfreeze", "ddump", "dsave", "dkill", "drollback", "dthaw", "disarm",
     "drload", "drquota", "restore", "drrelease", "drsave"}

\* What holds at every step.
World ==
    /\ disk.status \in {"running", "suspended", "resuming", "exited", "stopped"}
    /\ disk.status = "running" => ~disk.deep /\ Booked
    /\ Gentle /\ squeezed => Shallow \/ Ended
    /\ launcher # "disarm"
    /\ launcher = "waiting" => ~Ended
    /\ launcher = "save" => /\ verdict.status \in {"exited", "stopped"}
                            /\ verdict.deep => disk.status = "resuming" /\ disk.deep

HInv ==
    /\ gen = 0 /\ \A g \in Gens : th[g].pc = "idle"
    /\ World
    /\ \A r \in Requests : /\ th[r].pc \in {"idle", "done"} => lock # r
                           /\ th[r].pc \notin {"idle", "done"} => lock = r /\ th[r].pc \in HandlerPCs /\ Doing(th[r])
    /\ lock = NoOne => Settled /\ Accounted

\* A step of the handler r moves nobody else; the handler holds the lock and
\* goes on, or has returned it.
Moved(r) ==
    /\ \A b \in Actors \ {r} : th'[b] = th[b]
    /\ gen' = 0
    /\ \/ lock' = r /\ th'[r].pc \in HandlerPCs
       \/ lock' = NoOne /\ th'[r].pc = "done"

\* What the step leaves behind is in order.
Ready(r) ==
    /\ Doing(th[r])
    /\ th[r].pc = "done" => Settled /\ Accounted

\* The step does not record another end over a deep pause, unless the launcher
\* loaded the state before the deep pause was on disk.
Survives ==
    Deep => \/ disk'.status \in {"suspended", "resuming", "running"}
            \/ LoadedBeforeDeep

\* What is remembered is not forgotten, but for a cgroup that is thawed.
LEMMA Remembers ==
    ASSUME TypeOK, Remember
    PROVE  (lost => lost') /\ (frozen' /\ unthawed => unthawed')
BY DEF Remember

Keeps(r) == Moved(r) /\ World' /\ Ready(r)' /\ Survives

Goes(a, label, st, dst) ==
    th'[a].pc = label /\ th'[a].st = st /\ th'[a].dst = dst /\ th'[a].ep = th[a].ep

\* How a step changes the record of the goroutine that takes it.
LEMMA Threads ==
    ASSUME th \in [Actors -> Thread], NEW a \in Actors, NEW label, NEW st
    PROVE  /\ Goto(a, label) => Goes(a, label, th[a].st, th[a].dst)
           /\ GotoWith(a, label, st) => Goes(a, label, st, th[a].dst)
           /\ GotoDeep(a, label, st) => Goes(a, label, th[a].st, st)
           /\ Return(a) => th'[a].pc = "done" /\ th'[a].st = Blank
           /\ Goto(a, label) \/ GotoWith(a, label, st) \/ GotoDeep(a, label, st) \/ Return(a) =>
                \A b \in Actors \ {a} : th'[b] = th[b]
BY DEF Goto, GotoWith, GotoDeep, Return, Thread, NotRunning, Goes

\* What the metadata updates and the transitions of pause and resume make of a
\* state (state/manager.go, deeppause.go, balloon.go).
LEMMA Fields ==
    ASSUME NEW st \in ContainerState
    PROVE  /\ MarkDeep(st).deep /\ MarkDeep(st).status = st.status
           /\ ~ClearDeep(st).deep /\ ClearDeep(st).status = st.status
           /\ MarkBalloon(st).balloon /\ MarkBalloon(st).deep = st.deep /\ MarkBalloon(st).status = st.status
           /\ ClearBalloon(st).deep = st.deep /\ ClearBalloon(st).status = st.status
           /\ st.status = "running" =>
                /\ Accepts(st, "suspended") /\ Transition(st, "suspended").status = "suspended"
                /\ Transition(st, "suspended").deep = st.deep
           /\ st.status = "suspended" =>
                Transition(st, "resuming").status = "resuming" /\ Transition(st, "resuming").deep = st.deep
           /\ st.status = "resuming" =>
                /\ Transition(st, "running").status = "running" /\ Transition(st, "running").deep = st.deep
                /\ Transition(st, "suspended") = st
BY DEF ContainerState, MarkDeep, ClearDeep, MarkBalloon, ClearBalloon, Transition, Accepts, canTransition,
       Terminal, allowed

\* Every step of Resume, DeepPause, DeepResume and the pause tail that a
\* handler takes.
LEMMA ManagerKeeps ==
    ASSUME HandlersOnly, TypeOK, HInv, NEW r \in Requests, ManagerStep(r), UNCHANGED outside, Remember
    PROVE  Keeps(r)
<1> USE LifecycleAssumption, TaskControlAssumption
<1>1. /\ th \in [Actors -> Thread] /\ r \in Actors /\ disk \in ContainerState /\ faults \in Nat
      /\ th[r].st \in ContainerState /\ th[r].dst \in ContainerState /\ MaxFaults \in Nat
      /\ r \notin Gens /\ NoOne # r /\ gen = 0 /\ World
      /\ frozen \in BOOLEAN /\ alive \in BOOLEAN /\ squeezed \in BOOLEAN
      /\ lock = NoOne => Settled /\ Accounted
      /\ (lost => lost') /\ (frozen' /\ unthawed => unthawed')
      /\ th[r].pc \in {"idle", "done"} => lock # r
      /\ th[r].pc \notin {"idle", "done"} => lock = r /\ th[r].pc \in HandlerPCs /\ Doing(th[r])
  BY RequestsAreNotGens, Remembers DEF HInv, TypeOK, ManagerTypeOK, HostTypeOK, ActorTypeOK, Thread
<1>2. CASE BalloonLoad(r)
  <2>1. (\A b \in Actors \ {r} : th'[b] = th[b]) /\ gen' = 0
    BY <1>1, <1>2, Threads
       DEF BalloonLoad, sched
  <2>2. /\ Return(r) => th'[r].pc = "done"
        /\ GotoWith(r, "bset", disk) => Goes(r, "bset", disk, th[r].dst)
        /\ Goto(r, "release") => Goes(r, "release", th[r].st, th[r].dst)
    BY <1>1, Threads
  <2>3. (lock' = r /\ th'[r].pc \in HandlerPCs) \/ (lock' = NoOne /\ th'[r].pc = "done")
    BY <1>1, <1>2, <2>2
       DEF BalloonLoad, At, HandlerPCs, Goes
  <2>4. World' /\ Survives
    BY <1>1, <1>2, <2>2, Fields
       DEF BalloonLoad, Works, Fails, At, host, sched, Goes, Doing, PauseWorks, ResumeWorks,
           DeepWorks, GuestWorks, World, Survives, Settled, Deep, Shallow, Held, Booked, Struck,
           Gentle, Ended, Fresh, Breathing, Accounted, outside
  <2>5. Ready(r)'
    BY <1>1, <1>2, <2>2, Fields
       DEF BalloonLoad, Works, Fails, At, host, sched, Goes, Doing, PauseWorks, ResumeWorks,
           DeepWorks, GuestWorks, World, Ready, Settled, Deep, Shallow, Held, Booked, Struck,
           Gentle, Ended, Fresh, Breathing, Accounted
  <2> QED BY <2>1, <2>3, <2>4, <2>5 DEF Keeps, Moved
<1>3. CASE BalloonSet(r)
  <2>1. (\A b \in Actors \ {r} : th'[b] = th[b]) /\ gen' = 0
    BY <1>1, <1>3, Threads
       DEF BalloonSet, sched
  <2>2. /\ Return(r) => th'[r].pc = "done"
        /\ GotoWith(r, "bsave", MarkBalloon(th[r].st)) => Goes(r, "bsave", MarkBalloon(th[r].st), th[r].dst)
        /\ Goto(r, "release") => Goes(r, "release", th[r].st, th[r].dst)
    BY <1>1, Threads
  <2>3. (lock' = r /\ th'[r].pc \in HandlerPCs) \/ (lock' = NoOne /\ th'[r].pc = "done")
    BY <1>1, <1>3, <2>2
       DEF BalloonSet, At, HandlerPCs, Goes
  <2>4. World' /\ Survives
    BY <1>1, <1>3, <2>2, Fields
       DEF BalloonSet, Works, Fails, At, sched, Goes, Doing, PauseWorks, ResumeWorks, DeepWorks,
           GuestWorks, World, Survives, Settled, Deep, Shallow, Held, Booked, Struck, Gentle, Ended,
           Fresh, Breathing, Accounted, outside
  <2>5. Ready(r)'
    BY <1>1, <1>3, <2>2, Fields
       DEF BalloonSet, Works, Fails, At, sched, Goes, Doing, PauseWorks, ResumeWorks, DeepWorks,
           GuestWorks, World, Ready, Settled, Deep, Shallow, Held, Booked, Struck, Gentle, Ended,
           Fresh, Breathing, Accounted
  <2> QED BY <2>1, <2>3, <2>4, <2>5 DEF Keeps, Moved
<1>4. CASE BalloonSave(r)
  <2>1. (\A b \in Actors \ {r} : th'[b] = th[b]) /\ gen' = 0
    BY <1>1, <1>4, Threads
       DEF BalloonSave, sched
  <2>2. /\ Return(r) => th'[r].pc = "done"
        /\ Goto(r, "release") => Goes(r, "release", th[r].st, th[r].dst)
        /\ Goto(r, "bundo") => Goes(r, "bundo", th[r].st, th[r].dst)
    BY <1>1, Threads
  <2>3. (lock' = r /\ th'[r].pc \in HandlerPCs) \/ (lock' = NoOne /\ th'[r].pc = "done")
    BY <1>1, <1>4, <2>2
       DEF BalloonSave, At, HandlerPCs, Goes
  <2>4. World' /\ Survives
    BY <1>1, <1>4, <2>2, Fields
       DEF BalloonSave, Works, Fails, At, host, sched, Goes, Doing, PauseWorks, ResumeWorks,
           DeepWorks, GuestWorks, World, Survives, Settled, Deep, Shallow, Held, Booked, Struck,
           Gentle, Ended, Fresh, Breathing, Accounted, outside
  <2>5. Ready(r)'
    BY <1>1, <1>4, <2>2, Fields
       DEF BalloonSave, Works, Fails, At, host, sched, Goes, Doing, PauseWorks, ResumeWorks,
           DeepWorks, GuestWorks, World, Ready, Settled, Deep, Shallow, Held, Booked, Struck,
           Gentle, Ended, Fresh, Breathing, Accounted
  <2> QED BY <2>1, <2>3, <2>4, <2>5 DEF Keeps, Moved
<1>5. CASE BalloonUndo(r)
  <2>1. (\A b \in Actors \ {r} : th'[b] = th[b]) /\ gen' = 0
    BY <1>1, <1>5, Threads
       DEF BalloonUndo, sched
  <2>2. /\ Return(r) => th'[r].pc = "done"
        /\ Goto(r, "release") => Goes(r, "release", th[r].st, th[r].dst)
    BY <1>1, Threads
  <2>3. (lock' = r /\ th'[r].pc \in HandlerPCs) \/ (lock' = NoOne /\ th'[r].pc = "done")
    BY <1>1, <1>5, <2>2
       DEF BalloonUndo, At, HandlerPCs, Goes
  <2>4. World' /\ Survives
    BY <1>1, <1>5, <2>2, Fields
       DEF BalloonUndo, Works, Fails, At, sched, Goes, Doing, PauseWorks, ResumeWorks, DeepWorks,
           GuestWorks, World, Survives, Settled, Deep, Shallow, Held, Booked, Struck, Gentle, Ended,
           Fresh, Breathing, Accounted, outside
  <2>5. Ready(r)'
    BY <1>1, <1>5, <2>2, Fields
       DEF BalloonUndo, Works, Fails, At, sched, Goes, Doing, PauseWorks, ResumeWorks, DeepWorks,
           GuestWorks, World, Ready, Settled, Deep, Shallow, Held, Booked, Struck, Gentle, Ended,
           Fresh, Breathing, Accounted
  <2> QED BY <2>1, <2>3, <2>4, <2>5 DEF Keeps, Moved
<1>6. CASE releaseQuota(r)
  <2>1. (\A b \in Actors \ {r} : th'[b] = th[b]) /\ gen' = 0
    BY <1>1, <1>6, Threads
       DEF releaseQuota, Finish, sched
  <2>2. /\ Return(r) => th'[r].pc = "done"
    BY <1>1, Threads
  <2>3. (lock' = r /\ th'[r].pc \in HandlerPCs) \/ (lock' = NoOne /\ th'[r].pc = "done")
    BY <1>1, <1>6, <2>2
       DEF releaseQuota, Finish, At, HandlerPCs, Goes
  <2>4. World' /\ Survives
    BY <1>1, <1>6, <2>2, Fields
       DEF releaseQuota, SuspendByTask, Works, Fails, Finish, At, host, sched, Goes, Doing,
           PauseWorks, ResumeWorks, DeepWorks, GuestWorks, World, Survives, Settled, Deep, Shallow,
           Held, Booked, Struck, Gentle, Ended, Fresh, Breathing, Accounted, outside
  <2>5. Ready(r)'
    BY <1>1, <1>6, <2>2, Fields
       DEF releaseQuota, SuspendByTask, Works, Fails, Finish, At, host, sched, Goes, Doing,
           PauseWorks, ResumeWorks, DeepWorks, GuestWorks, World, Ready, Settled, Deep, Shallow,
           Held, Booked, Struck, Gentle, Ended, Fresh, Breathing, Accounted
  <2> QED BY <2>1, <2>3, <2>4, <2>5 DEF Keeps, Moved
<1>7. CASE ResumeLoad(r)
  <2>1. (\A b \in Actors \ {r} : th'[b] = th[b]) /\ gen' = 0
    BY <1>1, <1>7, Threads
       DEF ResumeLoad, Finish, sched
  <2>2. /\ Return(r) => th'[r].pc = "done"
        /\ GotoWith(r, "rquota", disk) => Goes(r, "rquota", disk, th[r].dst)
    BY <1>1, Threads
  <2>3. (lock' = r /\ th'[r].pc \in HandlerPCs) \/ (lock' = NoOne /\ th'[r].pc = "done")
    BY <1>1, <1>7, <2>2
       DEF ResumeLoad, Finish, At, HandlerPCs, Goes
  <2>4. World' /\ Survives
    BY <1>1, <1>7, <2>2, Fields
       DEF ResumeLoad, Finish, At, host, sched, Goes, Doing, PauseWorks, ResumeWorks, DeepWorks,
           GuestWorks, World, Survives, Settled, Deep, Shallow, Held, Booked, Struck, Gentle, Ended,
           Fresh, Breathing, Accounted, outside
  <2>5. Ready(r)'
    BY <1>1, <1>7, <2>2, Fields
       DEF ResumeLoad, Finish, At, host, sched, Goes, Doing, PauseWorks, ResumeWorks, DeepWorks,
           GuestWorks, World, Ready, Settled, Deep, Shallow, Held, Booked, Struck, Gentle, Ended,
           Fresh, Breathing, Accounted
  <2> QED BY <2>1, <2>3, <2>4, <2>5 DEF Keeps, Moved
<1>8. CASE ResumeReserve(r)
  <2>1. (\A b \in Actors \ {r} : th'[b] = th[b]) /\ gen' = 0
    BY <1>1, <1>8, Threads
       DEF ResumeReserve, reserveQuota, Finish, sched
  <2>2. /\ Return(r) => th'[r].pc = "done"
        /\ Goto(r, "rball") => Goes(r, "rball", th[r].st, th[r].dst)
    BY <1>1, Threads
  <2>3. (lock' = r /\ th'[r].pc \in HandlerPCs) \/ (lock' = NoOne /\ th'[r].pc = "done")
    BY <1>1, <1>8, <2>2
       DEF ResumeReserve, reserveQuota, Finish, At, HandlerPCs, Goes
  <2>4. World' /\ Survives
    BY <1>1, <1>8, <2>2, Fields
       DEF ResumeReserve, reserveQuota, Works, Fails, Finish, At, host, sched, Goes, Doing,
           PauseWorks, ResumeWorks, DeepWorks, GuestWorks, World, Survives, Settled, Deep, Shallow,
           Held, Booked, Struck, Gentle, Ended, Fresh, Breathing, Accounted, outside
  <2>5. Ready(r)'
    BY <1>1, <1>8, <2>2, Fields
       DEF ResumeReserve, reserveQuota, Works, Fails, Finish, At, host, sched, Goes, Doing,
           PauseWorks, ResumeWorks, DeepWorks, GuestWorks, World, Ready, Settled, Deep, Shallow,
           Held, Booked, Struck, Gentle, Ended, Fresh, Breathing, Accounted
  <2> QED BY <2>1, <2>3, <2>4, <2>5 DEF Keeps, Moved
<1>9. CASE RestorePauseBalloon(r)
  <2>1. (\A b \in Actors \ {r} : th'[b] = th[b]) /\ gen' = 0
    BY <1>1, <1>9, Threads
       DEF RestorePauseBalloon, sched
  <2>2. /\ Return(r) => th'[r].pc = "done"
        /\ GotoWith(r, "rthaw", ClearBalloon(th[r].st)) => Goes(r, "rthaw", ClearBalloon(th[r].st), th[r].dst)
    BY <1>1, Threads
  <2>3. (lock' = r /\ th'[r].pc \in HandlerPCs) \/ (lock' = NoOne /\ th'[r].pc = "done")
    BY <1>1, <1>9, <2>2
       DEF RestorePauseBalloon, At, HandlerPCs, Goes
  <2>4. Gentle => ~squeezed'
    BY <1>1, <1>9 DEF RestorePauseBalloon, At, Doing, ResumeWorks, Gentle, Fails
  <2>5. World' /\ Survives
    BY <1>1, <1>9, <2>2, Fields
       DEF RestorePauseBalloon, Works, Fails, At, sched, Goes, Doing, PauseWorks, ResumeWorks,
           DeepWorks, GuestWorks, World, Survives, Settled, Deep, Shallow, Held, Booked, Struck,
           Gentle, Ended, Fresh, Breathing, Accounted, outside
  <2>6. Ready(r)'
    BY <1>1, <1>9, <2>2, <2>4, Fields
       DEF RestorePauseBalloon, Works, Fails, At, sched, Goes, Doing, PauseWorks, ResumeWorks,
           DeepWorks, GuestWorks, World, Ready, Settled, Deep, Shallow, Held, Booked, Struck,
           Gentle, Ended, Fresh, Breathing, Accounted
  <2> QED BY <2>1, <2>3, <2>5, <2>6 DEF Keeps, Moved
<1>10. CASE ResumeThaw(r)
  <2>1. (\A b \in Actors \ {r} : th'[b] = th[b]) /\ gen' = 0
    BY <1>1, <1>10, Threads
       DEF ResumeThaw, sched
  <2>2. /\ Return(r) => th'[r].pc = "done"
        /\ GotoWith(r, "rsave1", Transition(th[r].st, "resuming")) => Goes(r, "rsave1", Transition(th[r].st, "resuming"), th[r].dst)
        /\ Goto(r, "release") => Goes(r, "release", th[r].st, th[r].dst)
    BY <1>1, Threads
  <2>3. (lock' = r /\ th'[r].pc \in HandlerPCs) \/ (lock' = NoOne /\ th'[r].pc = "done")
    BY <1>1, <1>10, <2>2
       DEF ResumeThaw, At, HandlerPCs, Goes
  <2>4. World' /\ Survives
    BY <1>1, <1>10, <2>2, Fields
       DEF ResumeThaw, Works, Fails, At, sched, Goes, Doing, PauseWorks, ResumeWorks, DeepWorks,
           GuestWorks, World, Survives, Settled, Deep, Shallow, Held, Booked, Struck, Gentle, Ended,
           Fresh, Breathing, Accounted, outside
  <2>5. Ready(r)'
    BY <1>1, <1>10, <2>2, Fields
       DEF ResumeThaw, Works, Fails, At, sched, Goes, Doing, PauseWorks, ResumeWorks, DeepWorks,
           GuestWorks, World, Ready, Settled, Deep, Shallow, Held, Booked, Struck, Gentle, Ended,
           Fresh, Breathing, Accounted
  <2> QED BY <2>1, <2>3, <2>4, <2>5 DEF Keeps, Moved
<1>11. CASE ResumeSaveResuming(r)
  <2>1. (\A b \in Actors \ {r} : th'[b] = th[b]) /\ gen' = 0
    BY <1>1, <1>11, Threads
       DEF ResumeSaveResuming, sched
  <2>2. /\ Return(r) => th'[r].pc = "done"
        /\ GotoWith(r, "rsave2", Transition(th[r].st, "running")) => Goes(r, "rsave2", Transition(th[r].st, "running"), th[r].dst)
        /\ Goto(r, "refreeze") => Goes(r, "refreeze", th[r].st, th[r].dst)
    BY <1>1, Threads
  <2>3. (lock' = r /\ th'[r].pc \in HandlerPCs) \/ (lock' = NoOne /\ th'[r].pc = "done")
    BY <1>1, <1>11, <2>2
       DEF ResumeSaveResuming, At, HandlerPCs, Goes
  <2>4. World' /\ Survives
    BY <1>1, <1>11, <2>2, Fields
       DEF ResumeSaveResuming, Works, Fails, At, host, sched, Goes, Doing, PauseWorks, ResumeWorks,
           DeepWorks, GuestWorks, World, Survives, Settled, Deep, Shallow, Held, Booked, Struck,
           Gentle, Ended, Fresh, Breathing, Accounted, outside
  <2>5. Ready(r)'
    BY <1>1, <1>11, <2>2, Fields
       DEF ResumeSaveResuming, Works, Fails, At, host, sched, Goes, Doing, PauseWorks, ResumeWorks,
           DeepWorks, GuestWorks, World, Ready, Settled, Deep, Shallow, Held, Booked, Struck,
           Gentle, Ended, Fresh, Breathing, Accounted
  <2> QED BY <2>1, <2>3, <2>4, <2>5 DEF Keeps, Moved
<1>12. CASE ResumeSaveRunning(r)
  <2>1. (\A b \in Actors \ {r} : th'[b] = th[b]) /\ gen' = 0
    BY <1>1, <1>12, Threads
       DEF ResumeSaveRunning, sched
  <2>2. /\ Return(r) => th'[r].pc = "done"
        /\ Goto(r, "rarm") => Goes(r, "rarm", th[r].st, th[r].dst)
        /\ GotoWith(r, "rsave3", Transition(th[r].st, "suspended")) => Goes(r, "rsave3", Transition(th[r].st, "suspended"), th[r].dst)
    BY <1>1, Threads
  <2>3. (lock' = r /\ th'[r].pc \in HandlerPCs) \/ (lock' = NoOne /\ th'[r].pc = "done")
    BY <1>1, <1>12, <2>2
       DEF ResumeSaveRunning, At, HandlerPCs, Goes
  <2>4. World' /\ Survives
    BY <1>1, <1>12, <2>2, Fields
       DEF ResumeSaveRunning, Works, Fails, At, host, sched, Goes, Doing, PauseWorks, ResumeWorks,
           DeepWorks, GuestWorks, World, Survives, Settled, Deep, Shallow, Held, Booked, Struck,
           Gentle, Ended, Fresh, Breathing, Accounted, outside
  <2>5. Ready(r)'
    BY <1>1, <1>12, <2>2, Fields
       DEF ResumeSaveRunning, Works, Fails, At, host, sched, Goes, Doing, PauseWorks, ResumeWorks,
           DeepWorks, GuestWorks, World, Ready, Settled, Deep, Shallow, Held, Booked, Struck,
           Gentle, Ended, Fresh, Breathing, Accounted
  <2> QED BY <2>1, <2>3, <2>4, <2>5 DEF Keeps, Moved
<1>13. CASE ResumeRollback(r)
  <2>1. (\A b \in Actors \ {r} : th'[b] = th[b]) /\ gen' = 0
    BY <1>1, <1>13, Threads
       DEF ResumeRollback, sched
  <2>2. /\ Return(r) => th'[r].pc = "done"
        /\ Goto(r, "refreeze") => Goes(r, "refreeze", th[r].st, th[r].dst)
    BY <1>1, Threads
  <2>3. (lock' = r /\ th'[r].pc \in HandlerPCs) \/ (lock' = NoOne /\ th'[r].pc = "done")
    BY <1>1, <1>13, <2>2
       DEF ResumeRollback, At, HandlerPCs, Goes
  <2>4. World' /\ Survives
    BY <1>1, <1>13, <2>2, Fields
       DEF ResumeRollback, Works, Fails, At, host, sched, Goes, Doing, PauseWorks, ResumeWorks,
           DeepWorks, GuestWorks, World, Survives, Settled, Deep, Shallow, Held, Booked, Struck,
           Gentle, Ended, Fresh, Breathing, Accounted, outside
  <2>5. Ready(r)'
    BY <1>1, <1>13, <2>2, Fields
       DEF ResumeRollback, Works, Fails, At, host, sched, Goes, Doing, PauseWorks, ResumeWorks,
           DeepWorks, GuestWorks, World, Ready, Settled, Deep, Shallow, Held, Booked, Struck,
           Gentle, Ended, Fresh, Breathing, Accounted
  <2> QED BY <2>1, <2>3, <2>4, <2>5 DEF Keeps, Moved
<1>14. CASE refreezeBestEffort(r)
  <2>1. (\A b \in Actors \ {r} : th'[b] = th[b]) /\ gen' = 0
    BY <1>1, <1>14, Threads
       DEF refreezeBestEffort, sched
  <2>2. /\ Return(r) => th'[r].pc = "done"
        /\ Goto(r, "release") => Goes(r, "release", th[r].st, th[r].dst)
    BY <1>1, Threads
  <2>3. (lock' = r /\ th'[r].pc \in HandlerPCs) \/ (lock' = NoOne /\ th'[r].pc = "done")
    BY <1>1, <1>14, <2>2
       DEF refreezeBestEffort, At, HandlerPCs, Goes
  <2>4. World' /\ Survives
    BY <1>1, <1>14, <2>2, Fields
       DEF refreezeBestEffort, BestEffort, Works, Fails, At, sched, Goes, Doing, PauseWorks,
           ResumeWorks, DeepWorks, GuestWorks, World, Survives, Settled, Deep, Shallow, Held,
           Booked, Struck, Gentle, Ended, Fresh, Breathing, Accounted, outside
  <2>5. Ready(r)'
    BY <1>1, <1>14, <2>2, Fields
       DEF refreezeBestEffort, BestEffort, Works, Fails, At, sched, Goes, Doing, PauseWorks,
           ResumeWorks, DeepWorks, GuestWorks, World, Ready, Settled, Deep, Shallow, Held, Booked,
           Struck, Gentle, Ended, Fresh, Breathing, Accounted
  <2> QED BY <2>1, <2>3, <2>4, <2>5 DEF Keeps, Moved
<1>15. CASE ResumeArm(r)
  <2>1. (\A b \in Actors \ {r} : th'[b] = th[b]) /\ gen' = 0
    BY <1>1, <1>15, Threads
       DEF ResumeArm, Finish, ArmIfIdle, sched, HandlersOnly
  <2>2. /\ Return(r) => th'[r].pc = "done"
    BY <1>1, Threads
  <2>3. (lock' = r /\ th'[r].pc \in HandlerPCs) \/ (lock' = NoOne /\ th'[r].pc = "done")
    BY <1>1, <1>15, <2>2
       DEF ResumeArm, Finish, At, HandlerPCs, Goes
  <2>4. World' /\ Survives
    BY <1>1, <1>15, <2>2, Fields
       DEF ResumeArm, Finish, ArmIfIdle, At, host, Goes, Doing, PauseWorks, ResumeWorks, DeepWorks,
           GuestWorks, World, Survives, Settled, Deep, Shallow, Held, Booked, Struck, Gentle, Ended,
           Fresh, Breathing, Accounted, outside
  <2>5. Ready(r)'
    BY <1>1, <1>15, <2>2, Fields
       DEF ResumeArm, Finish, ArmIfIdle, At, host, Goes, Doing, PauseWorks, ResumeWorks, DeepWorks,
           GuestWorks, World, Ready, Settled, Deep, Shallow, Held, Booked, Struck, Gentle, Ended,
           Fresh, Breathing, Accounted
  <2> QED BY <2>1, <2>3, <2>4, <2>5 DEF Keeps, Moved
<1>16. CASE DeepLoad(r)
  <2>1. (\A b \in Actors \ {r} : th'[b] = th[b]) /\ gen' = 0
    BY <1>1, <1>16, Threads
       DEF DeepLoad, DeepError, Finish, sched
  <2>2. /\ Return(r) => th'[r].pc = "done"
        /\ GotoDeep(r, "dfreeze", MarkDeep(disk)) => Goes(r, "dfreeze", th[r].st, MarkDeep(disk))
    BY <1>1, Threads
  <2>3. (lock' = r /\ th'[r].pc \in HandlerPCs) \/ (lock' = NoOne /\ th'[r].pc = "done")
    BY <1>1, <1>16, <2>2
       DEF DeepLoad, DeepError, Finish, At, HandlerPCs, Goes
  <2>4. World' /\ Survives
    BY <1>1, <1>16, <2>2, Fields
       DEF DeepLoad, DeepError, Finish, At, host, sched, Goes, Doing, PauseWorks, ResumeWorks,
           DeepWorks, GuestWorks, World, Survives, Settled, Deep, Shallow, Held, Booked, Struck,
           Gentle, Ended, Fresh, Breathing, Accounted, outside
  <2>5. Ready(r)'
    BY <1>1, <1>16, <2>2, Fields
       DEF DeepLoad, DeepError, Finish, At, host, sched, Goes, Doing, PauseWorks, ResumeWorks,
           DeepWorks, GuestWorks, World, Ready, Settled, Deep, Shallow, Held, Booked, Struck,
           Gentle, Ended, Fresh, Breathing, Accounted
  <2> QED BY <2>1, <2>3, <2>4, <2>5 DEF Keeps, Moved
<1>17. CASE DeepFreeze(r)
  <2>1. (\A b \in Actors \ {r} : th'[b] = th[b]) /\ gen' = 0
    BY <1>1, <1>17, Threads
       DEF DeepFreeze, DeepError, Finish, sched
  <2>2. /\ Return(r) => th'[r].pc = "done"
        /\ Goto(r, "ddump") => Goes(r, "ddump", th[r].st, th[r].dst)
    BY <1>1, Threads
  <2>3. (lock' = r /\ th'[r].pc \in HandlerPCs) \/ (lock' = NoOne /\ th'[r].pc = "done")
    BY <1>1, <1>17, <2>2
       DEF DeepFreeze, DeepError, Finish, At, HandlerPCs, Goes
  <2>4. World' /\ Survives
    BY <1>1, <1>17, <2>2, Fields
       DEF DeepFreeze, DeepError, Works, Fails, Finish, At, sched, Goes, Doing, PauseWorks,
           ResumeWorks, DeepWorks, GuestWorks, World, Survives, Settled, Deep, Shallow, Held,
           Booked, Struck, Gentle, Ended, Fresh, Breathing, Accounted, outside
  <2>5. Ready(r)'
    BY <1>1, <1>17, <2>2, Fields
       DEF DeepFreeze, DeepError, Works, Fails, Finish, At, sched, Goes, Doing, PauseWorks,
           ResumeWorks, DeepWorks, GuestWorks, World, Ready, Settled, Deep, Shallow, Held, Booked,
           Struck, Gentle, Ended, Fresh, Breathing, Accounted
  <2> QED BY <2>1, <2>3, <2>4, <2>5 DEF Keeps, Moved
<1>18. CASE DeepDump(r)
  <2>1. (\A b \in Actors \ {r} : th'[b] = th[b]) /\ gen' = 0
    BY <1>1, <1>18, Threads
       DEF DeepDump, sched
  <2>2. /\ Return(r) => th'[r].pc = "done"
        /\ GotoDeep(r, "dsave", Transition(th[r].dst, "suspended")) => Goes(r, "dsave", th[r].st, Transition(th[r].dst, "suspended"))
        /\ Goto(r, "dthaw") => Goes(r, "dthaw", th[r].st, th[r].dst)
    BY <1>1, Threads
  <2>3. (lock' = r /\ th'[r].pc \in HandlerPCs) \/ (lock' = NoOne /\ th'[r].pc = "done")
    BY <1>1, <1>18, <2>2
       DEF DeepDump, At, HandlerPCs, Goes
  <2>4. World' /\ Survives
    BY <1>1, <1>18, <2>2, Fields
       DEF DeepDump, Works, Fails, At, sched, Goes, Doing, PauseWorks, ResumeWorks, DeepWorks,
           GuestWorks, World, Survives, Settled, Deep, Shallow, Held, Booked, Struck, Gentle, Ended,
           Fresh, Breathing, Accounted, outside
  <2>5. /\ At(r, "ddump") /\ Doing(th[r])
        /\ UNCHANGED <<disk, frozen, squeezed, sandbox>> /\ (lost => lost')
    BY <1>1, <1>18 DEF DeepDump, At
  <2>6. ASSUME Goes(r, "dsave", th[r].st, Transition(th[r].dst, "suspended")) PROVE Ready(r)'
    BY <1>1, <2>5, <2>6, Fields
       DEF At, Goes, Doing, PauseWorks, ResumeWorks, DeepWorks, GuestWorks, Ready, Held, Booked, Gentle,
           Ended, Fresh
  <2>7. ASSUME Goes(r, "dthaw", th[r].st, th[r].dst), UNCHANGED alive, Struck' PROVE Ready(r)'
    BY <1>1, <2>5, <2>7
       DEF At, Goes, Doing, PauseWorks, ResumeWorks, DeepWorks, GuestWorks, Ready, Booked, Gentle,
           Ended, Fresh, Breathing, Accounted
  <2>8. Ready(r)'
    BY <1>1, <1>18, <2>2, <2>6, <2>7 DEF DeepDump, Fails, Struck
  <2> QED BY <2>1, <2>3, <2>4, <2>8 DEF Keeps, Moved
<1>19. CASE DeepSave(r)
  <2>1. (\A b \in Actors \ {r} : th'[b] = th[b]) /\ gen' = 0
    BY <1>1, <1>19, Threads
       DEF DeepSave, sched
  <2>2. /\ Return(r) => th'[r].pc = "done"
        /\ Goto(r, "dkill") => Goes(r, "dkill", th[r].st, th[r].dst)
        /\ Goto(r, "dthaw") => Goes(r, "dthaw", th[r].st, th[r].dst)
    BY <1>1, Threads
  <2>3. (lock' = r /\ th'[r].pc \in HandlerPCs) \/ (lock' = NoOne /\ th'[r].pc = "done")
    BY <1>1, <1>19, <2>2
       DEF DeepSave, At, HandlerPCs, Goes
  <2>4. World' /\ Survives
    BY <1>1, <1>19, <2>2, Fields
       DEF DeepSave, Works, Fails, At, host, sched, Goes, Doing, PauseWorks, ResumeWorks, DeepWorks,
           GuestWorks, World, Survives, Settled, Deep, Shallow, Held, Booked, Struck, Gentle, Ended,
           Fresh, Breathing, Accounted, outside
  <2>5. th'[r].pc = "dthaw" /\ ~alive => lost'
    BY <1>1, <1>19 DEF DeepSave, Remember, LosesGuest
  <2>6. Ready(r)'
    BY <1>1, <1>19, <2>2, <2>5, Fields
       DEF DeepSave, Works, Fails, At, host, sched, Goes, Doing, PauseWorks, ResumeWorks, DeepWorks,
           GuestWorks, World, Ready, Settled, Deep, Shallow, Held, Booked, Struck, Gentle, Ended,
           Fresh, Breathing, Accounted
  <2> QED BY <2>1, <2>3, <2>4, <2>6 DEF Keeps, Moved
<1>20. CASE DeepKill(r)
  <2>1. (\A b \in Actors \ {r} : th'[b] = th[b]) /\ gen' = 0
    BY <1>1, <1>20, Threads
       DEF DeepKill, sched
  <2>2. /\ Return(r) => th'[r].pc = "done"
        /\ Goto(r, "disarm") => Goes(r, "disarm", th[r].st, th[r].dst)
        /\ GotoDeep(r, "drollback", Transition(Transition(ClearDeep(th[r].dst), "resuming"), "running")) => Goes(r, "drollback", th[r].st, Transition(Transition(ClearDeep(th[r].dst), "resuming"), "running"))
    BY <1>1, Threads
  <2>3. (lock' = r /\ th'[r].pc \in HandlerPCs) \/ (lock' = NoOne /\ th'[r].pc = "done")
    BY <1>1, <1>20, <2>2
       DEF DeepKill, At, HandlerPCs, Goes
  <2>4. /\ ClearDeep(th[r].dst) \in ContainerState
        /\ Transition(ClearDeep(th[r].dst), "resuming") \in ContainerState
    BY <1>1, MetadataType, TransitionType DEF Status
  <2>5. World' /\ Survives
    BY <1>1, <1>20, <2>2, Fields
       DEF DeepKill, Works, Fails, At, sched, Goes, Doing, PauseWorks, ResumeWorks, DeepWorks,
           GuestWorks, World, Survives, Settled, Deep, Shallow, Held, Booked, Struck, Gentle, Ended,
           Fresh, Breathing, Accounted, outside
  <2>6. Ready(r)'
    BY <1>1, <1>20, <2>2, <2>4, Fields
       DEF DeepKill, Works, Fails, At, sched, Goes, Doing, PauseWorks, ResumeWorks, DeepWorks,
           GuestWorks, World, Ready, Settled, Deep, Shallow, Held, Booked, Struck, Gentle, Ended,
           Fresh, Breathing, Accounted
  <2> QED BY <2>1, <2>3, <2>5, <2>6 DEF Keeps, Moved
<1>21. CASE DeepRollback(r)
  <2>1. (\A b \in Actors \ {r} : th'[b] = th[b]) /\ gen' = 0
    BY <1>1, <1>21, Threads
       DEF DeepRollback, DeepError, Finish, sched
  <2>2. /\ Return(r) => th'[r].pc = "done"
        /\ Goto(r, "dthaw") => Goes(r, "dthaw", th[r].st, th[r].dst)
    BY <1>1, Threads
  <2>3. (lock' = r /\ th'[r].pc \in HandlerPCs) \/ (lock' = NoOne /\ th'[r].pc = "done")
    BY <1>1, <1>21, <2>2
       DEF DeepRollback, DeepError, Finish, At, HandlerPCs, Goes
  <2>4. World' /\ Survives
    BY <1>1, <1>21, <2>2, Fields
       DEF DeepRollback, DeepError, Works, Fails, Finish, At, host, sched, Goes, Doing, PauseWorks,
           ResumeWorks, DeepWorks, GuestWorks, World, Survives, Settled, Deep, Shallow, Held,
           Booked, Struck, Gentle, Ended, Fresh, Breathing, Accounted, outside
  <2>5. Ready(r)'
    BY <1>1, <1>21, <2>2, Fields
       DEF DeepRollback, DeepError, Works, Fails, Finish, At, host, sched, Goes, Doing, PauseWorks,
           ResumeWorks, DeepWorks, GuestWorks, World, Ready, Settled, Deep, Shallow, Held, Booked,
           Struck, Gentle, Ended, Fresh, Breathing, Accounted
  <2> QED BY <2>1, <2>3, <2>4, <2>5 DEF Keeps, Moved
<1>22. CASE DeepThaw(r)
  <2>1. (\A b \in Actors \ {r} : th'[b] = th[b]) /\ gen' = 0
    BY <1>1, <1>22, Threads
       DEF DeepThaw, DeepError, Finish, sched
  <2>2. /\ Return(r) => th'[r].pc = "done"
    BY <1>1, Threads
  <2>3. (lock' = r /\ th'[r].pc \in HandlerPCs) \/ (lock' = NoOne /\ th'[r].pc = "done")
    BY <1>1, <1>22, <2>2
       DEF DeepThaw, DeepError, Finish, At, HandlerPCs, Goes
  <2>4. World' /\ Survives
    BY <1>1, <1>22, <2>2, Fields
       DEF DeepThaw, BestEffort, DeepError, Works, Fails, Finish, At, sched, Goes, Doing,
           PauseWorks, ResumeWorks, DeepWorks, GuestWorks, World, Survives, Settled, Deep, Shallow,
           Held, Booked, Struck, Gentle, Ended, Fresh, Breathing, Accounted, outside
  <2>5. Ready(r)'
    BY <1>1, <1>22, <2>2, Fields
       DEF DeepThaw, BestEffort, DeepError, Works, Fails, Finish, At, sched, Goes, Doing,
           PauseWorks, ResumeWorks, DeepWorks, GuestWorks, World, Ready, Settled, Deep, Shallow,
           Held, Booked, Struck, Gentle, Ended, Fresh, Breathing, Accounted
  <2> QED BY <2>1, <2>3, <2>4, <2>5 DEF Keeps, Moved
<1>23. CASE DeepDisarm(r)
  <2>1. (\A b \in Actors \ {r} : th'[b] = th[b]) /\ gen' = 0
    BY <1>1, <1>23, Threads
       DEF DeepDisarm, Disarm
  <2>2. /\ Return(r) => th'[r].pc = "done"
        /\ Goto(r, "release") => Goes(r, "release", th[r].st, th[r].dst)
    BY <1>1, Threads
  <2>3. (lock' = r /\ th'[r].pc \in HandlerPCs) \/ (lock' = NoOne /\ th'[r].pc = "done")
    BY <1>1, <1>23, <2>2
       DEF DeepDisarm, At, HandlerPCs, Goes
  <2>4. World' /\ Survives
    BY <1>1, <1>23, <2>2, Fields
       DEF DeepDisarm, Disarm, At, host, Goes, Doing, PauseWorks, ResumeWorks, DeepWorks,
           GuestWorks, World, Survives, Settled, Deep, Shallow, Held, Booked, Struck, Gentle, Ended,
           Fresh, Breathing, Accounted, outside
  <2>5. Ready(r)'
    BY <1>1, <1>23, <2>2, Fields
       DEF DeepDisarm, Disarm, At, host, Goes, Doing, PauseWorks, ResumeWorks, DeepWorks,
           GuestWorks, World, Ready, Settled, Deep, Shallow, Held, Booked, Struck, Gentle, Ended,
           Fresh, Breathing, Accounted
  <2> QED BY <2>1, <2>3, <2>4, <2>5 DEF Keeps, Moved
<1>24. CASE DeepResumeLoad(r)
  <2>1. (\A b \in Actors \ {r} : th'[b] = th[b]) /\ gen' = 0
    BY <1>1, <1>24, Threads
       DEF DeepResumeLoad, Finish, sched
  <2>2. /\ Return(r) => th'[r].pc = "done"
        /\ GotoWith(r, "drquota", disk) => Goes(r, "drquota", disk, th[r].dst)
    BY <1>1, Threads
  <2>3. (lock' = r /\ th'[r].pc \in HandlerPCs) \/ (lock' = NoOne /\ th'[r].pc = "done")
    BY <1>1, <1>24, <2>2
       DEF DeepResumeLoad, Finish, At, HandlerPCs, Goes
  <2>4. World' /\ Survives
    BY <1>1, <1>24, <2>2, Fields
       DEF DeepResumeLoad, Finish, At, host, sched, Goes, Doing, PauseWorks, ResumeWorks, DeepWorks,
           GuestWorks, World, Survives, Settled, Deep, Shallow, Held, Booked, Struck, Gentle, Ended,
           Fresh, Breathing, Accounted, outside
  <2>5. Ready(r)'
    BY <1>1, <1>24, <2>2, Fields
       DEF DeepResumeLoad, Finish, At, host, sched, Goes, Doing, PauseWorks, ResumeWorks, DeepWorks,
           GuestWorks, World, Ready, Settled, Deep, Shallow, Held, Booked, Struck, Gentle, Ended,
           Fresh, Breathing, Accounted
  <2> QED BY <2>1, <2>3, <2>4, <2>5 DEF Keeps, Moved
<1>25. CASE DeepResumeReserve(r)
  <2>1. (\A b \in Actors \ {r} : th'[b] = th[b]) /\ gen' = 0
    BY <1>1, <1>25, Threads
       DEF DeepResumeReserve, reserveQuota, Finish, sched
  <2>2. /\ Return(r) => th'[r].pc = "done"
        /\ GotoWith(r, "restore", Transition(th[r].st, "resuming")) => Goes(r, "restore", Transition(th[r].st, "resuming"), th[r].dst)
    BY <1>1, Threads
  <2>3. (lock' = r /\ th'[r].pc \in HandlerPCs) \/ (lock' = NoOne /\ th'[r].pc = "done")
    BY <1>1, <1>25, <2>2
       DEF DeepResumeReserve, reserveQuota, Finish, At, HandlerPCs, Goes
  <2>4. World' /\ Survives
    BY <1>1, <1>25, <2>2, Fields
       DEF DeepResumeReserve, reserveQuota, Works, Fails, Finish, At, host, sched, Goes, Doing,
           PauseWorks, ResumeWorks, DeepWorks, GuestWorks, World, Survives, Settled, Deep, Shallow,
           Held, Booked, Struck, Gentle, Ended, Fresh, Breathing, Accounted, outside
  <2>5. Ready(r)'
    BY <1>1, <1>25, <2>2, Fields
       DEF DeepResumeReserve, reserveQuota, Works, Fails, Finish, At, host, sched, Goes, Doing,
           PauseWorks, ResumeWorks, DeepWorks, GuestWorks, World, Ready, Settled, Deep, Shallow,
           Held, Booked, Struck, Gentle, Ended, Fresh, Breathing, Accounted
  <2> QED BY <2>1, <2>3, <2>4, <2>5 DEF Keeps, Moved
<1>26. CASE DeepRestore(r)
  <2>1. (\A b \in Actors \ {r} : th'[b] = th[b]) /\ gen' = 0
    BY <1>1, <1>26, Threads
       DEF DeepRestore, sched
  <2>2. /\ Return(r) => th'[r].pc = "done"
        /\ GotoWith(r, "drsave", Transition(ClearDeep(th[r].st), "running")) => Goes(r, "drsave", Transition(ClearDeep(th[r].st), "running"), th[r].dst)
        /\ Goto(r, "drrelease") => Goes(r, "drrelease", th[r].st, th[r].dst)
    BY <1>1, Threads
  <2>3. (lock' = r /\ th'[r].pc \in HandlerPCs) \/ (lock' = NoOne /\ th'[r].pc = "done")
    BY <1>1, <1>26, <2>2
       DEF DeepRestore, At, HandlerPCs, Goes
  <2>4. ClearDeep(th[r].st) \in ContainerState
    BY <1>1, MetadataType
  <2>5. World' /\ Survives
    BY <1>1, <1>26, <2>2, Fields
       DEF DeepRestore, Works, Fails, At, sched, Goes, Doing, PauseWorks, ResumeWorks, DeepWorks,
           GuestWorks, World, Survives, Settled, Deep, Shallow, Held, Booked, Struck, Gentle, Ended,
           Fresh, Breathing, Accounted, outside
  <2>6. th'[r].pc = "drsave" /\ frozen' => unthawed'
    BY <1>1, <1>26 DEF DeepRestore, Remember, LeavesFrozen
  <2>7. Ready(r)'
    BY <1>1, <1>26, <2>2, <2>4, <2>6, Fields
       DEF DeepRestore, Works, Fails, At, sched, Goes, Doing, PauseWorks, ResumeWorks, DeepWorks,
           GuestWorks, World, Ready, Settled, Deep, Shallow, Held, Booked, Struck, Gentle, Ended,
           Fresh, Breathing, Accounted
  <2> QED BY <2>1, <2>3, <2>5, <2>7 DEF Keeps, Moved
<1>27. CASE DeepRestoreFailed(r)
  <2>1. (\A b \in Actors \ {r} : th'[b] = th[b]) /\ gen' = 0
    BY <1>1, <1>27, Threads
       DEF DeepRestoreFailed, sched
  <2>2. /\ Return(r) => th'[r].pc = "done"
        /\ GotoWith(r, "drsave", Transition(th[r].st, "suspended")) => Goes(r, "drsave", Transition(th[r].st, "suspended"), th[r].dst)
    BY <1>1, Threads
  <2>3. (lock' = r /\ th'[r].pc \in HandlerPCs) \/ (lock' = NoOne /\ th'[r].pc = "done")
    BY <1>1, <1>27, <2>2
       DEF DeepRestoreFailed, At, HandlerPCs, Goes
  <2>4. World' /\ Survives
    BY <1>1, <1>27, <2>2, Fields
       DEF DeepRestoreFailed, SuspendByTask, Works, Fails, At, host, sched, Goes, Doing, PauseWorks,
           ResumeWorks, DeepWorks, GuestWorks, World, Survives, Settled, Deep, Shallow, Held,
           Booked, Struck, Gentle, Ended, Fresh, Breathing, Accounted, outside
  <2>5. Ready(r)'
    BY <1>1, <1>27, <2>2, Fields
       DEF DeepRestoreFailed, SuspendByTask, Works, Fails, At, host, sched, Goes, Doing, PauseWorks,
           ResumeWorks, DeepWorks, GuestWorks, World, Ready, Settled, Deep, Shallow, Held, Booked,
           Struck, Gentle, Ended, Fresh, Breathing, Accounted
  <2> QED BY <2>1, <2>3, <2>4, <2>5 DEF Keeps, Moved
<1>28. CASE DeepResumeSave(r)
  <2>1. (\A b \in Actors \ {r} : th'[b] = th[b]) /\ gen' = 0
    BY <1>1, <1>28, Threads
       DEF DeepResumeSave, Finish, sched
  <2>2. /\ Return(r) => th'[r].pc = "done"
    BY <1>1, Threads
  <2>3. (lock' = r /\ th'[r].pc \in HandlerPCs) \/ (lock' = NoOne /\ th'[r].pc = "done")
    BY <1>1, <1>28, <2>2
       DEF DeepResumeSave, Finish, At, HandlerPCs, Goes
  <2>4. World' /\ Survives
    BY <1>1, <1>28, <2>2, Fields
       DEF DeepResumeSave, Works, Fails, Finish, At, host, sched, Goes, Doing, PauseWorks,
           ResumeWorks, DeepWorks, GuestWorks, World, Survives, Settled, Deep, Shallow, Held,
           Booked, Struck, Gentle, Ended, Fresh, Breathing, Accounted, outside
  <2>5. Ready(r)'
    BY <1>1, <1>28, <2>2, Fields
       DEF DeepResumeSave, Works, Fails, Finish, At, host, sched, Goes, Doing, PauseWorks,
           ResumeWorks, DeepWorks, GuestWorks, World, Ready, Settled, Deep, Shallow, Held, Booked,
           Struck, Gentle, Ended, Fresh, Breathing, Accounted
  <2> QED BY <2>1, <2>3, <2>4, <2>5 DEF Keeps, Moved
<1> QED BY <1>2, <1>3, <1>4, <1>5, <1>6, <1>7, <1>8, <1>9, <1>10, <1>11, <1>12, <1>13, <1>14, <1>15, <1>16, <1>17, <1>18, <1>19, <1>20, <1>21, <1>22, <1>23, <1>24, <1>25, <1>26, <1>27, <1>28 DEF ManagerStep

\* Every step of the handlers themselves.
LEMMA HandlerKeeps ==
    ASSUME HandlersOnly, TypeOK, HInv, NEW r \in Requests, HandlerStep(r), UNCHANGED outside, Remember
    PROVE  Keeps(r)
<1> USE LifecycleAssumption, TaskControlAssumption
<1>1. /\ th \in [Actors -> Thread] /\ r \in Actors /\ disk \in ContainerState /\ faults \in Nat
      /\ th[r].st \in ContainerState /\ th[r].dst \in ContainerState /\ MaxFaults \in Nat
      /\ r \notin Gens /\ NoOne # r /\ gen = 0 /\ World
      /\ frozen \in BOOLEAN /\ alive \in BOOLEAN /\ squeezed \in BOOLEAN
      /\ lock = NoOne => Settled /\ Accounted
      /\ (lost => lost') /\ (frozen' /\ unthawed => unthawed')
      /\ th[r].pc \in {"idle", "done"} => lock # r
      /\ th[r].pc \notin {"idle", "done"} => lock = r /\ th[r].pc \in HandlerPCs /\ Doing(th[r])
  BY RequestsAreNotGens, Remembers DEF HInv, TypeOK, ManagerTypeOK, HostTypeOK, ActorTypeOK, Thread
<1>2. CASE PauseEnter(r)
  <2>1. (\A b \in Actors \ {r} : th'[b] = th[b]) /\ gen' = 0
    BY <1>1, <1>2, Threads
       DEF PauseEnter, Enter, sched
  <2>2. /\ Return(r) => th'[r].pc = "done"
        /\ GotoWith(r, "pfreeze", disk) => Goes(r, "pfreeze", disk, th[r].dst)
        /\ GotoWith(r, "dload", disk) => Goes(r, "dload", disk, th[r].dst)
    BY <1>1, Threads
  <2>3. (lock' = r /\ th'[r].pc \in HandlerPCs) \/ (lock' = NoOne /\ th'[r].pc = "done")
    BY <1>1, <1>2, <2>2
       DEF PauseEnter, Enter, At, HandlerPCs, Goes
  <2>4. World' /\ Survives
    BY <1>1, <1>2, <2>2, Fields
       DEF PauseEnter, Enter, host, sched, Goes, Doing, PauseWorks, ResumeWorks, DeepWorks,
           GuestWorks, World, Survives, Settled, Deep, Shallow, Held, Booked, Struck, Gentle, Ended,
           Fresh, Breathing, Accounted, outside
  <2>5. Ready(r)'
    BY <1>1, <1>2, <2>2, Fields
       DEF PauseEnter, Enter, host, sched, Goes, Doing, PauseWorks, ResumeWorks, DeepWorks,
           GuestWorks, World, Ready, Settled, Deep, Shallow, Held, Booked, Struck, Gentle, Ended,
           Fresh, Breathing, Accounted
  <2> QED BY <2>1, <2>3, <2>4, <2>5 DEF Keeps, Moved
<1>3. CASE PauseRefused(r)
  <2>1. (\A b \in Actors \ {r} : th'[b] = th[b]) /\ gen' = 0
    BY <1>1, <1>3, Threads
       DEF PauseRefused, Finish, Enter, sched
  <2>2. /\ Return(r) => th'[r].pc = "done"
    BY <1>1, Threads
  <2>3. (lock' = r /\ th'[r].pc \in HandlerPCs) \/ (lock' = NoOne /\ th'[r].pc = "done")
    BY <1>1, <1>3, <2>2
       DEF PauseRefused, Finish, Enter, At, HandlerPCs, Goes
  <2>4. World' /\ Survives
    BY <1>1, <1>3, <2>2, Fields
       DEF PauseRefused, Finish, Enter, host, sched, Goes, Doing, PauseWorks, ResumeWorks,
           DeepWorks, GuestWorks, World, Survives, Settled, Deep, Shallow, Held, Booked, Struck,
           Gentle, Ended, Fresh, Breathing, Accounted, outside
  <2>5. Ready(r)'
    BY <1>1, <1>3, <2>2, Fields
       DEF PauseRefused, Finish, Enter, host, sched, Goes, Doing, PauseWorks, ResumeWorks,
           DeepWorks, GuestWorks, World, Ready, Settled, Deep, Shallow, Held, Booked, Struck,
           Gentle, Ended, Fresh, Breathing, Accounted
  <2> QED BY <2>1, <2>3, <2>4, <2>5 DEF Keeps, Moved
<1>4. CASE HandlerFreeze(r)
  <2>1. (\A b \in Actors \ {r} : th'[b] = th[b]) /\ gen' = 0
    BY <1>1, <1>4, Threads
       DEF HandlerFreeze, Finish, sched
  <2>2. /\ Return(r) => th'[r].pc = "done"
        /\ Goto(r, "pdisarm") => Goes(r, "pdisarm", th[r].st, th[r].dst)
    BY <1>1, Threads
  <2>3. (lock' = r /\ th'[r].pc \in HandlerPCs) \/ (lock' = NoOne /\ th'[r].pc = "done")
    BY <1>1, <1>4, <2>2
       DEF HandlerFreeze, Finish, At, HandlerPCs, Goes
  <2>4. World' /\ Survives
    BY <1>1, <1>4, <2>2, Fields
       DEF HandlerFreeze, Works, Fails, Finish, At, sched, Goes, Doing, PauseWorks, ResumeWorks,
           DeepWorks, GuestWorks, World, Survives, Settled, Deep, Shallow, Held, Booked, Struck,
           Gentle, Ended, Fresh, Breathing, Accounted, outside
  <2>5. Ready(r)'
    BY <1>1, <1>4, <2>2, Fields
       DEF HandlerFreeze, Works, Fails, Finish, At, sched, Goes, Doing, PauseWorks, ResumeWorks,
           DeepWorks, GuestWorks, World, Ready, Settled, Deep, Shallow, Held, Booked, Struck,
           Gentle, Ended, Fresh, Breathing, Accounted
  <2> QED BY <2>1, <2>3, <2>4, <2>5 DEF Keeps, Moved
<1>5. CASE HandlerDisarm(r)
  <2>1. (\A b \in Actors \ {r} : th'[b] = th[b]) /\ gen' = 0
    BY <1>1, <1>5, Threads
       DEF HandlerDisarm, Disarm
  <2>2. /\ Return(r) => th'[r].pc = "done"
        /\ GotoWith(r, "psave", Transition(th[r].st, "suspended")) => Goes(r, "psave", Transition(th[r].st, "suspended"), th[r].dst)
        /\ Goto(r, "pthaw") => Goes(r, "pthaw", th[r].st, th[r].dst)
    BY <1>1, Threads
  <2>3. (lock' = r /\ th'[r].pc \in HandlerPCs) \/ (lock' = NoOne /\ th'[r].pc = "done")
    BY <1>1, <1>5, <2>2
       DEF HandlerDisarm, At, HandlerPCs, Goes
  <2>4. World' /\ Survives
    BY <1>1, <1>5, <2>2, Fields
       DEF HandlerDisarm, Disarm, At, host, Goes, Doing, PauseWorks, ResumeWorks, DeepWorks,
           GuestWorks, World, Survives, Settled, Deep, Shallow, Held, Booked, Struck, Gentle, Ended,
           Fresh, Breathing, Accounted, outside
  <2>5. Ready(r)'
    BY <1>1, <1>5, <2>2, Fields
       DEF HandlerDisarm, Disarm, At, host, Goes, Doing, PauseWorks, ResumeWorks, DeepWorks,
           GuestWorks, World, Ready, Settled, Deep, Shallow, Held, Booked, Struck, Gentle, Ended,
           Fresh, Breathing, Accounted
  <2> QED BY <2>1, <2>3, <2>4, <2>5 DEF Keeps, Moved
<1>6. CASE HandlerSave(r)
  <2>1. (\A b \in Actors \ {r} : th'[b] = th[b]) /\ gen' = 0
    BY <1>1, <1>6, Threads
       DEF HandlerSave, sched
  <2>2. /\ Return(r) => th'[r].pc = "done"
        /\ Goto(r, "bload") => Goes(r, "bload", th[r].st, th[r].dst)
        /\ Goto(r, "pthaw") => Goes(r, "pthaw", th[r].st, th[r].dst)
    BY <1>1, Threads
  <2>3. (lock' = r /\ th'[r].pc \in HandlerPCs) \/ (lock' = NoOne /\ th'[r].pc = "done")
    BY <1>1, <1>6, <2>2
       DEF HandlerSave, At, HandlerPCs, Goes
  <2>4. World' /\ Survives
    BY <1>1, <1>6, <2>2, Fields
       DEF HandlerSave, Works, Fails, At, host, sched, Goes, Doing, PauseWorks, ResumeWorks,
           DeepWorks, GuestWorks, World, Survives, Settled, Deep, Shallow, Held, Booked, Struck,
           Gentle, Ended, Fresh, Breathing, Accounted, outside
  <2>5. Ready(r)'
    BY <1>1, <1>6, <2>2, Fields
       DEF HandlerSave, Works, Fails, At, host, sched, Goes, Doing, PauseWorks, ResumeWorks,
           DeepWorks, GuestWorks, World, Ready, Settled, Deep, Shallow, Held, Booked, Struck,
           Gentle, Ended, Fresh, Breathing, Accounted
  <2> QED BY <2>1, <2>3, <2>4, <2>5 DEF Keeps, Moved
<1>7. CASE HandlerThaw(r)
  <2>1. (\A b \in Actors \ {r} : th'[b] = th[b]) /\ gen' = 0
    BY <1>1, <1>7, Threads
       DEF HandlerThaw, sched
  <2>2. /\ Return(r) => th'[r].pc = "done"
        /\ Goto(r, "rarm") => Goes(r, "rarm", th[r].st, th[r].dst)
    BY <1>1, Threads
  <2>3. (lock' = r /\ th'[r].pc \in HandlerPCs) \/ (lock' = NoOne /\ th'[r].pc = "done")
    BY <1>1, <1>7, <2>2
       DEF HandlerThaw, At, HandlerPCs, Goes
  <2>4. World' /\ Survives
    BY <1>1, <1>7, <2>2, Fields
       DEF HandlerThaw, BestEffort, Works, Fails, At, sched, Goes, Doing, PauseWorks, ResumeWorks,
           DeepWorks, GuestWorks, World, Survives, Settled, Deep, Shallow, Held, Booked, Struck,
           Gentle, Ended, Fresh, Breathing, Accounted, outside
  <2>5. Ready(r)'
    BY <1>1, <1>7, <2>2, Fields
       DEF HandlerThaw, BestEffort, Works, Fails, At, sched, Goes, Doing, PauseWorks, ResumeWorks,
           DeepWorks, GuestWorks, World, Ready, Settled, Deep, Shallow, Held, Booked, Struck,
           Gentle, Ended, Fresh, Breathing, Accounted
  <2> QED BY <2>1, <2>3, <2>4, <2>5 DEF Keeps, Moved
<1>8. CASE ResumeEnter(r)
  <2>1. (\A b \in Actors \ {r} : th'[b] = th[b]) /\ gen' = 0
    BY <1>1, <1>8, Threads
       DEF ResumeEnter, Enter, sched
  <2>2. /\ Return(r) => th'[r].pc = "done"
        /\ Goto(r, IF IsDeepPaused THEN "drload" ELSE "rload") => Goes(r, IF IsDeepPaused THEN "drload" ELSE "rload", th[r].st, th[r].dst)
    BY <1>1, Threads
  <2>3. (lock' = r /\ th'[r].pc \in HandlerPCs) \/ (lock' = NoOne /\ th'[r].pc = "done")
    BY <1>1, <1>8, <2>2
       DEF ResumeEnter, Enter, At, HandlerPCs, Goes
  <2>4. World' /\ Survives
    BY <1>1, <1>8, <2>2, Fields
       DEF ResumeEnter, Enter, IsDeepPaused, host, sched, Goes, Doing, PauseWorks, ResumeWorks,
           DeepWorks, GuestWorks, World, Survives, Settled, Deep, Shallow, Held, Booked, Struck,
           Gentle, Ended, Fresh, Breathing, Accounted, outside
  <2>5. Ready(r)'
    BY <1>1, <1>8, <2>2, Fields
       DEF ResumeEnter, Enter, IsDeepPaused, host, sched, Goes, Doing, PauseWorks, ResumeWorks,
           DeepWorks, GuestWorks, World, Ready, Settled, Deep, Shallow, Held, Booked, Struck,
           Gentle, Ended, Fresh, Breathing, Accounted
  <2> QED BY <2>1, <2>3, <2>4, <2>5 DEF Keeps, Moved
<1>9. ~TransitionEnter(r) /\ ~ExecActivity(r) /\ ~FreezeRuntime(r) /\ ~Terminate(r) /\ ~killTask(r)
  BY DEF HandlersOnly, TransitionEnter, Enter, ExecActivity, Start, FreezeRuntime, Terminate, killTask
<1>10. /\ ~ExecBump(r) /\ ~FreezeRuntimeLoad(r) /\ ~TerminateKill(r) /\ ~killTaskLoad(r) /\ ~SaveIgnored(r)
      /\ ~TransitionSave(r) /\ \A to \in Targets : ~TransitionApply(r, to)
  BY <1>1 DEF HandlerPCs, At, ExecBump, FreezeRuntimeLoad, TerminateKill, killTaskLoad, SaveIgnored,
              TransitionSave, TransitionApply
<1> QED BY <1>2, <1>3, <1>4, <1>5, <1>6, <1>7, <1>8, <1>9, <1>10 DEF HandlerStep

\* A step of one handler that leaves things in order keeps the invariant.
LEMMA KeepsHInv ==
    ASSUME TypeOK, HInv, NEW r \in Requests, lock \in {r, NoOne}, Keeps(r)
    PROVE  HInv'
<1>1. \A b \in Actors \ {r} : th'[b] = th[b]
  BY DEF Keeps, Moved
<1>2. gen' = 0 /\ \A g \in Gens : th'[g].pc = "idle"
  BY <1>1, RequestsAreNotGens DEF HInv, Keeps, Moved
<1>3. ASSUME NEW q \in Requests, q # r
      PROVE  th'[q].pc \in {"idle", "done"} /\ lock' # q
  BY <1>1, <1>3, RequestsAreNotGens, LifecycleAssumption DEF HInv, Keeps, Moved
<1>4. /\ th'[r].pc \in {"idle", "done"} => lock' # r
      /\ th'[r].pc \notin {"idle", "done"} => lock' = r /\ th'[r].pc \in HandlerPCs /\ Doing(th[r])'
      /\ lock' = NoOne => Settled' /\ Accounted'
  BY LifecycleAssumption DEF Keeps, Moved, Ready, HandlerPCs
<1> QED BY <1>2, <1>3, <1>4 DEF HInv, Keeps

\* The handler that takes a step holds the lock or has just found it free.
LEMMA HolderMoves ==
    ASSUME HandlersOnly, TypeOK, HInv, NEW r \in Requests, ManagerStep(r) \/ HandlerStep(r), UNCHANGED outside
    PROVE  lock \in {r, NoOne}
<1>1. CASE th[r].pc \notin {"idle", "done"}
  BY <1>1 DEF HInv
<1>2. CASE th[r].pc \in {"idle", "done"}
  <2>1. ~ManagerStep(r)
    BY <1>2 DEF ManagerStep, At, BalloonLoad, BalloonSet, BalloonSave, BalloonUndo, releaseQuota,
                ResumeLoad, ResumeReserve, reserveQuota, RestorePauseBalloon, ResumeThaw,
                ResumeSaveResuming, ResumeSaveRunning, ResumeRollback, refreezeBestEffort, ResumeArm,
                DeepLoad, DeepFreeze, DeepDump, DeepSave, DeepKill, DeepRollback, DeepThaw, DeepDisarm,
                DeepResumeLoad, DeepResumeReserve, DeepRestore, DeepRestoreFailed, DeepResumeSave
  <2>2. PauseEnter(r) \/ PauseRefused(r) \/ ResumeEnter(r)
    BY <1>2, <2>1
       DEF HandlersOnly, HandlerStep, At, Enter, Start, HandlerFreeze, HandlerDisarm, HandlerSave,
           HandlerThaw, TransitionEnter, TransitionApply, TransitionSave, ExecActivity, ExecBump,
           FreezeRuntime, FreezeRuntimeLoad, Terminate, TerminateKill, killTask, killTaskLoad,
           SaveIgnored
  <2> QED BY <2>2 DEF PauseEnter, PauseRefused, ResumeEnter, Enter
<1> QED BY <1>1, <1>2

\* No timer was ever armed: no callback runs.
LEMMA NoCallback ==
    ASSUME TypeOK, HInv, NEW g \in Gens
    PROVE  ~CallbackStep(g) /\ ~ManagerStep(g)
<1>1. th[g].pc = "idle" /\ gen # g
  BY LifecycleAssumption DEF HInv, Gens
<1>2. ~CallbackStep(g)
  BY <1>1 DEF CallbackStep, At, Fire, PauseClaim, PauseLoad, PauseFreeze, PauseCheck1, PauseSave, abortPause,
              PauseCheck2, PauseRollback, PauseThaw, rearmRetry
<1>3. ~ManagerStep(g)
  BY <1>1 DEF ManagerStep, At, BalloonLoad, BalloonSet, BalloonSave, BalloonUndo, releaseQuota,
              ResumeLoad, ResumeReserve, reserveQuota, RestorePauseBalloon, ResumeThaw,
              ResumeSaveResuming, ResumeSaveRunning, ResumeRollback, refreezeBestEffort, ResumeArm,
              DeepLoad, DeepFreeze, DeepDump, DeepSave, DeepKill, DeepRollback, DeepThaw, DeepDisarm,
              DeepResumeLoad, DeepResumeReserve, DeepRestore, DeepRestoreFailed, DeepResumeSave
<1> QED BY <1>2, <1>3

\* The launcher records an end over what a handler is doing only if it loaded
\* the state of a guest that a dump had ended; nothing a handler holds then
\* depends on the disk.
LEMMA LauncherKeeps ==
    ASSUME HandlersOnly, TypeOK, HInv, Environment, Remember
    PROVE  HInv' /\ Survives
<1>1. /\ World /\ disk \in ContainerState /\ verdict \in ContainerState /\ MaxRestarts \in Nat
      /\ th \in [Actors -> Thread] /\ alive \in BOOLEAN /\ frozen \in BOOLEAN /\ squeezed \in BOOLEAN
      /\ (lost => lost') /\ (frozen' /\ unthawed => unthawed')
  BY TaskControlAssumption, Remembers DEF HInv, TypeOK, ManagerTypeOK, ActorTypeOK, HostTypeOK
<1>2. CASE WaitExitLoad
  <2>1. UNCHANGED <<disk, frozen, squeezed, alive, sandbox, gen, lock, faults, th>>
    BY <1>2 DEF WaitExitLoad, lifecycleVars
  <2>2. \/ launcher' = "gone"
        \/ /\ launcher' = "save" /\ launcher = "waiting" /\ ~IsDeepPaused
           /\ verdict'.status \in {"exited", "stopped"} /\ verdict'.deep = disk.deep
    BY <1>1, <1>2 DEF WaitExitLoad, ContainerState
  <2>3. World'
    BY <1>1, <2>1, <2>2 DEF World, Shallow, Booked, Gentle, Ended, IsDeepPaused
  <2>4. (Settled => Settled') /\ (Accounted => Accounted')
    BY <1>1, <2>1 DEF Settled, Accounted, Breathing, Gentle, Ended
  <2>5. \A r \in Requests : Doing(th[r]) => Doing(th[r])'
    BY <1>1, <2>1, <2>4 DEF Doing, PauseWorks, ResumeWorks, DeepWorks, GuestWorks, Deep, Shallow, Held,
                            Booked, Struck, Gentle, Ended, Fresh, Breathing
  <2> QED BY <1>1, <2>1, <2>3, <2>4, <2>5 DEF HInv, Survives, Deep
<1>3. CASE LauncherSave
  <2>1. /\ UNCHANGED <<frozen, squeezed, alive, sandbox, gen, lock, th>>
        /\ faults \in Nat /\ (Struck => Struck')
    BY <1>3 DEF LauncherSave, host, sched, Works, Fails, Struck, TypeOK, ManagerTypeOK, ActorTypeOK
  <2>2. /\ disk' = disk \/ Ended'
        /\ verdict.deep => disk.status = "resuming" /\ disk.deep
        /\ launcher = "save" /\ launcher' = "gone"
    BY <1>1, <1>3 DEF LauncherSave, World, HandlersOnly, Ended
  <2>3. World'
    BY <1>1, <2>1, <2>2 DEF World, Shallow, Booked, Gentle, Ended
  <2>4. (Settled => Settled') /\ (Accounted => Accounted')
    BY <1>1, <2>1, <2>2 DEF Settled, Accounted, Breathing, Gentle, Ended
  <2>5. \A r \in Requests : Doing(th[r]) => Doing(th[r])'
    BY <1>1, <2>1, <2>2, <2>4
       DEF Doing, PauseWorks, ResumeWorks, DeepWorks, GuestWorks, Deep, Shallow, Held, Booked, Gentle,
           Ended, Fresh, Breathing
  <2> QED BY <1>1, <2>1, <2>2, <2>3, <2>4, <2>5 DEF HInv, Survives, Deep, LoadedBeforeDeep, HandlersOnly
<1>4. CASE Restart
  <2>1. ~Gentle
    BY <1>1, <1>4 DEF Restart, Gentle, TypeOK
  <2>2. /\ UNCHANGED <<disk, frozen, squeezed, alive, sandbox>> /\ gen' = 0 /\ launcher' = "gone" /\ lock' = NoOne
        /\ \A g \in Gens : th'[g].pc = "idle"
        /\ \A r \in Requests : th'[r].pc \in {"idle", "done"}
    BY <1>4, RequestsAreNotGens DEF Restart, host, HandlersOnly, NotRunning
  <2>3. World' /\ Settled' /\ Accounted'
    BY <1>1, <2>1, <2>2 DEF World, Settled, Shallow, Booked, Gentle, Accounted, Breathing, Ended
  <2> QED BY <1>1, <2>2, <2>3, LifecycleAssumption DEF HInv, Survives, Deep
<1>5. ~GuestExit /\ ~StartTaskExit /\ ~LauncherDisarm
  BY <1>1 DEF GuestExit, StartTaskExit, LauncherDisarm, HandlersOnly, World
<1> QED BY <1>2, <1>3, <1>4, <1>5 DEF Environment

\* Every step of an instance of handlers keeps HInv and a deep pause.
LEMMA HNext ==
    ASSUME HandlersOnly, IInv, HInv, [Next]_vars
    PROVE  HInv' /\ (Survives \/ UNCHANGED vars)
<1>1. TypeOK
  BY DEF IInv
<1>2. ASSUME NEW r \in Requests, ManagerStep(r) \/ HandlerStep(r), UNCHANGED outside, Remember PROVE HInv' /\ Survives
  <2>1. Keeps(r)
    BY <1>1, <1>2, ManagerKeeps, HandlerKeeps
  <2>2. lock \in {r, NoOne}
    BY <1>1, <1>2, HolderMoves
  <2> QED BY <1>1, <2>1, <2>2, KeepsHInv DEF Keeps
<1>3. ASSUME NEW a \in Actors, ManagerStep(a), UNCHANGED outside, Remember PROVE HInv' /\ Survives
  BY <1>1, <1>2, <1>3, NoCallback DEF Actors
<1>4. CASE UNCHANGED vars
  BY <1>4 DEF vars, HInv, World, Doing, Settled, Deep, Shallow, Held, Booked, Struck, Gentle,
              PauseWorks, ResumeWorks, DeepWorks, GuestWorks, Ended, Fresh, Breathing, Accounted
<1> QED BY <1>1, <1>2, <1>3, <1>4, NoCallback, LauncherKeeps DEF Next, Step

\* A task that was just launched satisfies the invariant.
LEMMA HInit == ASSUME HandlersOnly, Init PROVE HInv
<1>1. gen = 0 /\ lock = NoOne /\ launcher = "waiting" /\ alive /\ ~squeezed /\ ~frozen /\ disk = Running /\ sandbox # "paused"
  BY DEF Init, HandlersOnly
<1>2. \A a \in Actors : th[a].pc = "idle"
  BY DEF Init, NotRunning
<1> QED BY <1>1, <1>2, RequestsAreNotGens, LifecycleAssumption
        DEF HInv, World, Settled, Shallow, Booked, Running, Ended, Accounted, Breathing

\* The invariant along every behaviour.
LEMMA HandlersInv == ASSUME HandlersOnly PROVE Spec => [](IInv /\ HInv)
<1>1. Init => IInv /\ HInv
  BY InitIInv, HInit
<1>2. IInv /\ HInv /\ [Next]_vars => (IInv /\ HInv)'
  BY NextIInv, HNext
<1> QED BY <1>1, <1>2, PTL DEF Spec

\* The death of the guest that a deep pause causes is never recorded over the
\* deep pause by a launcher that loaded the state after it was saved
\* (deeppause.go; container/manager.go WaitExit), for a task without an idle
\* timer that any number of pause, deep pause and resume requests drive, with any
\* number of failures of any operation and of restarts of the server.
THEOREM DeepPauseKept == ASSUME HandlersOnly PROVE Spec => DeepPauseSurvives
<1>1. IInv /\ HInv /\ [Next]_vars =>
        [disk.status = "suspended" /\ disk.deep =>
            \/ disk'.status \in {"suspended", "resuming", "running"}
            \/ LoadedBeforeDeep]_vars
  BY HNext DEF Survives, Deep
<1> QED BY <1>1, HandlersInv, PTL DEF Spec, DeepPauseSurvives

\* Whenever such a task has settled, its status on disk, the freezer, memory.max,
\* the pool's charge and the guest process agree (autopause.go Resume,
\* balloon.go, deeppause.go, e2b_server.go), for any number of requests, if at
\* most one operation fails, no write of memory.max does, and the server is not
\* restarted under a handler.  The exceptions are those of RunningIsAlive and
\* RunningIsThawed: a save that fails after the dump, a deep resume that does
\* not thaw.
THEOREM HandlersCompensate == ASSUME HandlersOnly, Gentle PROVE Spec => []Compensated
<1>1. IInv /\ HInv => Compensated
  <2> SUFFICES ASSUME IInv, HInv, Quiet PROVE Compensated
    BY DEF Compensated, RunningIsCharged, SqueezeIsMarked, SuspendedIsFrozen, NotStuckResuming, RunningIsAlive,
           RunningIsThawed
  <2>1. lock = NoOne
    BY RequestsAreNotGens DEF HInv, Quiet, IInv, TypeOK, ManagerTypeOK, ActorTypeOK
  <2> QED
    BY <2>1 DEF HInv, World, Settled, Shallow, Booked, Compensated, RunningIsCharged, SqueezeIsMarked,
                SuspendedIsFrozen, NotStuckResuming, RunningIsAlive, RunningIsThawed, Ended, Accounted, Breathing
<1> QED BY <1>1, HandlersInv, PTL

-----------------------------------------------------------------------------
(* The idle timer: a Running task is never left without one. *)
\* The task has an idle timer whose pause is shallow; requests neither pause
\* it nor write Running from outside.
IdleOnly ==
    /\ Idle /\ SlowTimers /\ ~DeepTask
    /\ "pause" \notin Kinds /\ "deeppause" \notin Kinds /\ "running" \notin Targets

Busy(a) == th[a].pc \notin {"idle", "done"}

\* What a goroutine holds at its steps: it will write Running only in the
\* second save of Resume, which arms, and in the rollback of a pause.
CallbackPCs == {"idle", "done", "claim", "load", "freeze", "retry", "check1", "save", "abort", "check2",
                "rollback", "thaw", "bload", "bset", "bsave", "bundo", "release"}
RequestPCs == {"idle", "done", "bset", "bsave", "bundo", "release", "rload", "rquota", "rball", "rthaw",
               "rsave1", "rsave2", "rsave3", "refreeze", "rarm", "tbump", "tsave", "xbump",
               "iload", "ikill", "isave", "kload"}
Fit(x) ==
    /\ ~x.st.deep
    /\ x.pc \in {"save", "bset", "bsave", "rquota", "rball", "rthaw", "rsave3"} => x.st.status = "suspended"
    /\ x.pc = "rsave1" => x.st.status = "resuming"
    /\ x.pc = "rsave2" => x.st.status = "running"
    /\ x.pc \in {"isave", "tsave"} => x.st.status # "running"

\* A callback takes its pause back only when it was overtaken.
Placed(a) ==
    /\ a \in Gens => th[a].pc \in CallbackPCs /\ (th[a].pc = "rollback" => th[a].ep < epoch)
    /\ a \in Requests => th[a].pc \in RequestPCs

Fits ==
    /\ \A a \in Actors : Fit(th[a]) /\ Placed(a)
    /\ ~disk.deep /\ ~verdict.deep
    /\ launcher \in {"save", "disarm"} => ~alive
    /\ launcher = "save" => verdict.status # "running"

\* One callback at a time, and one that was overtaken leaves a live schedule.
OneCallback ==
    /\ \A g, h \in Gens : Busy(g) /\ Busy(h) => g = h
    /\ \A g \in Gens : Pausing(g) /\ ~epochCurrent(g) /\ alive => gen # 0

\* The goroutine will arm the timer, or write a status that is not Running.
Tends(a) ==
    \/ th[a].pc = "rarm"
    \/ a \in Gens /\ th[a].pc \in {"load", "freeze", "check1", "save", "abort", "retry"} /\ epochCurrent(a)

Tended == alive /\ disk.status = "running" /\ gen = 0 => \E a \in Actors : Tends(a)

WInv == Fits /\ OneCallback /\ Tended

\* A callback that was running goes on with the epoch it captured.
Follows(a) ==
    a \in Gens => Busy(a) /\ (Pausing(a)' => Pausing(a) /\ th'[a].ep = th[a].ep)

\* A step of a after which a Running task has no schedule: a will see to it,
\* or it was so before and up to someone else.
Passes(a) ==
    alive' /\ disk'.status = "running" /\ gen' = 0 =>
        Tends(a)' \/ (disk.status = "running" /\ gen = 0 /\ ~Tends(a))

\* A step of a other than a timer's firing and a callback's claim.
WStep(a) ==
    /\ \A b \in Actors \ {a} : th'[b] = th[b]
    /\ UNCHANGED sched \/ (epoch' = epoch + 1 /\ gen' # 0)
    /\ Fit(th[a])' /\ Placed(a)' /\ Follows(a)
    /\ ~disk'.deep /\ (alive' => alive) /\ Passes(a)

\* What a transition keeps and what it makes of the status (state/manager.go).
LEMMA Kept ==
    ASSUME NEW st \in ContainerState
    PROVE  /\ \A to \in Status : /\ Transition(st, to).deep = st.deep
                                 /\ Accepts(st, to) => Transition(st, to).status = to
           /\ Transition(st, "destroy").deep = st.deep
           /\ Transition(st, "destroy").status # "running"
           /\ Transition(st, "suspended").deep = st.deep
           /\ Accepts(st, "suspended") => Transition(st, "suspended").status = "suspended"
           /\ st.status = "running" => Transition(st, "suspended").status = "suspended"
           /\ Transition(st, "resuming").deep = st.deep
           /\ st.status = "suspended" => Transition(st, "resuming").status = "resuming"
           /\ Transition(st, "running").deep = st.deep
           /\ st.status = "resuming" => Transition(st, "running").status = "running"
           /\ MarkBalloon(st).deep = st.deep /\ MarkBalloon(st).status = st.status
           /\ ClearBalloon(st).deep = st.deep /\ ClearBalloon(st).status = st.status
<1>1. \A to \in Status : /\ Transition(st, to).deep = st.deep
                         /\ Accepts(st, to) => Transition(st, to).status = to
  BY DEF ContainerState, Transition
<1>2. Transition(st, "destroy").status # "running"
  BY DEF ContainerState, Transition, Accepts, canTransition, Terminal, allowed, Status
<1>3. Transition(st, "suspended").deep = st.deep /\ Transition(st, "resuming").deep = st.deep
  BY <1>1 DEF Status
<1>4. Transition(st, "running").deep = st.deep /\ Transition(st, "destroy").deep = st.deep
  BY <1>1 DEF Status
<1>5. Accepts(st, "suspended") => Transition(st, "suspended").status = "suspended"
  BY <1>1 DEF Status
<1> QED BY <1>1, <1>2, <1>3, <1>4, <1>5, Fields

\* The steps of Resume and of the pause tail, whoever takes them.
LEMMA ManagerTends ==
    ASSUME IdleOnly, IInv, WInv, NEW a \in Actors, ManagerStep(a)
    PROVE  WStep(a)
<1>1. /\ th \in [Actors -> Thread] /\ a \in Actors /\ disk \in ContainerState
      /\ th[a].st \in ContainerState /\ nextGen \in Nat /\ epoch \in Nat /\ gen \in Nat
      /\ Idle /\ ~DeepTask /\ alive \in BOOLEAN /\ Targets \subseteq Status
      /\ "pause" \notin Kinds /\ "deeppause" \notin Kinds /\ "running" \notin Targets
      /\ Fit(th[a]) /\ Placed(a) /\ ~disk.deep
  BY RequestsAreNotGens, LifecycleAssumption, TaskControlAssumption
     DEF IdleOnly, IInv, EpochInv, WInv, Fits, OneCallback, Placed, Actors, TypeOK, ManagerTypeOK,
         HostTypeOK, ActorTypeOK, Thread
<1>2. CASE BalloonLoad(a)
  <2>1. /\ GotoWith(a, "bset", disk) => Goes(a, "bset", disk, th[a].dst)
        /\ Goto(a, "release") => Goes(a, "release", th[a].st, th[a].dst)
    BY <1>1, Threads
  <2>2. \A b \in Actors \ {a} : th'[b] = th[b]
    BY <1>1, <1>2, Threads DEF BalloonLoad
  <2>3. UNCHANGED sched \/ (epoch' = epoch + 1 /\ gen' # 0)
    BY <1>1, <1>2 DEF BalloonLoad, sched
  <2>4. Fit(th[a])' /\ Placed(a)' /\ Follows(a)
    BY <1>1, <1>2, <2>1, <2>3, Kept
       DEF BalloonLoad, At, Goes, Fit, Placed, Follows, Busy, Pausing, CallbackPCs, RequestPCs,
           Blank, sched
  <2>5. ~disk'.deep /\ (alive' => alive) /\ Passes(a)
    BY <1>1, <1>2, <2>1, <2>3
       DEF BalloonLoad, Works, Fails, At, host, sched, Goes, Fit, Passes, Tends, epochCurrent,
           Pausing
  <2> QED BY <2>2, <2>3, <2>4, <2>5 DEF WStep
<1>3. CASE BalloonSet(a)
  <2>1. /\ GotoWith(a, "bsave", MarkBalloon(th[a].st)) => Goes(a, "bsave", MarkBalloon(th[a].st), th[a].dst)
        /\ Goto(a, "release") => Goes(a, "release", th[a].st, th[a].dst)
    BY <1>1, Threads
  <2>2. \A b \in Actors \ {a} : th'[b] = th[b]
    BY <1>1, <1>3, Threads DEF BalloonSet
  <2>3. UNCHANGED sched \/ (epoch' = epoch + 1 /\ gen' # 0)
    BY <1>1, <1>3 DEF BalloonSet, sched
  <2>4. Fit(th[a])' /\ Placed(a)' /\ Follows(a)
    BY <1>1, <1>3, <2>1, <2>3, Kept
       DEF BalloonSet, At, Goes, Fit, Placed, Follows, Busy, Pausing, CallbackPCs, RequestPCs,
           Blank, sched
  <2>5. ~disk'.deep /\ (alive' => alive) /\ Passes(a)
    BY <1>1, <1>3, <2>1, <2>3
       DEF BalloonSet, Works, Fails, At, sched, Goes, Fit, Passes, Tends, epochCurrent, Pausing
  <2> QED BY <2>2, <2>3, <2>4, <2>5 DEF WStep
<1>4. CASE BalloonSave(a)
  <2>1. /\ Goto(a, "release") => Goes(a, "release", th[a].st, th[a].dst)
        /\ Goto(a, "bundo") => Goes(a, "bundo", th[a].st, th[a].dst)
    BY <1>1, Threads
  <2>2. \A b \in Actors \ {a} : th'[b] = th[b]
    BY <1>1, <1>4, Threads DEF BalloonSave
  <2>3. UNCHANGED sched \/ (epoch' = epoch + 1 /\ gen' # 0)
    BY <1>1, <1>4 DEF BalloonSave, sched
  <2>4. Fit(th[a])' /\ Placed(a)' /\ Follows(a)
    BY <1>1, <1>4, <2>1, <2>3, Kept
       DEF BalloonSave, At, Goes, Fit, Placed, Follows, Busy, Pausing, CallbackPCs, RequestPCs,
           Blank, sched
  <2>5. ~disk'.deep /\ (alive' => alive) /\ Passes(a)
    BY <1>1, <1>4, <2>1, <2>3
       DEF BalloonSave, Works, Fails, At, host, sched, Goes, Fit, Passes, Tends, epochCurrent,
           Pausing
  <2> QED BY <2>2, <2>3, <2>4, <2>5 DEF WStep
<1>5. CASE BalloonUndo(a)
  <2>1. Goto(a, "release") => Goes(a, "release", th[a].st, th[a].dst)
    BY <1>1, Threads
  <2>2. \A b \in Actors \ {a} : th'[b] = th[b]
    BY <1>1, <1>5, Threads DEF BalloonUndo
  <2>3. UNCHANGED sched \/ (epoch' = epoch + 1 /\ gen' # 0)
    BY <1>1, <1>5 DEF BalloonUndo, sched
  <2>4. Fit(th[a])' /\ Placed(a)' /\ Follows(a)
    BY <1>1, <1>5, <2>1, <2>3, Kept
       DEF BalloonUndo, At, Goes, Fit, Placed, Follows, Busy, Pausing, CallbackPCs, RequestPCs,
           Blank, sched
  <2>5. ~disk'.deep /\ (alive' => alive) /\ Passes(a)
    BY <1>1, <1>5, <2>1, <2>3
       DEF BalloonUndo, Works, Fails, At, sched, Goes, Fit, Passes, Tends, epochCurrent, Pausing
  <2> QED BY <2>2, <2>3, <2>4, <2>5 DEF WStep
<1>6. CASE releaseQuota(a)
  <2>1. Return(a) => th'[a].pc = "done" /\ th'[a].st = Blank
    BY <1>1, Threads
  <2>2. \A b \in Actors \ {a} : th'[b] = th[b]
    BY <1>1, <1>6, Threads DEF releaseQuota, Finish
  <2>3. UNCHANGED sched \/ (epoch' = epoch + 1 /\ gen' # 0)
    BY <1>1, <1>6 DEF releaseQuota, sched
  <2>4. Fit(th[a])' /\ Placed(a)' /\ Follows(a)
    BY <1>1, <1>6, <2>1, <2>3, Kept
       DEF releaseQuota, Finish, At, Goes, Fit, Placed, Follows, Busy, Pausing, CallbackPCs,
           RequestPCs, Blank, sched
  <2>5. ~disk'.deep /\ (alive' => alive) /\ Passes(a)
    BY <1>1, <1>6, <2>1, <2>3
       DEF releaseQuota, SuspendByTask, Works, Fails, Finish, At, host, sched, Goes, Fit, Passes,
           Tends, epochCurrent, Pausing
  <2> QED BY <2>2, <2>3, <2>4, <2>5 DEF WStep
<1>7. CASE ResumeLoad(a)
  <2>1. /\ Return(a) => th'[a].pc = "done" /\ th'[a].st = Blank
        /\ GotoWith(a, "rquota", disk) => Goes(a, "rquota", disk, th[a].dst)
    BY <1>1, Threads
  <2>2. \A b \in Actors \ {a} : th'[b] = th[b]
    BY <1>1, <1>7, Threads DEF ResumeLoad, Finish
  <2>3. UNCHANGED sched \/ (epoch' = epoch + 1 /\ gen' # 0)
    BY <1>1, <1>7 DEF ResumeLoad, sched
  <2>4. Fit(th[a])' /\ Placed(a)' /\ Follows(a)
    BY <1>1, <1>7, <2>1, <2>3, Kept
       DEF ResumeLoad, Finish, At, Goes, Fit, Placed, Follows, Busy, Pausing, CallbackPCs,
           RequestPCs, Blank, sched
  <2>5. ~disk'.deep /\ (alive' => alive) /\ Passes(a)
    BY <1>1, <1>7, <2>1, <2>3
       DEF ResumeLoad, Finish, At, host, sched, Goes, Fit, Passes, Tends, epochCurrent, Pausing
  <2> QED BY <2>2, <2>3, <2>4, <2>5 DEF WStep
<1>8. CASE ResumeReserve(a)
  <2>1. /\ Return(a) => th'[a].pc = "done" /\ th'[a].st = Blank
        /\ Goto(a, "rball") => Goes(a, "rball", th[a].st, th[a].dst)
    BY <1>1, Threads
  <2>2. \A b \in Actors \ {a} : th'[b] = th[b]
    BY <1>1, <1>8, Threads DEF ResumeReserve, reserveQuota, Finish
  <2>3. UNCHANGED sched \/ (epoch' = epoch + 1 /\ gen' # 0)
    BY <1>1, <1>8 DEF ResumeReserve, reserveQuota, sched
  <2>4. Fit(th[a])' /\ Placed(a)' /\ Follows(a)
    BY <1>1, <1>8, <2>1, <2>3, Kept
       DEF ResumeReserve, reserveQuota, Finish, At, Goes, Fit, Placed, Follows, Busy, Pausing,
           CallbackPCs, RequestPCs, Blank, sched
  <2>5. ~disk'.deep /\ (alive' => alive) /\ Passes(a)
    BY <1>1, <1>8, <2>1, <2>3
       DEF ResumeReserve, reserveQuota, Works, Fails, Finish, At, host, sched, Goes, Fit, Passes,
           Tends, epochCurrent, Pausing
  <2> QED BY <2>2, <2>3, <2>4, <2>5 DEF WStep
<1>9. CASE RestorePauseBalloon(a)
  <2>1. GotoWith(a, "rthaw", ClearBalloon(th[a].st)) => Goes(a, "rthaw", ClearBalloon(th[a].st), th[a].dst)
    BY <1>1, Threads
  <2>2. \A b \in Actors \ {a} : th'[b] = th[b]
    BY <1>1, <1>9, Threads DEF RestorePauseBalloon
  <2>3. UNCHANGED sched \/ (epoch' = epoch + 1 /\ gen' # 0)
    BY <1>1, <1>9 DEF RestorePauseBalloon, sched
  <2>4. Fit(th[a])' /\ Placed(a)' /\ Follows(a)
    BY <1>1, <1>9, <2>1, <2>3, Kept
       DEF RestorePauseBalloon, At, Goes, Fit, Placed, Follows, Busy, Pausing, CallbackPCs,
           RequestPCs, Blank, sched
  <2>5. ~disk'.deep /\ (alive' => alive) /\ Passes(a)
    BY <1>1, <1>9, <2>1, <2>3
       DEF RestorePauseBalloon, Works, Fails, At, sched, Goes, Fit, Passes, Tends, epochCurrent,
           Pausing
  <2> QED BY <2>2, <2>3, <2>4, <2>5 DEF WStep
<1>10. CASE ResumeThaw(a)
  <2>1. /\ GotoWith(a, "rsave1", Transition(th[a].st, "resuming")) => Goes(a, "rsave1", Transition(th[a].st, "resuming"), th[a].dst)
        /\ Goto(a, "release") => Goes(a, "release", th[a].st, th[a].dst)
    BY <1>1, Threads
  <2>2. \A b \in Actors \ {a} : th'[b] = th[b]
    BY <1>1, <1>10, Threads DEF ResumeThaw
  <2>3. UNCHANGED sched \/ (epoch' = epoch + 1 /\ gen' # 0)
    BY <1>1, <1>10 DEF ResumeThaw, sched
  <2>4. Fit(th[a])' /\ Placed(a)' /\ Follows(a)
    BY <1>1, <1>10, <2>1, <2>3, Kept
       DEF ResumeThaw, At, Goes, Fit, Placed, Follows, Busy, Pausing, CallbackPCs, RequestPCs,
           Blank, sched
  <2>5. ~disk'.deep /\ (alive' => alive) /\ Passes(a)
    BY <1>1, <1>10, <2>1, <2>3
       DEF ResumeThaw, Works, Fails, At, sched, Goes, Fit, Passes, Tends, epochCurrent, Pausing
  <2> QED BY <2>2, <2>3, <2>4, <2>5 DEF WStep
<1>11. CASE ResumeSaveResuming(a)
  <2>1. /\ GotoWith(a, "rsave2", Transition(th[a].st, "running")) => Goes(a, "rsave2", Transition(th[a].st, "running"), th[a].dst)
        /\ Goto(a, "refreeze") => Goes(a, "refreeze", th[a].st, th[a].dst)
    BY <1>1, Threads
  <2>2. \A b \in Actors \ {a} : th'[b] = th[b]
    BY <1>1, <1>11, Threads DEF ResumeSaveResuming
  <2>3. UNCHANGED sched \/ (epoch' = epoch + 1 /\ gen' # 0)
    BY <1>1, <1>11 DEF ResumeSaveResuming, sched
  <2>4. Fit(th[a])' /\ Placed(a)' /\ Follows(a)
    BY <1>1, <1>11, <2>1, <2>3, Kept
       DEF ResumeSaveResuming, At, Goes, Fit, Placed, Follows, Busy, Pausing, CallbackPCs,
           RequestPCs, Blank, sched
  <2>5. ~disk'.deep /\ (alive' => alive) /\ Passes(a)
    BY <1>1, <1>11, <2>1, <2>3
       DEF ResumeSaveResuming, Works, Fails, At, host, sched, Goes, Fit, Passes, Tends,
           epochCurrent, Pausing
  <2> QED BY <2>2, <2>3, <2>4, <2>5 DEF WStep
<1>12. CASE ResumeSaveRunning(a)
  <2>1. /\ Goto(a, "rarm") => Goes(a, "rarm", th[a].st, th[a].dst)
        /\ GotoWith(a, "rsave3", Transition(th[a].st, "suspended")) => Goes(a, "rsave3", Transition(th[a].st, "suspended"), th[a].dst)
    BY <1>1, Threads
  <2>2. \A b \in Actors \ {a} : th'[b] = th[b]
    BY <1>1, <1>12, Threads DEF ResumeSaveRunning
  <2>3. UNCHANGED sched \/ (epoch' = epoch + 1 /\ gen' # 0)
    BY <1>1, <1>12 DEF ResumeSaveRunning, sched
  <2>4. Fit(th[a])' /\ Placed(a)' /\ Follows(a)
    BY <1>1, <1>12, <2>1, <2>3, Kept
       DEF ResumeSaveRunning, At, Goes, Fit, Placed, Follows, Busy, Pausing, CallbackPCs,
           RequestPCs, Blank, sched
  <2>5. ~disk'.deep /\ (alive' => alive) /\ Passes(a)
    BY <1>1, <1>12, <2>1, <2>3
       DEF ResumeSaveRunning, Works, Fails, At, host, sched, Goes, Fit, Passes, Tends, epochCurrent,
           Pausing
  <2> QED BY <2>2, <2>3, <2>4, <2>5 DEF WStep
<1>13. CASE ResumeRollback(a)
  <2>1. Goto(a, "refreeze") => Goes(a, "refreeze", th[a].st, th[a].dst)
    BY <1>1, Threads
  <2>2. \A b \in Actors \ {a} : th'[b] = th[b]
    BY <1>1, <1>13, Threads DEF ResumeRollback
  <2>3. UNCHANGED sched \/ (epoch' = epoch + 1 /\ gen' # 0)
    BY <1>1, <1>13 DEF ResumeRollback, sched
  <2>4. Fit(th[a])' /\ Placed(a)' /\ Follows(a)
    BY <1>1, <1>13, <2>1, <2>3, Kept
       DEF ResumeRollback, At, Goes, Fit, Placed, Follows, Busy, Pausing, CallbackPCs, RequestPCs,
           Blank, sched
  <2>5. ~disk'.deep /\ (alive' => alive) /\ Passes(a)
    BY <1>1, <1>13, <2>1, <2>3
       DEF ResumeRollback, Works, Fails, At, host, sched, Goes, Fit, Passes, Tends, epochCurrent,
           Pausing
  <2> QED BY <2>2, <2>3, <2>4, <2>5 DEF WStep
<1>14. CASE refreezeBestEffort(a)
  <2>1. Goto(a, "release") => Goes(a, "release", th[a].st, th[a].dst)
    BY <1>1, Threads
  <2>2. \A b \in Actors \ {a} : th'[b] = th[b]
    BY <1>1, <1>14, Threads DEF refreezeBestEffort
  <2>3. UNCHANGED sched \/ (epoch' = epoch + 1 /\ gen' # 0)
    BY <1>1, <1>14 DEF refreezeBestEffort, sched
  <2>4. Fit(th[a])' /\ Placed(a)' /\ Follows(a)
    BY <1>1, <1>14, <2>1, <2>3, Kept
       DEF refreezeBestEffort, At, Goes, Fit, Placed, Follows, Busy, Pausing, CallbackPCs,
           RequestPCs, Blank, sched
  <2>5. ~disk'.deep /\ (alive' => alive) /\ Passes(a)
    BY <1>1, <1>14, <2>1, <2>3
       DEF refreezeBestEffort, BestEffort, Works, Fails, At, sched, Goes, Fit, Passes, Tends,
           epochCurrent, Pausing
  <2> QED BY <2>2, <2>3, <2>4, <2>5 DEF WStep
<1>15. CASE ResumeArm(a)
  <2>1. Return(a) => th'[a].pc = "done" /\ th'[a].st = Blank
    BY <1>1, Threads
  <2>2. \A b \in Actors \ {a} : th'[b] = th[b]
    BY <1>1, <1>15, Threads DEF ResumeArm, Finish
  <2>3. UNCHANGED sched \/ (epoch' = epoch + 1 /\ gen' # 0)
    BY <1>1, <1>15 DEF ResumeArm, ArmIfIdle, armLocked, sched
  <2>4. Fit(th[a])' /\ Placed(a)' /\ Follows(a)
    BY <1>1, <1>15, <2>1, <2>3, Kept
       DEF ResumeArm, Finish, At, Goes, Fit, Placed, Follows, Busy, Pausing, CallbackPCs,
           RequestPCs, Blank, sched
  <2>5. ~disk'.deep /\ (alive' => alive) /\ Passes(a)
    BY <1>1, <1>15, <2>1, <2>3
       DEF ResumeArm, Finish, ArmIfIdle, armLocked, At, host, sched, Goes, Fit, Passes, Tends,
           epochCurrent, Pausing
  <2> QED BY <2>2, <2>3, <2>4, <2>5 DEF WStep
<1>16. /\ ~DeepLoad(a) /\ ~DeepFreeze(a) /\ ~DeepDump(a) /\ ~DeepSave(a)
      /\ ~DeepKill(a) /\ ~DeepRollback(a) /\ ~DeepThaw(a) /\ ~DeepDisarm(a)
      /\ ~DeepResumeLoad(a) /\ ~DeepResumeReserve(a) /\ ~DeepRestore(a) /\ ~DeepRestoreFailed(a)
      /\ ~DeepResumeSave(a)
  BY <1>1, RequestsAreNotGens
     DEF Placed, CallbackPCs, RequestPCs, Actors, At, reserveQuota, DeepLoad, DeepFreeze, DeepDump,
         DeepSave, DeepKill, DeepRollback, DeepThaw, DeepDisarm, DeepResumeLoad, DeepResumeReserve,
         DeepRestore, DeepRestoreFailed, DeepResumeSave
<1> QED BY <1>2, <1>3, <1>4, <1>5, <1>6, <1>7, <1>8, <1>9, <1>10, <1>11, <1>12, <1>13, <1>14, <1>15, <1>16 DEF ManagerStep

\* The steps of a callback after its claim.
LEMMA CallbackTends ==
    ASSUME IdleOnly, IInv, WInv, NEW g \in Gens, CallbackStep(g), ~Fire(g), ~PauseClaim(g)
    PROVE  WStep(g)
<1>1. /\ th \in [Actors -> Thread] /\ g \in Actors /\ disk \in ContainerState
      /\ th[g].st \in ContainerState /\ nextGen \in Nat /\ epoch \in Nat /\ gen \in Nat
      /\ Idle /\ ~DeepTask /\ alive \in BOOLEAN /\ Targets \subseteq Status
      /\ "pause" \notin Kinds /\ "deeppause" \notin Kinds /\ "running" \notin Targets
      /\ Fit(th[g]) /\ Placed(g) /\ ~disk.deep
      /\ Pausing(g) /\ ~epochCurrent(g) /\ alive => gen # 0
      /\ (Pausing(g) => th[g].ep <= epoch) /\ th[g].ep \in Nat
  BY RequestsAreNotGens, LifecycleAssumption, TaskControlAssumption
     DEF IdleOnly, IInv, EpochInv, WInv, Fits, OneCallback, Placed, Actors, TypeOK, ManagerTypeOK,
         HostTypeOK, ActorTypeOK, Thread
<1>2. CASE PauseLoad(g)
  <2>1. /\ Return(g) => th'[g].pc = "done" /\ th'[g].st = Blank
        /\ GotoWith(g, IF DeepTask THEN "dload" ELSE "freeze", disk) => Goes(g, IF DeepTask THEN "dload" ELSE "freeze", disk, th[g].dst)
    BY <1>1, Threads
  <2>2. \A b \in Actors \ {g} : th'[b] = th[b]
    BY <1>1, <1>2, Threads DEF PauseLoad
  <2>3. UNCHANGED sched \/ (epoch' = epoch + 1 /\ gen' # 0)
    BY <1>1, <1>2 DEF PauseLoad, sched
  <2>4. Fit(th[g])' /\ Placed(g)' /\ Follows(g)
    BY <1>1, <1>2, <2>1, <2>3, Kept
       DEF PauseLoad, At, Goes, Fit, Placed, Follows, Busy, Pausing, CallbackPCs, RequestPCs, Blank,
           sched
  <2>5. ~disk'.deep /\ (alive' => alive) /\ Passes(g)
    BY <1>1, <1>2, <2>1, <2>3
       DEF PauseLoad, At, host, sched, Goes, Fit, Passes, Tends, epochCurrent, Pausing
  <2> QED BY <2>2, <2>3, <2>4, <2>5 DEF WStep
<1>3. CASE PauseFreeze(g)
  <2>1. /\ Goto(g, "check1") => Goes(g, "check1", th[g].st, th[g].dst)
        /\ Goto(g, "retry") => Goes(g, "retry", th[g].st, th[g].dst)
    BY <1>1, Threads
  <2>2. \A b \in Actors \ {g} : th'[b] = th[b]
    BY <1>1, <1>3, Threads DEF PauseFreeze
  <2>3. UNCHANGED sched \/ (epoch' = epoch + 1 /\ gen' # 0)
    BY <1>1, <1>3 DEF PauseFreeze, sched
  <2>4. Fit(th[g])' /\ Placed(g)' /\ Follows(g)
    BY <1>1, <1>3, <2>1, <2>3, Kept
       DEF PauseFreeze, At, Goes, Fit, Placed, Follows, Busy, Pausing, CallbackPCs, RequestPCs,
           Blank, sched
  <2>5. ~disk'.deep /\ (alive' => alive) /\ Passes(g)
    BY <1>1, <1>3, <2>1, <2>3
       DEF PauseFreeze, Works, Fails, At, sched, Goes, Fit, Passes, Tends, epochCurrent, Pausing
  <2> QED BY <2>2, <2>3, <2>4, <2>5 DEF WStep
<1>4. CASE PauseCheck1(g)
  <2>1. /\ GotoWith(g, "save", Transition(th[g].st, "suspended")) => Goes(g, "save", Transition(th[g].st, "suspended"), th[g].dst)
        /\ Goto(g, "abort") => Goes(g, "abort", th[g].st, th[g].dst)
        /\ Goto(g, "thaw") => Goes(g, "thaw", th[g].st, th[g].dst)
    BY <1>1, Threads
  <2>2. \A b \in Actors \ {g} : th'[b] = th[b]
    BY <1>1, <1>4, Threads DEF PauseCheck1
  <2>3. UNCHANGED sched \/ (epoch' = epoch + 1 /\ gen' # 0)
    BY <1>1, <1>4 DEF PauseCheck1, sched
  <2>4. Fit(th[g])' /\ Placed(g)' /\ Follows(g)
    BY <1>1, <1>4, <2>1, <2>3, Kept
       DEF PauseCheck1, epochCurrent, At, Goes, Fit, Placed, Follows, Busy, Pausing, CallbackPCs,
           RequestPCs, Blank, sched
  <2>5. ~disk'.deep /\ (alive' => alive) /\ Passes(g)
    BY <1>1, <1>4, <2>1, <2>3
       DEF PauseCheck1, epochCurrent, At, host, sched, Goes, Fit, Passes, Tends, Pausing
  <2> QED BY <2>2, <2>3, <2>4, <2>5 DEF WStep
<1>5. CASE PauseSave(g)
  <2>1. /\ Goto(g, "check2") => Goes(g, "check2", th[g].st, th[g].dst)
        /\ Goto(g, "abort") => Goes(g, "abort", th[g].st, th[g].dst)
    BY <1>1, Threads
  <2>2. \A b \in Actors \ {g} : th'[b] = th[b]
    BY <1>1, <1>5, Threads DEF PauseSave
  <2>3. UNCHANGED sched \/ (epoch' = epoch + 1 /\ gen' # 0)
    BY <1>1, <1>5 DEF PauseSave, sched
  <2>4. Fit(th[g])' /\ Placed(g)' /\ Follows(g)
    BY <1>1, <1>5, <2>1, <2>3, Kept
       DEF PauseSave, At, Goes, Fit, Placed, Follows, Busy, Pausing, CallbackPCs, RequestPCs, Blank,
           sched
  <2>5. ~disk'.deep /\ (alive' => alive) /\ Passes(g)
    BY <1>1, <1>5, <2>1, <2>3
       DEF PauseSave, Works, Fails, At, host, sched, Goes, Fit, Passes, Tends, epochCurrent, Pausing
  <2> QED BY <2>2, <2>3, <2>4, <2>5 DEF WStep
<1>6. CASE abortPause(g)
  <2>1. Goto(g, "retry") => Goes(g, "retry", th[g].st, th[g].dst)
    BY <1>1, Threads
  <2>2. \A b \in Actors \ {g} : th'[b] = th[b]
    BY <1>1, <1>6, Threads DEF abortPause
  <2>3. UNCHANGED sched \/ (epoch' = epoch + 1 /\ gen' # 0)
    BY <1>1, <1>6 DEF abortPause, sched
  <2>4. Fit(th[g])' /\ Placed(g)' /\ Follows(g)
    BY <1>1, <1>6, <2>1, <2>3, Kept
       DEF abortPause, At, Goes, Fit, Placed, Follows, Busy, Pausing, CallbackPCs, RequestPCs,
           Blank, sched
  <2>5. ~disk'.deep /\ (alive' => alive) /\ Passes(g)
    BY <1>1, <1>6, <2>1, <2>3
       DEF abortPause, BestEffort, Works, Fails, At, sched, Goes, Fit, Passes, Tends, epochCurrent,
           Pausing
  <2> QED BY <2>2, <2>3, <2>4, <2>5 DEF WStep
<1>7. CASE PauseCheck2(g)
  <2>1. /\ Goto(g, "bload") => Goes(g, "bload", th[g].st, th[g].dst)
        /\ GotoWith(g, "rollback", Transition(Transition(th[g].st, "resuming"), "running")) => Goes(g, "rollback", Transition(Transition(th[g].st, "resuming"), "running"), th[g].dst)
    BY <1>1, Threads
  <2>2. \A b \in Actors \ {g} : th'[b] = th[b]
    BY <1>1, <1>7, Threads DEF PauseCheck2
  <2>3. UNCHANGED sched \/ (epoch' = epoch + 1 /\ gen' # 0)
    BY <1>1, <1>7 DEF PauseCheck2, sched
  <2>4. Transition(th[g].st, "resuming") \in ContainerState
    BY <1>1, TransitionType DEF Status
  <2>5. Fit(th[g])' /\ Placed(g)' /\ Follows(g)
    BY <1>1, <1>7, <2>1, <2>3, <2>4, Kept
       DEF PauseCheck2, epochCurrent, At, Goes, Fit, Placed, Follows, Busy, Pausing, CallbackPCs,
           RequestPCs, Blank, sched
  <2>6. ~disk'.deep /\ (alive' => alive) /\ Passes(g)
    BY <1>1, <1>7, <2>1, <2>3
       DEF PauseCheck2, epochCurrent, At, host, sched, Goes, Fit, Passes, Tends, Pausing
  <2> QED BY <2>2, <2>3, <2>5, <2>6 DEF WStep
<1>8. CASE PauseRollback(g)
  <2>1. Goto(g, "thaw") => Goes(g, "thaw", th[g].st, th[g].dst)
    BY <1>1, Threads
  <2>2. \A b \in Actors \ {g} : th'[b] = th[b]
    BY <1>1, <1>8, Threads DEF PauseRollback
  <2>3. UNCHANGED sched \/ (epoch' = epoch + 1 /\ gen' # 0)
    BY <1>1, <1>8 DEF PauseRollback, sched
  <2>4. Fit(th[g])' /\ Placed(g)' /\ Follows(g)
    BY <1>1, <1>8, <2>1, <2>3, Kept
       DEF PauseRollback, At, Goes, Fit, Placed, Follows, Busy, Pausing, CallbackPCs, RequestPCs,
           Blank, sched
  <2>5. ~disk'.deep /\ (alive' => alive) /\ Passes(g)
    BY <1>1, <1>8, <2>1, <2>3
       DEF PauseRollback, Works, Fails, At, host, sched, Goes, Fit, Passes, Tends, epochCurrent,
           Pausing, Placed
  <2> QED BY <2>2, <2>3, <2>4, <2>5 DEF WStep
<1>9. CASE PauseThaw(g)
  <2>1. Return(g) => th'[g].pc = "done" /\ th'[g].st = Blank
    BY <1>1, Threads
  <2>2. \A b \in Actors \ {g} : th'[b] = th[b]
    BY <1>1, <1>9, Threads DEF PauseThaw
  <2>3. UNCHANGED sched \/ (epoch' = epoch + 1 /\ gen' # 0)
    BY <1>1, <1>9 DEF PauseThaw, sched
  <2>4. Fit(th[g])' /\ Placed(g)' /\ Follows(g)
    BY <1>1, <1>9, <2>1, <2>3, Kept
       DEF PauseThaw, At, Goes, Fit, Placed, Follows, Busy, Pausing, CallbackPCs, RequestPCs, Blank,
           sched
  <2>5. ~disk'.deep /\ (alive' => alive) /\ Passes(g)
    BY <1>1, <1>9, <2>1, <2>3
       DEF PauseThaw, BestEffort, Works, Fails, At, sched, Goes, Fit, Passes, Tends, epochCurrent,
           Pausing
  <2> QED BY <2>2, <2>3, <2>4, <2>5 DEF WStep
<1>10. CASE rearmRetry(g)
  <2>1. Return(g) => th'[g].pc = "done" /\ th'[g].st = Blank
    BY <1>1, Threads
  <2>2. \A b \in Actors \ {g} : th'[b] = th[b]
    BY <1>1, <1>10, Threads DEF rearmRetry
  <2>3. UNCHANGED sched \/ (epoch' = epoch + 1 /\ gen' # 0)
    BY <1>1, <1>10 DEF rearmRetry, armLocked, sched
  <2>4. Fit(th[g])' /\ Placed(g)' /\ Follows(g)
    BY <1>1, <1>10, <2>1, <2>3, Kept
       DEF rearmRetry, epochCurrent, At, Goes, Fit, Placed, Follows, Busy, Pausing, CallbackPCs,
           RequestPCs, Blank, sched
  <2>5. ~disk'.deep /\ (alive' => alive) /\ Passes(g)
    BY <1>1, <1>10, <2>1, <2>3
       DEF rearmRetry, armLocked, epochCurrent, At, host, sched, Goes, Fit, Passes, Tends, Pausing
  <2> QED BY <2>2, <2>3, <2>4, <2>5 DEF WStep
<1> QED BY <1>2, <1>3, <1>4, <1>5, <1>6, <1>7, <1>8, <1>9, <1>10 DEF CallbackStep

\* The steps of the requests.
LEMMA HandlerTends ==
    ASSUME IdleOnly, IInv, WInv, NEW r \in Requests, HandlerStep(r)
    PROVE  WStep(r)
<1>1. /\ th \in [Actors -> Thread] /\ r \in Actors /\ disk \in ContainerState
      /\ th[r].st \in ContainerState /\ nextGen \in Nat /\ epoch \in Nat /\ gen \in Nat
      /\ Idle /\ ~DeepTask /\ alive \in BOOLEAN /\ Targets \subseteq Status
      /\ "pause" \notin Kinds /\ "deeppause" \notin Kinds /\ "running" \notin Targets
      /\ Fit(th[r]) /\ Placed(r) /\ ~disk.deep
      /\ r \notin Gens
  BY RequestsAreNotGens, LifecycleAssumption, TaskControlAssumption
     DEF IdleOnly, IInv, EpochInv, WInv, Fits, OneCallback, Placed, Actors, TypeOK, ManagerTypeOK,
         HostTypeOK, ActorTypeOK, Thread
<1>2. CASE ResumeEnter(r)
  <2>1. Goto(r, IF IsDeepPaused THEN "drload" ELSE "rload") => Goes(r, IF IsDeepPaused THEN "drload" ELSE "rload", th[r].st, th[r].dst)
    BY <1>1, Threads
  <2>2. \A b \in Actors \ {r} : th'[b] = th[b]
    BY <1>1, <1>2, Threads DEF ResumeEnter
  <2>3. UNCHANGED sched \/ (epoch' = epoch + 1 /\ gen' # 0)
    BY <1>1, <1>2 DEF ResumeEnter, sched
  <2>4. Fit(th[r])' /\ Placed(r)' /\ Follows(r)
    BY <1>1, <1>2, <2>1, <2>3, Kept
       DEF ResumeEnter, Enter, IsDeepPaused, At, Goes, Fit, Placed, Follows, Busy, Pausing,
           CallbackPCs, RequestPCs, Blank, sched
  <2>5. ~disk'.deep /\ (alive' => alive) /\ Passes(r)
    BY <1>1, <1>2, <2>1, <2>3
       DEF ResumeEnter, Enter, IsDeepPaused, At, host, sched, Goes, Fit, Passes, Tends,
           epochCurrent, Pausing
  <2> QED BY <2>2, <2>3, <2>4, <2>5 DEF WStep
<1>3. CASE TransitionEnter(r)
  <2>1. GotoWith(r, "tbump", disk) => Goes(r, "tbump", disk, th[r].dst)
    BY <1>1, Threads
  <2>2. \A b \in Actors \ {r} : th'[b] = th[b]
    BY <1>1, <1>3, Threads DEF TransitionEnter
  <2>3. UNCHANGED sched \/ (epoch' = epoch + 1 /\ gen' # 0)
    BY <1>1, <1>3 DEF TransitionEnter, sched
  <2>4. Fit(th[r])' /\ Placed(r)' /\ Follows(r)
    BY <1>1, <1>3, <2>1, <2>3, Kept
       DEF TransitionEnter, Enter, At, Goes, Fit, Placed, Follows, Busy, Pausing, CallbackPCs,
           RequestPCs, Blank, sched
  <2>5. ~disk'.deep /\ (alive' => alive) /\ Passes(r)
    BY <1>1, <1>3, <2>1, <2>3
       DEF TransitionEnter, Enter, At, host, sched, Goes, Fit, Passes, Tends, epochCurrent, Pausing
  <2> QED BY <2>2, <2>3, <2>4, <2>5 DEF WStep
<1>4. ASSUME NEW to \in Targets, TransitionApply(r, to) PROVE WStep(r)
  <2>1. /\ Return(r) => th'[r].pc = "done" /\ th'[r].st = Blank
        /\ GotoWith(r, "tsave", Transition(th[r].st, to)) => Goes(r, "tsave", Transition(th[r].st, to), th[r].dst)
    BY <1>1, Threads
  <2>2. \A b \in Actors \ {r} : th'[b] = th[b]
    BY <1>1, <1>4, Threads DEF TransitionApply, Finish
  <2>3. UNCHANGED sched \/ (epoch' = epoch + 1 /\ gen' # 0)
    BY <1>1, <1>4 DEF TransitionApply, bumpIdleTimer, ArmIfIdle, armLocked, sched
  <2>4. Fit(th[r])' /\ Placed(r)' /\ Follows(r)
    BY <1>1, <1>4, <2>1, <2>3, Kept
       DEF TransitionApply, Finish, At, Goes, Fit, Placed, Follows, Busy, Pausing, CallbackPCs,
           RequestPCs, Blank, sched
  <2>5. ~disk'.deep /\ (alive' => alive) /\ Passes(r)
    BY <1>1, <1>4, <2>1, <2>3
       DEF TransitionApply, Finish, bumpIdleTimer, ArmIfIdle, armLocked, At, host, sched, Goes, Fit,
           Passes, Tends, epochCurrent, Pausing
  <2> QED BY <2>2, <2>3, <2>4, <2>5 DEF WStep
<1>5. CASE TransitionSave(r)
  <2>1. Return(r) => th'[r].pc = "done" /\ th'[r].st = Blank
    BY <1>1, Threads
  <2>2. \A b \in Actors \ {r} : th'[b] = th[b]
    BY <1>1, <1>5, Threads DEF TransitionSave, Finish
  <2>3. UNCHANGED sched \/ (epoch' = epoch + 1 /\ gen' # 0)
    BY <1>1, <1>5 DEF TransitionSave, sched
  <2>4. Fit(th[r])' /\ Placed(r)' /\ Follows(r)
    BY <1>1, <1>5, <2>1, <2>3, Kept
       DEF TransitionSave, Finish, At, Goes, Fit, Placed, Follows, Busy, Pausing, CallbackPCs,
           RequestPCs, Blank, sched
  <2>5. ~disk'.deep /\ (alive' => alive) /\ Passes(r)
    BY <1>1, <1>5, <2>1, <2>3
       DEF TransitionSave, Works, Fails, Finish, At, host, sched, Goes, Fit, Passes, Tends,
           epochCurrent, Pausing
  <2> QED BY <2>2, <2>3, <2>4, <2>5 DEF WStep
<1>6. CASE ExecActivity(r)
  <2>1. /\ Return(r) => th'[r].pc = "done" /\ th'[r].st = Blank
        /\ Goto(r, "rload") => Goes(r, "rload", th[r].st, th[r].dst)
        /\ GotoWith(r, "xbump", disk) => Goes(r, "xbump", disk, th[r].dst)
    BY <1>1, Threads
  <2>2. \A b \in Actors \ {r} : th'[b] = th[b]
    BY <1>1, <1>6, Threads DEF ExecActivity
  <2>3. UNCHANGED sched \/ (epoch' = epoch + 1 /\ gen' # 0)
    BY <1>1, <1>6 DEF ExecActivity, sched
  <2>4. Fit(th[r])' /\ Placed(r)' /\ Follows(r)
    BY <1>1, <1>6, <2>1, <2>3, Kept
       DEF ExecActivity, Start, At, Goes, Fit, Placed, Follows, Busy, Pausing, CallbackPCs,
           RequestPCs, Blank, sched
  <2>5. ~disk'.deep /\ (alive' => alive) /\ Passes(r)
    BY <1>1, <1>6, <2>1, <2>3
       DEF ExecActivity, Start, At, host, sched, Goes, Fit, Passes, Tends, epochCurrent, Pausing
  <2> QED BY <2>2, <2>3, <2>4, <2>5 DEF WStep
<1>7. CASE ExecBump(r)
  <2>1. Return(r) => th'[r].pc = "done" /\ th'[r].st = Blank
    BY <1>1, Threads
  <2>2. \A b \in Actors \ {r} : th'[b] = th[b]
    BY <1>1, <1>7, Threads DEF ExecBump
  <2>3. UNCHANGED sched \/ (epoch' = epoch + 1 /\ gen' # 0)
    BY <1>1, <1>7 DEF ExecBump, bumpIdleTimer, ArmIfIdle, armLocked, sched
  <2>4. Fit(th[r])' /\ Placed(r)' /\ Follows(r)
    BY <1>1, <1>7, <2>1, <2>3, Kept
       DEF ExecBump, At, Goes, Fit, Placed, Follows, Busy, Pausing, CallbackPCs, RequestPCs, Blank,
           sched
  <2>5. ~disk'.deep /\ (alive' => alive) /\ Passes(r)
    BY <1>1, <1>7, <2>1, <2>3
       DEF ExecBump, bumpIdleTimer, ArmIfIdle, armLocked, At, host, sched, Goes, Fit, Passes, Tends,
           epochCurrent, Pausing
  <2> QED BY <2>2, <2>3, <2>4, <2>5 DEF WStep
<1>8. CASE FreezeRuntime(r)
  <2>1. /\ Return(r) => th'[r].pc = "done" /\ th'[r].st = Blank
        /\ Goto(r, "iload") => Goes(r, "iload", th[r].st, th[r].dst)
    BY <1>1, Threads
  <2>2. \A b \in Actors \ {r} : th'[b] = th[b]
    BY <1>1, <1>8, Threads DEF FreezeRuntime
  <2>3. UNCHANGED sched \/ (epoch' = epoch + 1 /\ gen' # 0)
    BY <1>1, <1>8 DEF FreezeRuntime, sched
  <2>4. Fit(th[r])' /\ Placed(r)' /\ Follows(r)
    BY <1>1, <1>8, <2>1, <2>3, Kept
       DEF FreezeRuntime, Start, At, Goes, Fit, Placed, Follows, Busy, Pausing, CallbackPCs,
           RequestPCs, Blank, sched
  <2>5. ~disk'.deep /\ (alive' => alive) /\ Passes(r)
    BY <1>1, <1>8, <2>1, <2>3
       DEF FreezeRuntime, Works, Fails, Start, At, sched, Goes, Fit, Passes, Tends, epochCurrent,
           Pausing
  <2> QED BY <2>2, <2>3, <2>4, <2>5 DEF WStep
<1>9. CASE FreezeRuntimeLoad(r)
  <2>1. /\ Return(r) => th'[r].pc = "done" /\ th'[r].st = Blank
        /\ GotoWith(r, "isave", Transition(disk, "suspended")) => Goes(r, "isave", Transition(disk, "suspended"), th[r].dst)
    BY <1>1, Threads
  <2>2. \A b \in Actors \ {r} : th'[b] = th[b]
    BY <1>1, <1>9, Threads DEF FreezeRuntimeLoad
  <2>3. UNCHANGED sched \/ (epoch' = epoch + 1 /\ gen' # 0)
    BY <1>1, <1>9 DEF FreezeRuntimeLoad, sched
  <2>4. Fit(th[r])' /\ Placed(r)' /\ Follows(r)
    BY <1>1, <1>9, <2>1, <2>3, Kept
       DEF FreezeRuntimeLoad, At, Goes, Fit, Placed, Follows, Busy, Pausing, CallbackPCs,
           RequestPCs, Blank, sched
  <2>5. ~disk'.deep /\ (alive' => alive) /\ Passes(r)
    BY <1>1, <1>9, <2>1, <2>3
       DEF FreezeRuntimeLoad, At, host, sched, Goes, Fit, Passes, Tends, epochCurrent, Pausing
  <2> QED BY <2>2, <2>3, <2>4, <2>5 DEF WStep
<1>10. CASE Terminate(r)
  <2>1. GotoWith(r, "ikill", disk) => Goes(r, "ikill", disk, th[r].dst)
    BY <1>1, Threads
  <2>2. \A b \in Actors \ {r} : th'[b] = th[b]
    BY <1>1, <1>10, Threads DEF Terminate
  <2>3. UNCHANGED sched \/ (epoch' = epoch + 1 /\ gen' # 0)
    BY <1>1, <1>10 DEF Terminate, sched
  <2>4. Fit(th[r])' /\ Placed(r)' /\ Follows(r)
    BY <1>1, <1>10, <2>1, <2>3, Kept
       DEF Terminate, Start, At, Goes, Fit, Placed, Follows, Busy, Pausing, CallbackPCs, RequestPCs,
           Blank, sched
  <2>5. ~disk'.deep /\ (alive' => alive) /\ Passes(r)
    BY <1>1, <1>10, <2>1, <2>3
       DEF Terminate, Start, At, host, sched, Goes, Fit, Passes, Tends, epochCurrent, Pausing
  <2> QED BY <2>2, <2>3, <2>4, <2>5 DEF WStep
<1>11. CASE TerminateKill(r)
  <2>1. /\ Return(r) => th'[r].pc = "done" /\ th'[r].st = Blank
        /\ GotoWith(r, "isave", Transition(th[r].st, "destroy")) => Goes(r, "isave", Transition(th[r].st, "destroy"), th[r].dst)
    BY <1>1, Threads
  <2>2. \A b \in Actors \ {r} : th'[b] = th[b]
    BY <1>1, <1>11, Threads DEF TerminateKill
  <2>3. UNCHANGED sched \/ (epoch' = epoch + 1 /\ gen' # 0)
    BY <1>1, <1>11 DEF TerminateKill, sched
  <2>4. Fit(th[r])' /\ Placed(r)' /\ Follows(r)
    BY <1>1, <1>11, <2>1, <2>3, Kept
       DEF TerminateKill, At, Goes, Fit, Placed, Follows, Busy, Pausing, CallbackPCs, RequestPCs,
           Blank, sched
  <2>5. ~disk'.deep /\ (alive' => alive) /\ Passes(r)
    BY <1>1, <1>11, <2>1, <2>3
       DEF TerminateKill, Works, Fails, At, sched, Goes, Fit, Passes, Tends, epochCurrent, Pausing
  <2> QED BY <2>2, <2>3, <2>4, <2>5 DEF WStep
<1>12. CASE killTask(r)
  <2>1. Goto(r, "kload") => Goes(r, "kload", th[r].st, th[r].dst)
    BY <1>1, Threads
  <2>2. \A b \in Actors \ {r} : th'[b] = th[b]
    BY <1>1, <1>12, Threads DEF killTask
  <2>3. UNCHANGED sched \/ (epoch' = epoch + 1 /\ gen' # 0)
    BY <1>1, <1>12 DEF killTask, sched
  <2>4. Fit(th[r])' /\ Placed(r)' /\ Follows(r)
    BY <1>1, <1>12, <2>1, <2>3, Kept
       DEF killTask, Start, At, Goes, Fit, Placed, Follows, Busy, Pausing, CallbackPCs, RequestPCs,
           Blank, sched
  <2>5. ~disk'.deep /\ (alive' => alive) /\ Passes(r)
    BY <1>1, <1>12, <2>1, <2>3
       DEF killTask, Works, Fails, Start, At, sched, Goes, Fit, Passes, Tends, epochCurrent, Pausing
  <2> QED BY <2>2, <2>3, <2>4, <2>5 DEF WStep
<1>13. CASE killTaskLoad(r)
  <2>1. GotoWith(r, "isave", Transition(disk, "destroy")) => Goes(r, "isave", Transition(disk, "destroy"), th[r].dst)
    BY <1>1, Threads
  <2>2. \A b \in Actors \ {r} : th'[b] = th[b]
    BY <1>1, <1>13, Threads DEF killTaskLoad
  <2>3. UNCHANGED sched \/ (epoch' = epoch + 1 /\ gen' # 0)
    BY <1>1, <1>13 DEF killTaskLoad, sched
  <2>4. Fit(th[r])' /\ Placed(r)' /\ Follows(r)
    BY <1>1, <1>13, <2>1, <2>3, Kept
       DEF killTaskLoad, At, Goes, Fit, Placed, Follows, Busy, Pausing, CallbackPCs, RequestPCs,
           Blank, sched
  <2>5. ~disk'.deep /\ (alive' => alive) /\ Passes(r)
    BY <1>1, <1>13, <2>1, <2>3
       DEF killTaskLoad, At, host, sched, Goes, Fit, Passes, Tends, epochCurrent, Pausing
  <2> QED BY <2>2, <2>3, <2>4, <2>5 DEF WStep
<1>14. CASE SaveIgnored(r)
  <2>1. Return(r) => th'[r].pc = "done" /\ th'[r].st = Blank
    BY <1>1, Threads
  <2>2. \A b \in Actors \ {r} : th'[b] = th[b]
    BY <1>1, <1>14, Threads DEF SaveIgnored
  <2>3. UNCHANGED sched \/ (epoch' = epoch + 1 /\ gen' # 0)
    BY <1>1, <1>14 DEF SaveIgnored, sched
  <2>4. Fit(th[r])' /\ Placed(r)' /\ Follows(r)
    BY <1>1, <1>14, <2>1, <2>3, Kept
       DEF SaveIgnored, At, Goes, Fit, Placed, Follows, Busy, Pausing, CallbackPCs, RequestPCs,
           Blank, sched
  <2>5. ~disk'.deep /\ (alive' => alive) /\ Passes(r)
    BY <1>1, <1>14, <2>1, <2>3
       DEF SaveIgnored, Works, Fails, At, host, sched, Goes, Fit, Passes, Tends, epochCurrent,
           Pausing
  <2> QED BY <2>2, <2>3, <2>4, <2>5 DEF WStep
<1>15. ~PauseEnter(r) /\ ~PauseRefused(r) /\ ~HandlerFreeze(r) /\ ~HandlerDisarm(r) /\ ~HandlerSave(r) /\ ~HandlerThaw(r)
  BY <1>1 DEF Placed, RequestPCs, At, Enter, PauseEnter, PauseRefused, HandlerFreeze, HandlerDisarm,
              HandlerSave, HandlerThaw
<1> QED BY <1>2, <1>3, <1>4, <1>5, <1>6, <1>7, <1>8, <1>9, <1>10, <1>11, <1>12, <1>13, <1>14, <1>15 DEF HandlerStep

\* Such a step keeps the invariant.
LEMMA WStepKeeps ==
    ASSUME IInv, WInv, NEW a \in Actors, WStep(a), UNCHANGED outside
    PROVE  WInv'
<1>1. /\ \A b \in Actors \ {a} : th'[b] = th[b]
      /\ epoch \in Nat /\ epoch' \in Nat /\ epoch <= epoch'
      /\ \A g \in Gens : g \in Actors /\ th[g].ep \in Nat
  BY RequestsAreNotGens DEF WStep, IInv, TypeOK, ManagerTypeOK, ActorTypeOK, Thread, sched
<1>2. Fits'
  <2>1. ASSUME NEW b \in Actors PROVE Fit(th[b])' /\ Placed(b)'
    <3>1. CASE b = a
      BY <3>1 DEF WStep
    <3>2. CASE b # a
      BY <1>1, <2>1, <3>2 DEF WInv, Fits, Placed, Fit
    <3> QED BY <3>1, <3>2
  <2> QED BY <2>1 DEF WStep, WInv, Fits, outside
<1>3. OneCallback'
  <2>1. ASSUME NEW g \in Gens, Busy(g)' PROVE Busy(g)
    BY <1>1, <2>1 DEF WStep, Follows, Busy
  <2>2. ASSUME NEW g \in Gens, Pausing(g)', ~epochCurrent(g)', alive' PROVE gen' # 0
    <3>1. Pausing(g) /\ th'[g].ep = th[g].ep /\ alive
      BY <1>1, <2>2 DEF WStep, Follows, Pausing
    <3>2. CASE UNCHANGED sched
      BY <2>2, <3>1, <3>2 DEF WInv, OneCallback, epochCurrent, sched
    <3> QED BY <3>2 DEF WStep
  <2> QED BY <2>1, <2>2 DEF WInv, OneCallback
<1>4. Tended'
  <2> SUFFICES ASSUME alive', disk'.status = "running", gen' = 0
               PROVE  \E b \in Actors : Tends(b)'
    BY DEF Tended
  <2>1. CASE Tends(a)'
    BY <2>1
  <2>2. CASE ~Tends(a)'
    <3>1. disk.status = "running" /\ gen = 0 /\ ~Tends(a) /\ alive /\ UNCHANGED sched
      BY <2>2 DEF WStep, Passes
    <3>2. PICK b \in Actors : Tends(b)
      BY <3>1 DEF WInv, Tended
    <3>3. b # a /\ th'[b] = th[b]
      BY <1>1, <3>1, <3>2
    <3>4. Tends(b)'
      BY <3>1, <3>2, <3>3 DEF Tends, epochCurrent, sched
    <3> QED BY <3>4
  <2> QED BY <2>1, <2>2
<1> QED BY <1>2, <1>3, <1>4 DEF WInv

\* A timer fires only when no callback is at work (SlowTimers).
LEMMA FireKeeps ==
    ASSUME IdleOnly, IInv, WInv, NEW g \in Gens, Fire(g), UNCHANGED outside
    PROVE  WInv'
<1>1. /\ th \in [Actors -> Thread] /\ g \in Actors /\ gen # 0 /\ g \notin Requests
      /\ \A h \in Gens : h \in Actors /\ ~Busy(h)
  BY RequestsAreNotGens, LifecycleAssumption
     DEF Fire, IdleOnly, Busy, Gens, IInv, TypeOK, ManagerTypeOK, ActorTypeOK
<1>2. Goes(g, "claim", th[g].st, th[g].dst) /\ \A b \in Actors \ {g} : th'[b] = th[b]
  BY <1>1, Threads DEF Fire
<1>3. UNCHANGED <<disk, alive, gen, epoch, launcher, verdict>>
  BY DEF Fire, host, sched, outside
<1>4. Fits'
  <2>1. ASSUME NEW b \in Actors PROVE Fit(th[b])' /\ Placed(b)'
    BY <1>1, <1>2, <1>3 DEF WInv, Fits, Fit, Placed, Goes, CallbackPCs
  <2> QED BY <1>3, <2>1 DEF WInv, Fits
<1>5. OneCallback'
  <2>1. \A h \in Gens : Busy(h)' => h = g
    BY <1>1, <1>2 DEF Busy
  <2> QED BY <1>1, <1>3, <2>1 DEF OneCallback
<1>6. Tended'
  BY <1>1, <1>3 DEF Tended
<1> QED BY <1>4, <1>5, <1>6 DEF WInv

\* The claim takes the schedule away and puts the callback in its place.
LEMMA ClaimKeeps ==
    ASSUME IdleOnly, IInv, WInv, NEW g \in Gens, PauseClaim(g), UNCHANGED outside
    PROVE  WInv'
<1>1. /\ th \in [Actors -> Thread] /\ g \in Actors /\ th[g].pc = "claim" /\ g \notin Requests
      /\ \A h \in Gens : h \in Actors /\ (Busy(h) => h = g)
      /\ \A b \in Actors \ {g} : th'[b] = th[b]
  BY RequestsAreNotGens
     DEF PauseClaim, Return, At, Busy, WInv, OneCallback, IInv, TypeOK, ManagerTypeOK, ActorTypeOK
<1>2. UNCHANGED <<disk, alive, epoch, launcher, verdict>>
  BY DEF PauseClaim, host, outside
<1>3. \/ th'[g].pc = "load" /\ th'[g].st = th[g].st /\ th'[g].ep = epoch
      \/ th'[g].pc = "done" /\ th'[g].st = Blank /\ gen' = gen
  BY <1>1 DEF PauseClaim, Return, NotRunning, Thread
<1>4. Fits'
  <2>1. ASSUME NEW b \in Actors PROVE Fit(th[b])' /\ Placed(b)'
    <3>1. CASE b = g
      BY <1>1, <1>3, <3>1 DEF WInv, Fits, Fit, Placed, CallbackPCs, Blank
    <3>2. CASE b # g
      BY <1>1, <1>2, <2>1, <3>2 DEF WInv, Fits, Fit, Placed
    <3> QED BY <3>1, <3>2
  <2> QED BY <1>2, <2>1 DEF WInv, Fits
<1>5. OneCallback'
  <2>1. \A h \in Gens : Busy(h)' => h = g
    BY <1>1 DEF Busy
  <2>2. \A h \in Gens : Pausing(h)' => epochCurrent(h)'
    BY <1>1, <1>2, <1>3 DEF Pausing, Busy, epochCurrent
  <2> QED BY <2>1, <2>2 DEF OneCallback
<1>6. Tended'
  <2>1. CASE th'[g].pc = "load"
    BY <1>1, <1>2, <1>3, <2>1 DEF Tended, Tends, epochCurrent
  <2>2. CASE th'[g].pc = "done"
    <3> SUFFICES ASSUME alive', disk'.status = "running", gen' = 0
                 PROVE  \E b \in Actors : Tends(b)'
      BY DEF Tended
    <3>1. PICK b \in Actors : Tends(b)
      BY <1>2, <1>3, <2>2 DEF WInv, Tended
    <3>2. b # g
      BY <1>1, <3>1 DEF Tends
    <3> QED BY <1>1, <1>2, <3>1, <3>2 DEF Tends, epochCurrent
  <2> QED BY <1>3, <2>1, <2>2
<1> QED BY <1>4, <1>5, <1>6 DEF WInv

\* The guest, the launcher and a restart: the schedule is dropped only for a
\* guest that is gone, and a start arms a Running task.
LEMMA EnvironmentTends ==
    ASSUME IdleOnly, IInv, WInv, Environment
    PROVE  WInv'
<1>1. /\ th \in [Actors -> Thread] /\ disk \in ContainerState /\ verdict \in ContainerState
      /\ alive \in BOOLEAN /\ epoch \in Nat
      /\ \A g \in Gens : g \in Actors /\ th[g].ep \in Nat
  BY RequestsAreNotGens DEF IInv, TypeOK, ManagerTypeOK, HostTypeOK, ActorTypeOK, Thread
<1>2. ASSUME th' = th, ~alive', ~disk'.deep, ~verdict'.deep, epoch' \in {epoch, epoch + 1},
             launcher' = "save" => verdict'.status # "running"
      PROVE  WInv'
  <2>1. \A b \in Actors : Fit(th[b])' /\ Placed(b)'
    BY <1>1, <1>2 DEF WInv, Fits, Fit, Placed
  <2>2. OneCallback'
    BY <1>2 DEF WInv, OneCallback, Busy
  <2> QED BY <1>2, <2>1, <2>2 DEF WInv, Fits, Tended
<1>3. CASE GuestExit
  BY <1>2, <1>3 DEF GuestExit, sched, outside, WInv, Fits
<1>4. CASE WaitExitLoad
  BY <1>1, <1>2, <1>4 DEF WaitExitLoad, IsDeepPaused, lifecycleVars, WInv, Fits, ContainerState
<1>5. CASE StartTaskExit
  <2>1. \A s \in {"failed", "review"} :
           Transition(verdict, s).deep = verdict.deep /\ Transition(verdict, s).status # "running"
    BY <1>1 DEF Transition, Accepts, canTransition, Terminal, allowed, ContainerState
  <2> QED BY <1>2, <1>5, <2>1 DEF StartTaskExit, lifecycleVars, WInv, Fits
<1>6. CASE LauncherSave
  <2>1. launcher' # "save" /\ (disk' = disk \/ disk' = verdict) /\ UNCHANGED <<th, alive, epoch, verdict>> /\ ~alive
    BY <1>6 DEF LauncherSave, host, sched, WInv, Fits
  <2> QED BY <1>2, <2>1 DEF WInv, Fits
<1>7. CASE LauncherDisarm
  BY <1>2, <1>7 DEF LauncherDisarm, Disarm, host, WInv, Fits
<1>8. CASE Restart
  <2>1. /\ \A b \in Actors : th'[b].pc \in {"idle", "done"} /\ th'[b].st = Blank
        /\ launcher' = "gone" /\ UNCHANGED <<disk, verdict>>
        /\ disk.status = "running" => gen' # 0
    BY <1>8 DEF Restart, NotRunning, IdleOnly
  <2>2. Fits'
    BY <2>1 DEF WInv, Fits, Fit, Placed, CallbackPCs, RequestPCs, Blank
  <2>3. OneCallback'
    BY <1>1, <2>1 DEF OneCallback, Busy, Pausing
  <2> QED BY <2>1, <2>2, <2>3 DEF WInv, Tended
<1> QED BY <1>3, <1>4, <1>5, <1>6, <1>7, <1>8 DEF Environment

\* Every step of every actor keeps the invariant.
LEMMA WNext ==
    ASSUME IdleOnly, IInv, WInv, [Next]_vars
    PROVE  WInv'
<1>1. ASSUME NEW g \in Gens, CallbackStep(g), UNCHANGED outside PROVE WInv'
  BY <1>1, CallbackTends, WStepKeeps, FireKeeps, ClaimKeeps, RequestsAreNotGens
<1>2. ASSUME NEW a \in Actors, ManagerStep(a), UNCHANGED outside PROVE WInv'
  BY <1>2, ManagerTends, WStepKeeps
<1>3. ASSUME NEW r \in Requests, HandlerStep(r), UNCHANGED outside PROVE WInv'
  BY <1>3, HandlerTends, WStepKeeps, RequestsAreNotGens
<1>4. CASE UNCHANGED vars
  BY <1>4 DEF vars, WInv, Fits, Fit, Placed, OneCallback, Busy, Pausing, epochCurrent, Tended, Tends
<1> QED BY <1>1, <1>2, <1>3, <1>4, EnvironmentTends DEF Next, Step

\* StartTask has armed the timer of a task that it launched.
LEMMA WInit == ASSUME IdleOnly, Init PROVE WInv
<1>1. /\ gen = 1 /\ launcher = "waiting" /\ disk = Running /\ verdict = Running
      /\ \A a \in Actors : th[a].pc = "idle" /\ th[a].st = Blank
  BY DEF Init, IdleOnly, NotRunning
<1>2. Fits
  BY <1>1 DEF Fits, Fit, Placed, CallbackPCs, RequestPCs, Blank, Running
<1>3. OneCallback
  BY <1>1, RequestsAreNotGens DEF OneCallback, Busy
<1> QED BY <1>1, <1>2, <1>3 DEF WInv, Tended

\* A Running task with a live guest and an idle timeout always has a live
\* schedule once everything has settled, whatever failed: autopause never goes
\* "permanently silent" (autopause.go: pause, commitPause, rearmRetry), for any
\* number of requests, generations, failures and restarts, if the pause is
\* shallow, no request pauses by hand or writes Running through /transition, and a
\* timeout outlasts a callback.
THEOREM NeverSilent == ASSUME IdleOnly PROVE Spec => []RunningIsWatched
<1>1. Init => IInv /\ WInv
  BY InitIInv, WInit
<1>2. IInv /\ WInv /\ [Next]_vars => (IInv /\ WInv)'
  BY NextIInv, WNext
<1>3. IInv /\ WInv => RunningIsWatched
  BY DEF WInv, Tended, Tends, RunningIsWatched, Quiet
<1> QED BY <1>1, <1>2, <1>3, PTL DEF Spec
=============================================================================
