-------------------------- MODULE SnapshotsProofs --------------------------
(***************************************************************************)
(* What is proved of Snapshots for any tasks, snapshot names, profiles of  *)
(* operations and values: a listed snapshot is complete, a guest is        *)
(* stopped only while its snapshot is being captured, and disks have whole *)
(* backing chains.  The first two ask only which files there are.  The     *)
(* third, in the second part, asks where a walk of any length along the    *)
(* backing paths ends.  The last part does the same for Volumes, which     *)
(* keeps its images with the same engine: chains, records and mounts.      *)
(***************************************************************************)
EXTENDS Snapshots, Volumes, FiniteSetTheorems, NaturalsInduction, SequenceTheorems, TLAPS

Slots     == Slot \cup {0}
Owner     == Task \cup {Root}
Capturing == sn.pc \in {"state", "disk", "meta"}

(* A snapshot record, whose spec and taken are any values.  One that is    *)
(* listed has the status the task had, and its copy unless it could not be *)
(* read or a removal has begun.                                            *)
Sound(r) ==
  /\ r = [at |-> r.at, status |-> r.status, spec |-> r.spec, copy |-> r.copy,
          disk |-> r.disk, taken |-> r.taken, bare |-> r.bare, cut |-> r.cut]
  /\ r.copy \in BOOLEAN /\ r.disk \in BOOLEAN /\ r.bare \in BOOLEAN /\ r.cut \in BOOLEAN
  /\ r.at = "none" => r = NoSnap
  /\ r.at = "meta" => (r.copy \/ r.bare \/ r.cut) /\ r.status # "none"

(* On disk: every recorded overlay is there whether it is listed or not,   *)
(* unless a removal has begun, and the live overlay is no snapshot.        *)
SnapsOK ==
  /\ snaps = [p \in Paths |-> snaps[p]]
  /\ \A p \in Paths : Sound(snaps[p]) /\ (snaps[p].disk => snaps[p].cut \/ p \in DOMAIN img)
  /\ \A t \in Task : snaps[Live(t)] = NoSnap

(* In an archive, which is a copy of a directory at any moment. *)
ArchOK ==
  arch.pc = "held" =>
    /\ arch.st.pid \in Owner
    /\ \A k \in Slots : Sound(arch.snaps[k]) /\ (arch.snaps[k].disk => arch.snaps[k].cut \/ k \in DOMAIN arch.img)
    /\ arch.snaps[0] = NoSnap

(* The holder of eventSnapshotMu.  As long as the directory it made is     *)
(* there and nobody is removing it, there is a state to copy, or it has    *)
(* been copied, or could not be read.                                      *)
SnOK ==
  /\ sn.pc \in {"idle", "state", "disk", "meta", "drop"}
  /\ sn.pc # "idle" => sn.t \in Task /\ sn.k \in Slot
  /\ Capturing =>
       /\ sn = [pc |-> sn.pc, t |-> sn.t, k |-> sn.k, status |-> sn.status,
                frozen |-> sn.frozen]
       /\ sn.status # "none" /\ sn.frozen \in Owner
       /\ snaps[<<sn.t, sn.k>>].at # "none" =>
            \/ snaps[<<sn.t, sn.k>>].cut
            \/ IF sn.pc = "state" THEN st[sn.t].status # "none"
               ELSE snaps[<<sn.t, sn.k>>].copy \/ snaps[<<sn.t, sn.k>>].bare

(* The holders of the other mutexes. *)
RbOK ==
  rb.pc # "idle" =>
    /\ rb = [pc |-> rb.pc, t |-> rb.t, k |-> rb.k, buf |-> rb.buf,
             status |-> rb.status, cur |-> rb.cur]
    /\ rb.t \in Task /\ rb.k \in Slot /\ rb.status # "none"

ClOK ==
  cl.pc # "idle" =>
    /\ cl = [pc |-> cl.pc, src |-> cl.src, dst |-> cl.dst]
    /\ cl.src \in Task /\ cl.dst \in Task

DelOK ==
  del.pc # "idle" =>
    /\ del = [pc |-> del.pc, t |-> del.t, locked |-> del.locked]
    /\ del.t \in Task

(* state.json of every task, and the guests its pid may name. *)
StOK ==
  /\ st = [t \in Task |-> st[t]]
  /\ \A t \in Task : st[t].pid \in Owner
  /\ guest \in [Task -> [alive : BOOLEAN, stopped : BOOLEAN, orphan : BOOLEAN]]

IInv ==
  SnapsOK /\ ArchOK /\ SnOK /\ RbOK /\ ClOK /\ DelOK /\ StOK /\ FrozenOnlyWhileCaptured

-----------------------------------------------------------------------------
(* Paths.                                                                  *)

(* A path of a task and a slot is one of Paths, and nothing else is. *)
LEMMA PathIn ==
  ASSUME NEW t \in Task, NEW k \in Slots
  PROVE  <<t, k>> \in Paths
BY DEF Paths, Slots

LEMMA PathParts ==
  ASSUME NEW p \in Paths
  PROVE  p = <<p[1], p[2]>> /\ p[1] \in Task /\ p[2] \in Slots
BY DEF Paths, Slots

(* The paths of a task are those with its name in front. *)
LEMMA PathsOf ==
  ASSUME NEW p \in Paths, NEW t
  PROVE  p \in BelongsTo(t) <=> p[1] = t
BY PathParts DEF BelongsTo, Slots

(* The live overlay of a task is none of its snapshots. *)
LEMMA LiveIn ==
  ASSUME NEW t \in Task
  PROVE  /\ Live(t) \in Paths
         /\ \A u \in Task, k \in Slot : Live(t) # <<u, k>>
<1>1. 0 \in Slots BY DEF Slots
<1>2. 0 \notin Slot BY SnapshotsAssumption
<1> QED BY <1>1, <1>2, PathIn DEF Live

(* Both record constants are sound. *)
LEMMA NoSnapSound == Sound(NoSnap) /\ NoSnap.at = "none" /\ ~NoSnap.disk /\ ~NoSnap.copy
BY DEF Sound, NoSnap

(* What a removal leaves of a snapshot that is there is sound. *)
LEMMA CutSound ==
  ASSUME NEW r, Sound(r), r.at # "none",
         NEW x \in Fewer(r) \cup {[r EXCEPT !.cut = TRUE]}
  PROVE  Sound(x) /\ x.cut /\ x.at # "none"
<1>1. PICK a, b : /\ a # "none" /\ (a = "meta" => r.at = "meta") /\ b \in BOOLEAN
                  /\ x = [at |-> a, status |-> r.status, spec |-> r.spec, copy |-> b,
                          disk |-> r.disk, taken |-> r.taken, bare |-> r.bare, cut |-> TRUE]
  <2>1. CASE x = [r EXCEPT !.at = "dir", !.cut = TRUE]
    <3>1. x = [at |-> "dir", status |-> r.status, spec |-> r.spec, copy |-> r.copy,
               disk |-> r.disk, taken |-> r.taken, bare |-> r.bare, cut |-> TRUE]
      BY <2>1 DEF Sound
    <3> QED BY <3>1 DEF Sound
  <2>2. CASE x = [r EXCEPT !.copy = FALSE, !.cut = TRUE]
    <3>1. x = [at |-> r.at, status |-> r.status, spec |-> r.spec, copy |-> FALSE,
               disk |-> r.disk, taken |-> r.taken, bare |-> r.bare, cut |-> TRUE]
      BY <2>2 DEF Sound
    <3> QED BY <3>1
  <2>3. CASE x = [r EXCEPT !.cut = TRUE]
    <3>1. x = [at |-> r.at, status |-> r.status, spec |-> r.spec, copy |-> r.copy,
               disk |-> r.disk, taken |-> r.taken, bare |-> r.bare, cut |-> TRUE]
      BY <2>3 DEF Sound
    <3> QED BY <3>1 DEF Sound
  <2> QED BY <2>1, <2>2, <2>3 DEF Fewer
<1>2. /\ x.at = a /\ x.status = r.status /\ x.spec = r.spec /\ x.copy = b /\ x.disk = r.disk
      /\ x.taken = r.taken /\ x.bare = r.bare /\ x.cut = TRUE
  BY <1>1
<1>3. r.disk \in BOOLEAN /\ r.bare \in BOOLEAN /\ (r.at = "meta" => r.status # "none")
  BY DEF Sound
<1> QED BY <1>1, <1>2, <1>3 DEF Sound

(* Which files there are after an image was made or removed. *)
LEMMA Files ==
  /\ \A p, i : DOMAIN With(p, i) = DOMAIN img \cup {p}
  /\ \A P : DOMAIN Without(P) = DOMAIN img \ P
BY DEF With, Without

-----------------------------------------------------------------------------
(* What the invariant asks of the snapshots after a step: that every one   *)
(* is as it was, has become none, or is sound with its overlay in place.   *)
LEMMA SnapsKept ==
  ASSUME SnapsOK,
         snaps' = [p \in Paths |-> snaps'[p]],
         \A p \in Paths :
            \/ snaps'[p] = NoSnap
            \/ snaps'[p] = snaps[p] /\ (p \in DOMAIN img => p \in DOMAIN img')
            \/ /\ Sound(snaps'[p]) /\ (snaps'[p].disk => snaps'[p].cut \/ p \in DOMAIN img')
               /\ \A t \in Task : p # Live(t)
  PROVE  SnapsOK'
<1>1. ASSUME NEW p \in Paths
      PROVE  Sound(snaps'[p]) /\ (snaps'[p].disk => snaps'[p].cut \/ p \in DOMAIN img')
  <2>1. CASE snaps'[p] = NoSnap BY <2>1, NoSnapSound
  <2>2. CASE snaps'[p] = snaps[p] /\ (p \in DOMAIN img => p \in DOMAIN img')
    BY <2>2 DEF SnapsOK
  <2> QED BY <2>1, <2>2
<1>2. ASSUME NEW t \in Task PROVE snaps'[Live(t)] = NoSnap
  BY LiveIn DEF SnapsOK
<1>3. \A p \in Paths : (Sound(snaps[p]))' <=> Sound(snaps'[p]) BY DEF Sound, NoSnap
<1>4. \A t \in Task : Live(t)' = Live(t) BY DEF Live
<1> QED BY <1>1, <1>2, <1>3, <1>4 DEF SnapsOK

(* A file that a step makes or removes on the live path is no snapshot's.  *)
LEMMA LiveOnly ==
  ASSUME SnapsOK, UNCHANGED snaps, NEW t \in Task,
         \A p \in Paths : p # Live(t) => (p \in DOMAIN img => p \in DOMAIN img')
  PROVE  SnapsOK'
<1>1. ASSUME NEW p \in Paths, p = Live(t) PROVE snaps'[p] = NoSnap
  BY <1>1 DEF SnapsOK
<1>2. snaps' = [p \in Paths |-> snaps'[p]] BY DEF SnapsOK
<1> QED BY <1>1, <1>2, SnapsKept

(* Init. *)
LEMMA Initially == Init => IInv
<1> SUFFICES ASSUME Init PROVE IInv OBVIOUS
<1>1. SnapsOK
  <2>1. snaps = [p \in Paths |-> NoSnap] BY DEF Init
  <2> QED BY <2>1, NoSnapSound, LiveIn DEF SnapsOK
<1>2. ArchOK /\ RbOK /\ ClOK /\ DelOK BY DEF Init, Idle, ArchOK, RbOK, ClOK, DelOK
<1>3. SnOK BY DEF Init, Idle, SnOK, Capturing
<1>4. StOK /\ FrozenOnlyWhileCaptured
  BY DEF Init, StOK, FrozenOnlyWhileCaptured, NoState, Dead, Owner
<1> QED BY <1>1, <1>2, <1>3, <1>4 DEF IInv

-----------------------------------------------------------------------------
(* The holder of eventSnapshotMu is disturbed by others only when they     *)
(* take its directory away.                                                *)
LEMMA SnKept ==
  ASSUME SnOK, UNCHANGED sn,
         Capturing /\ snaps'[<<sn.t, sn.k>>].at # "none" =>
           \/ snaps'[<<sn.t, sn.k>>].cut
           \/ /\ snaps'[<<sn.t, sn.k>>] = snaps[<<sn.t, sn.k>>]
              /\ st[sn.t].status # "none" => st'[sn.t].status # "none"
  PROVE  SnOK'
BY DEF SnOK, Capturing

(* Nobody else's part of the invariant is about a mutex that is not touched. *)
LEMMA OthersKept ==
  /\ RbOK /\ UNCHANGED rb => RbOK'
  /\ ClOK /\ UNCHANGED cl => ClOK'
  /\ DelOK /\ UNCHANGED del => DelOK'
  /\ ArchOK /\ UNCHANGED arch => ArchOK'
BY DEF RbOK, ClOK, DelOK, ArchOK, Sound, NoSnap, Slots, Owner

(* Guests that are not stopped by a step, under the same holder. *)
LEMMA StoppedKept ==
  ASSUME FrozenOnlyWhileCaptured, UNCHANGED <<sn, crashed>>,
         \A g \in Task : guest'[g].stopped => guest[g].stopped
  PROVE  FrozenOnlyWhileCaptured'
BY DEF FrozenOnlyWhileCaptured

(* removing the directory of a task takes its snapshots with it. *)
LEMMA RemoveDirKeeps ==
  ASSUME IInv, NEW t \in Task, RemoveDir(t), UNCHANGED <<sn, guest, crashed>>
  PROVE  SnapsOK' /\ SnOK' /\ StOK' /\ FrozenOnlyWhileCaptured'
<1> USE DEF IInv
<1>1. snaps' = [p \in Paths |-> IF p \in BelongsTo(t) THEN NoSnap ELSE snaps[p]]
  BY DEF RemoveDir
<1>2. DOMAIN img' = DOMAIN img \ BelongsTo(t) BY Files DEF RemoveDir
<1>3. st' = [st EXCEPT ![t] = NoState] BY DEF RemoveDir
<1>4. SnapsOK'
  <2>1. snaps' = [p \in Paths |-> snaps'[p]] BY <1>1
  <2>2. \A p \in Paths : \/ snaps'[p] = NoSnap
                         \/ snaps'[p] = snaps[p] /\ (p \in DOMAIN img => p \in DOMAIN img')
    BY <1>1, <1>2
  <2> QED BY <2>1, <2>2, SnapsKept
<1>5. SnOK'
  <2> SUFFICES ASSUME Capturing, snaps'[<<sn.t, sn.k>>].at # "none"
               PROVE  /\ snaps'[<<sn.t, sn.k>>] = snaps[<<sn.t, sn.k>>]
                      /\ st[sn.t].status # "none" => st'[sn.t].status # "none"
    BY SnKept
  <2>1. sn.t \in Task /\ sn.k \in Slots BY DEF SnOK, Capturing, Slots
  <2> DEFINE p == <<sn.t, sn.k>>
  <2>2. p \in Paths /\ p[1] = sn.t BY <2>1, PathIn
  <2>3. p \notin BelongsTo(t) BY <1>1, <2>2, NoSnapSound
  <2>4. sn.t # t BY <2>2, <2>3, PathsOf
  <2> QED BY <1>1, <1>3, <2>1, <2>2, <2>3, <2>4 DEF StOK
<1>6. StOK' BY <1>3 DEF StOK, NoState, Owner
<1>7. FrozenOnlyWhileCaptured' BY StoppedKept
<1> QED BY <1>4, <1>5, <1>6, <1>7

(* On the way there, its snapshots are cut and the others stay. *)
LEMMA RemovePartKeeps ==
  ASSUME IInv, NEW t \in Task, RemovePart(t), UNCHANGED <<sn, guest, crashed>>
  PROVE  SnapsOK' /\ SnOK' /\ StOK' /\ FrozenOnlyWhileCaptured'
<1> USE DEF IInv
<1>1. PICK C : C = Cut(t) OBVIOUS
<1>2. ASSUME NEW p \in Paths
      PROVE  \/ C[p] = snaps[p] /\ (p[1] # t \/ snaps[p] = NoSnap)
             \/ p[1] = t /\ snaps[p].at # "none" /\ Sound(C[p]) /\ C[p].cut
  <2>1. Sound(snaps[p]) BY DEF SnapsOK
  <2>2. CASE p[1] = t /\ snaps[p].at # "none"
    <3>1. C[p] = [snaps[p] EXCEPT !.cut = TRUE] BY <1>1, <2>2, PathsOf DEF Cut
    <3> QED BY <2>1, <2>2, <3>1, CutSound
  <2>3. CASE p[1] # t
    <3>1. C[p] = snaps[p] BY <1>1, <2>3, PathsOf DEF Cut
    <3> QED BY <2>3, <3>1
  <2>4. CASE snaps[p].at = "none"
    <3>1. C[p] = snaps[p] BY <1>1, <2>4 DEF Cut
    <3> QED BY <2>1, <2>4, <3>1 DEF Sound
  <2> QED BY <2>2, <2>3, <2>4
<1>3. C = [p \in Paths |-> C[p]] BY <1>1 DEF Cut
<1>4. \/ snaps' = C
      \/ \E p \in BelongsTo(t) :
           \E r : /\ snaps' = [C EXCEPT ![p] = r]
                  /\ r = NoSnap \/ (snaps[p].at # "none" /\ r \in Fewer(snaps[p]))
  BY <1>1 DEF RemovePart
<1>5. snaps' = [p \in Paths |-> snaps'[p]] BY <1>3, <1>4
<1>6. ASSUME NEW p \in Paths
      PROVE  \/ snaps'[p] = NoSnap
             \/ snaps'[p] = snaps[p] /\ p[1] # t
             \/ p[1] = t /\ snaps[p].at # "none" /\ Sound(snaps'[p]) /\ snaps'[p].cut
  <2>1. CASE snaps'[p] = C[p] BY <1>2, <2>1
  <2>2. CASE snaps'[p] # C[p]
    <3>0. PICK q \in BelongsTo(t) :
             \E r : /\ snaps' = [C EXCEPT ![q] = r]
                    /\ r = NoSnap \/ (snaps[q].at # "none" /\ r \in Fewer(snaps[q]))
      BY <1>4, <2>2
    <3>1. PICK r : /\ snaps' = [C EXCEPT ![q] = r]
                   /\ r = NoSnap \/ (snaps[q].at # "none" /\ r \in Fewer(snaps[q]))
      BY <3>0
    <3>2. p = q BY <1>3, <2>2, <3>1
    <3>3. snaps'[p] = r BY <1>3, <3>1, <3>2
    <3>4. p[1] = t BY <3>1, <3>2, PathsOf
    <3>5. CASE r = NoSnap BY <3>3, <3>5
    <3>6. CASE snaps[p].at # "none" /\ r \in Fewer(snaps[p])
      <4>1. Sound(snaps[p]) BY DEF SnapsOK
      <4>2. Sound(r) /\ r.cut BY <3>6, <4>1, CutSound
      <4> QED BY <3>3, <3>4, <3>6, <4>2
    <3> QED BY <3>1, <3>2, <3>5, <3>6
  <2> QED BY <2>1, <2>2
<1>7. \A p \in Paths : p[1] # t /\ p \in DOMAIN img => p \in DOMAIN img'
  <2>1. img' = img \/ \E p \in BelongsTo(t) : img' = Without({p}) BY DEF RemovePart
  <2>2. CASE img' = img BY <2>2
  <2>3. ASSUME NEW q \in BelongsTo(t), img' = Without({q})
        PROVE  \A p \in Paths : p[1] # t /\ p \in DOMAIN img => p \in DOMAIN img'
    <3>1. DOMAIN img' = DOMAIN img \ {q} BY <2>3, Files
    <3>2. q[1] = t BY DEF BelongsTo
    <3> QED BY <3>1, <3>2
  <2> QED BY <2>1, <2>2, <2>3
<1>8. st' = st \/ st' = [st EXCEPT ![t] = NoState] BY DEF RemovePart
<1>9. SnapsOK'
  <2>1. ASSUME NEW p \in Paths
        PROVE  \/ snaps'[p] = NoSnap
               \/ snaps'[p] = snaps[p] /\ (p \in DOMAIN img => p \in DOMAIN img')
               \/ /\ Sound(snaps'[p]) /\ (snaps'[p].disk => snaps'[p].cut \/ p \in DOMAIN img')
                  /\ \A u \in Task : p # Live(u)
    <3>1. snaps[p].at # "none" => \A u \in Task : p # Live(u) BY NoSnapSound DEF SnapsOK
    <3> QED BY <1>6, <1>7, <3>1
  <2> QED BY <1>5, <2>1, SnapsKept
<1>10. SnOK'
  <2> SUFFICES ASSUME Capturing, snaps'[<<sn.t, sn.k>>].at # "none"
               PROVE  \/ snaps'[<<sn.t, sn.k>>].cut
                      \/ /\ snaps'[<<sn.t, sn.k>>] = snaps[<<sn.t, sn.k>>]
                         /\ st[sn.t].status # "none" => st'[sn.t].status # "none"
    BY SnKept
  <2>1. sn.t \in Task /\ sn.k \in Slots BY DEF SnOK, Capturing, Slots
  <2>2. PICK p \in Paths : p = <<sn.t, sn.k>> BY <2>1, PathIn
  <2>3. p[1] = sn.t BY <2>2
  <2>4. snaps'[p].cut \/ (snaps'[p] = snaps[p] /\ sn.t # t) BY <1>6, <2>2, <2>3, NoSnapSound
  <2> QED BY <1>8, <2>1, <2>2, <2>4 DEF StOK
<1>11. StOK'
  <2>1. CASE st' = st BY <2>1 DEF StOK
  <2>2. CASE st' = [st EXCEPT ![t] = NoState] BY <2>2 DEF StOK, NoState, Owner
  <2> QED BY <1>8, <2>1, <2>2
<1>12. FrozenOnlyWhileCaptured' BY StoppedKept
<1> QED BY <1>9, <1>10, <1>11, <1>12

-----------------------------------------------------------------------------
(* Launches and guests. *)

(* Whatever StartTask writes of a task, its status is one. *)
LEMMA StateWritten ==
  ASSUME IInv, NEW t \in Task, NEW s, s.status # "none", s.pid \in Owner,
         st' = [st EXCEPT ![t] = s], UNCHANGED <<snaps, sn>>
  PROVE  /\ SnOK'
         /\ st' = [u \in Task |-> st'[u]]
         /\ \A u \in Task : st'[u].pid \in Owner
<1>1. \A u \in Task : st'[u] = IF u = t THEN s ELSE st[u] BY DEF IInv, StOK
<1>2. Capturing => sn.t \in Task BY DEF IInv, SnOK, Capturing
<1>3. SnOK' BY <1>1, <1>2, SnKept DEF IInv
<1>4. st' = [u \in Task |-> st'[u]] BY DEF IInv, StOK
<1> QED BY <1>1, <1>3, <1>4 DEF IInv, StOK

LEMMA LaunchKeeps ==
  ASSUME IInv, NEW t \in Task, NEW spec, Launch(t, spec) \/ LaunchFails(t, spec)
  PROVE  IInv'
<1> USE DEF IInv
<1>1. UNCHANGED <<snaps, sn, cl, rb, del, arch, crashed>> BY DEF Launch, LaunchFails
<1>2. \A p \in Paths : p # Live(t) => (p \in DOMAIN img => p \in DOMAIN img')
  <2>1. CASE Launch(t, spec)
    <3>1. img' = With(Live(t), Overlay(Base)) BY <2>1 DEF Launch
    <3> QED BY <3>1, Files
  <2>2. CASE LaunchFails(t, spec)
    <3>1. img' = Without({Live(t)}) BY <2>2 DEF LaunchFails
    <3> QED BY <3>1, Files
  <2> QED BY <2>1, <2>2
<1>3. SnapsOK' BY <1>1, <1>2, LiveOnly
<1>4. PICK s : s.status # "none" /\ s.pid \in Owner /\ st' = [st EXCEPT ![t] = s]
  <2>1. CASE Launch(t, spec)
    <3> DEFINE s == [status |-> "running", pid |-> t, spec |-> spec]
    <3>1. s.status # "none" /\ s.pid \in Owner BY DEF Owner
    <3>2. st' = [st EXCEPT ![t] = s] BY <2>1 DEF Launch
    <3> QED BY <3>1, <3>2
  <2>2. CASE LaunchFails(t, spec)
    <3> DEFINE s == [status |-> "failed", pid |-> Root, spec |-> spec]
    <3>1. s.status # "none" /\ s.pid \in Owner BY DEF Owner
    <3>2. st' = [st EXCEPT ![t] = s] BY <2>2 DEF LaunchFails
    <3> QED BY <3>1, <3>2
  <2> QED BY <2>1, <2>2
<1>5. /\ SnOK' /\ st' = [u \in Task |-> st'[u]]
      /\ \A u \in Task : st'[u].pid \in Owner
  BY <1>1, <1>4, StateWritten
<1>6. /\ guest' \in [Task -> [alive : BOOLEAN, stopped : BOOLEAN, orphan : BOOLEAN]]
      /\ \A g \in Task : guest'[g].stopped => guest[g].stopped
  <2>1. CASE Launch(t, spec)
    <3> DEFINE G == [alive : BOOLEAN, stopped : BOOLEAN, orphan : BOOLEAN]
    <3>1. Dead \in G /\ ~Dead.stopped BY DEF Dead
    <3>2. PICK x : x = [Dead EXCEPT !.alive = TRUE] OBVIOUS
    <3>3. x \in G /\ ~x.stopped BY <3>1, <3>2
    <3>4. guest' = [guest EXCEPT ![t] = x] BY <2>1, <3>2 DEF Launch
    <3> QED BY <3>3, <3>4 DEF StOK
  <2>2. CASE LaunchFails(t, spec) BY <2>2 DEF LaunchFails, StOK
  <2> QED BY <2>1, <2>2
<1>7. StOK' BY <1>5, <1>6 DEF StOK, Owner
<1>8. FrozenOnlyWhileCaptured' BY <1>1, <1>6, StoppedKept
<1> QED BY <1>1, <1>3, <1>5, <1>7, <1>8, OthersKept

LEMMA GuestWriteKeeps ==
  ASSUME IInv, NEW t \in Task, NEW v, GuestWrite(t, v)
  PROVE  IInv'
<1> USE DEF IInv
<1>1. UNCHANGED <<snaps, sn, cl, rb, del, arch, crashed, guest, st>> BY DEF GuestWrite
<1>2. DOMAIN img' = DOMAIN img BY DEF GuestWrite
<1>3. SnapsOK' BY <1>1, <1>2, LiveOnly
<1>4. SnOK' BY <1>1, SnKept
<1>5. StOK' BY <1>1 DEF StOK
<1>6. FrozenOnlyWhileCaptured' BY <1>1, StoppedKept
<1> QED BY <1>1, <1>3, <1>4, <1>5, <1>6, OthersKept

-----------------------------------------------------------------------------
(* Snapshots. *)

(* A snapshot's record, path and guests after its directory was made. *)
LEMMA SnapBeginKeeps ==
  ASSUME IInv, NEW t \in Task, NEW k \in Slot, SnapBegin(t, k)
  PROVE  IInv'
<1> USE DEF IInv
<1>1. UNCHANGED <<img, st, cl, rb, del, arch, crashed>> BY DEF SnapBegin
<1>2. PICK p : p = <<t, k>> OBVIOUS
<1>3. p \in Paths /\ \A u \in Task : p # Live(u) BY <1>2, PathIn, LiveIn DEF Slots
<1>4. PICK s : s = [snaps[p] EXCEPT !.at = "dir"] OBVIOUS
<1>5. snaps' = [snaps EXCEPT ![p] = s] BY <1>2, <1>4 DEF SnapBegin
<1>6. \A q \in Paths : snaps'[q] = IF q = p THEN s ELSE snaps[q] BY <1>5 DEF SnapsOK
<1>7. Sound(s) /\ s.at = "dir" /\ (s.disk => s.cut \/ p \in DOMAIN img)
  <2>1. PICK r : r = snaps[p] OBVIOUS
  <2>2. Sound(r) /\ (r.disk => r.cut \/ p \in DOMAIN img) BY <1>3, <2>1 DEF SnapsOK
  <2>3. s = [at |-> "dir", status |-> r.status, spec |-> r.spec, copy |-> r.copy,
             disk |-> r.disk, taken |-> r.taken, bare |-> r.bare, cut |-> r.cut] BY <1>4, <2>1, <2>2 DEF Sound
  <2> QED BY <2>2, <2>3 DEF Sound
<1>8. SnapsOK'
  <2>1. snaps' = [q \in Paths |-> snaps'[q]] BY <1>5 DEF SnapsOK
  <2>2. \A q \in Paths : \/ snaps'[q] = snaps[q] /\ (q \in DOMAIN img => q \in DOMAIN img')
                         \/ /\ Sound(snaps'[q]) /\ (snaps'[q].disk => snaps'[q].cut \/ q \in DOMAIN img')
                            /\ \A u \in Task : q # Live(u)
    BY <1>1, <1>3, <1>6, <1>7
  <2> QED BY <2>1, <2>2, SnapsKept
<1>9. PICK g : g = st[t].pid OBVIOUS
<1>10. g \in Owner /\ st[t].status # "none" BY <1>9 DEF StOK, SnapBegin
<1>11. PICK freeze \in BOOLEAN : freeze = (st[t].status = "running" /\ pidMatches(g))
  OBVIOUS
<1>12. /\ guest' = IF freeze THEN [guest EXCEPT ![g].stopped = TRUE] ELSE guest
       /\ sn' = [pc |-> "state", t |-> t, k |-> k, status |-> st[t].status,
                 frozen |-> IF freeze THEN g ELSE Root]
  BY <1>9, <1>11 DEF SnapBegin
<1>13. freeze => g \in Task BY <1>10, <1>11 DEF pidMatches, Owner
<1>14. PICK f \in Owner : f = IF freeze THEN g ELSE Root BY <1>10 DEF Owner
<1>15. sn' = [pc |-> "state", t |-> t, k |-> k, status |-> st[t].status, frozen |-> f]
  BY <1>12, <1>14
<1>16. SnOK' BY <1>1, <1>10, <1>15 DEF SnOK, Capturing, Owner
<1>17. /\ guest' \in [Task -> [alive : BOOLEAN, stopped : BOOLEAN, orphan : BOOLEAN]]
       /\ \A h \in Task : guest'[h].stopped => guest[h].stopped \/ (freeze /\ h = g)
  <2>1. CASE freeze
    <3>1. PICK x : x = [guest[g] EXCEPT !.stopped = TRUE] OBVIOUS
    <3>2. x \in [alive : BOOLEAN, stopped : BOOLEAN, orphan : BOOLEAN]
      BY <1>13, <2>1, <3>1 DEF StOK
    <3>3. guest' = [guest EXCEPT ![g] = x] BY <1>12, <2>1, <3>1
    <3> QED BY <1>13, <2>1, <3>2, <3>3 DEF StOK
  <2>2. CASE ~freeze BY <1>12, <2>2 DEF StOK
  <2> QED BY <2>1, <2>2
<1>18. StOK' BY <1>1, <1>17 DEF StOK, Owner
<1>19. FrozenOnlyWhileCaptured'
  <2>1. sn = Idle BY DEF SnapBegin
  <2>2. \A h \in Task : guest[h].stopped => crashed
    BY <2>1 DEF FrozenOnlyWhileCaptured, Idle
  <2>3. sn'.pc = "state" /\ sn'.frozen = f BY <1>15
  <2> QED BY <1>1, <1>14, <1>17, <2>2, <2>3 DEF FrozenOnlyWhileCaptured
<1> QED BY <1>1, <1>8, <1>16, <1>18, <1>19, OthersKept

(* The guest a handle names is continued, and no other. *)
LEMMA ThawedGuests ==
  ASSUME IInv, NEW f \in Owner, guest' = Thawed(f)
  PROVE  /\ guest' \in [Task -> [alive : BOOLEAN, stopped : BOOLEAN, orphan : BOOLEAN]]
         /\ \A h \in Task : guest'[h].stopped => guest[h].stopped /\ h # f
<1> USE DEF IInv
<1>1. CASE f = Root
  <2>1. guest' = guest BY <1>1 DEF Thawed
  <2> QED BY <1>1, <2>1, SnapshotsAssumption DEF StOK
<1>2. CASE f # Root
  <2>1. f \in Task BY <1>2 DEF Owner
  <2>2. PICK x : x = [guest[f] EXCEPT !.stopped = FALSE] OBVIOUS
  <2>3. x \in [alive : BOOLEAN, stopped : BOOLEAN, orphan : BOOLEAN] /\ ~x.stopped
    BY <2>1, <2>2 DEF StOK
  <2>4. guest' = [guest EXCEPT ![f] = x] BY <1>2, <2>2 DEF Thawed
  <2> QED BY <2>1, <2>3, <2>4 DEF StOK
<1> QED BY <1>1, <1>2

(* The snapshot's directory is removed and the guest continued. *)
LEMMA SnapAbortKeeps ==
  ASSUME IInv, Capturing, SnapAbort, UNCHANGED <<st, cl, rb, del, arch, crashed>>
  PROVE  IInv'
<1> USE DEF IInv
<1>1. PICK p : p = <<sn.t, sn.k>> OBVIOUS
<1>2. sn.t \in Task /\ sn.k \in Slots /\ sn.frozen \in Owner BY DEF SnOK, Capturing, Slots
<1>3. p \in Paths BY <1>1, <1>2, PathIn
<1>4. snaps' = [snaps EXCEPT ![p] = NoSnap] BY <1>1 DEF SnapAbort
<1>5. DOMAIN img' = DOMAIN img \ {p} BY <1>1, Files DEF SnapAbort
<1>6. SnapsOK'
  <2>1. snaps' = [q \in Paths |-> snaps'[q]] BY <1>4 DEF SnapsOK
  <2>2. \A q \in Paths : \/ snaps'[q] = NoSnap
                         \/ snaps'[q] = snaps[q] /\ (q \in DOMAIN img => q \in DOMAIN img')
    BY <1>4, <1>5 DEF SnapsOK
  <2> QED BY <2>1, <2>2, SnapsKept
<1>7. sn' = Idle BY DEF SnapAbort
<1>8. SnOK' BY <1>7 DEF SnOK, Idle, Capturing
<1>9. guest' = Thawed(sn.frozen) BY DEF SnapAbort
<1>10. /\ guest' \in [Task -> [alive : BOOLEAN, stopped : BOOLEAN, orphan : BOOLEAN]]
       /\ \A h \in Task : guest'[h].stopped => guest[h].stopped /\ h # sn.frozen
  BY <1>2, <1>9, ThawedGuests
<1>11. StOK' BY <1>10 DEF StOK, Owner
<1>12. FrozenOnlyWhileCaptured' BY <1>10 DEF FrozenOnlyWhileCaptured
<1> QED BY <1>6, <1>8, <1>11, <1>12, OthersKept

LEMMA SnapStateKeeps ==
  ASSUME IInv, SnapState
  PROVE  IInv'
<1> USE DEF IInv
<1>0. sn.pc = "state" BY DEF SnapState
<1>1. UNCHANGED <<st, cl, rb, del, arch, crashed>> BY DEF SnapState
<1>2. CASE SnapAbort BY <1>0, <1>1, <1>2, SnapAbortKeeps DEF Capturing
<1>3. CASE ~SnapAbort
  <2>1. PICK p : p = <<sn.t, sn.k>> OBVIOUS
  <2>2. /\ sn.t \in Task /\ sn.k \in Slot /\ sn.status # "none" /\ sn.frozen \in Owner
        /\ sn = [pc |-> sn.pc, t |-> sn.t, k |-> sn.k, status |-> sn.status,
                 frozen |-> sn.frozen]
    BY <1>0 DEF SnOK, Capturing
  <2>3. p \in Paths /\ \A u \in Task : p # Live(u) BY <2>1, <2>2, PathIn, LiveIn DEF Slots
  <2>4. /\ snaps[p].at # "none" /\ sn' = [sn EXCEPT !.pc = "disk"] /\ UNCHANGED <<img, guest>>
        /\ \/ snaps' = snaps /\ st[sn.t].status = "none"
           \/ snaps' = [snaps EXCEPT ![p] = [@ EXCEPT !.copy = TRUE, !.spec = st[sn.t].spec]]
           \/ snaps' = [snaps EXCEPT ![p].bare = TRUE]
    BY <1>3, <2>1 DEF SnapState
  <2>5. PICK r : r = snaps[p] OBVIOUS
  <2>6. Sound(r) /\ r.at # "none" /\ (r.disk => r.cut \/ p \in DOMAIN img)
    BY <2>3, <2>4, <2>5 DEF SnapsOK
  <2>7. st[sn.t].status = "none" => r.cut BY <1>0, <2>1, <2>4, <2>5 DEF SnOK, Capturing
  <2>8. PICK s : s = CASE snaps' = snaps -> r
                       [] snaps' # snaps /\ snaps' = [snaps EXCEPT ![p].bare = TRUE] ->
                            [r EXCEPT !.bare = TRUE]
                       [] OTHER -> [r EXCEPT !.copy = TRUE, !.spec = st[sn.t].spec] OBVIOUS
  <2>9. /\ Sound(s) /\ s.at = r.at /\ (s.copy \/ s.bare \/ s.cut)
        /\ s.disk = r.disk /\ s.cut = r.cut /\ snaps' = [snaps EXCEPT ![p] = s]
    <3>1. CASE snaps' = snaps
      <4>1. s = r BY <2>8, <3>1
      <4>2. snaps' = [snaps EXCEPT ![p] = s] BY <2>3, <2>5, <3>1, <4>1 DEF SnapsOK
      <4>3. r.cut \/ r.copy \/ r.bare
        <5>1. CASE st[sn.t].status = "none" BY <2>7, <5>1
        <5>2. CASE snaps' = [snaps EXCEPT ![p].bare = TRUE]
          <6>1. snaps'[p] = [r EXCEPT !.bare = TRUE] BY <2>3, <2>5, <5>2 DEF SnapsOK
          <6>2. r = [r EXCEPT !.bare = TRUE] BY <2>5, <3>1, <6>1
          <6> QED BY <2>6, <6>2 DEF Sound
        <5>3. CASE snaps' = [snaps EXCEPT ![p] = [@ EXCEPT !.copy = TRUE, !.spec = st[sn.t].spec]]
          <6>1. snaps'[p] = [r EXCEPT !.copy = TRUE, !.spec = st[sn.t].spec]
            BY <2>3, <2>5, <5>3 DEF SnapsOK
          <6>2. r = [r EXCEPT !.copy = TRUE, !.spec = st[sn.t].spec] BY <2>5, <3>1, <6>1
          <6> QED BY <2>6, <6>2 DEF Sound
        <5> QED BY <2>4, <5>1, <5>2, <5>3
      <4> QED BY <2>6, <4>1, <4>2, <4>3
    <3>2. CASE snaps' # snaps /\ snaps' = [snaps EXCEPT ![p].bare = TRUE]
      <4>1. s = [r EXCEPT !.bare = TRUE] BY <2>8, <3>2
      <4>2. s = [at |-> r.at, status |-> r.status, spec |-> r.spec, copy |-> r.copy,
                 disk |-> r.disk, taken |-> r.taken, bare |-> TRUE, cut |-> r.cut]
        BY <2>6, <4>1 DEF Sound
      <4>3. snaps' = [snaps EXCEPT ![p] = s] BY <2>5, <3>2, <4>1
      <4> QED BY <2>6, <4>2, <4>3 DEF Sound
    <3>3. CASE snaps' # snaps /\ snaps' # [snaps EXCEPT ![p].bare = TRUE]
      <4>1. s = [r EXCEPT !.copy = TRUE, !.spec = st[sn.t].spec] BY <2>8, <3>3
      <4>2. s = [at |-> r.at, status |-> r.status, spec |-> st[sn.t].spec, copy |-> TRUE,
                 disk |-> r.disk, taken |-> r.taken, bare |-> r.bare, cut |-> r.cut]
        BY <2>6, <4>1 DEF Sound
      <4>3. snaps' = [snaps EXCEPT ![p] = s] BY <2>4, <2>5, <3>3, <4>1
      <4> QED BY <2>6, <4>2, <4>3 DEF Sound
    <3> QED BY <3>1, <3>2, <3>3
  <2>10. Sound(s) /\ (s.disk => s.cut \/ p \in DOMAIN img) BY <2>6, <2>9
  <2>11. snaps' = [snaps EXCEPT ![p] = s] BY <2>9
  <2>12. \A q \in Paths : snaps'[q] = IF q = p THEN s ELSE snaps[q] BY <2>11 DEF SnapsOK
  <2>13. SnapsOK'
    <3>1. snaps' = [q \in Paths |-> snaps'[q]] BY <2>11 DEF SnapsOK
    <3>2. \A q \in Paths : \/ snaps'[q] = snaps[q] /\ (q \in DOMAIN img => q \in DOMAIN img')
                           \/ /\ Sound(snaps'[q]) /\ (snaps'[q].disk => snaps'[q].cut \/ q \in DOMAIN img')
                              /\ \A u \in Task : q # Live(u)
      BY <2>3, <2>4, <2>10, <2>12
    <3> QED BY <3>1, <3>2, SnapsKept
  <2>14. sn' = [pc |-> "disk", t |-> sn.t, k |-> sn.k, status |-> sn.status,
                frozen |-> sn.frozen] BY <2>2, <2>4
  <2>15. \/ snaps'[<<sn.t, sn.k>>].copy \/ snaps'[<<sn.t, sn.k>>].bare
         \/ snaps'[<<sn.t, sn.k>>].cut
    BY <2>1, <2>3, <2>9, <2>12
  <2>16. SnOK' BY <2>2, <2>14, <2>15 DEF SnOK, Capturing, Owner
  <2>17. StOK' BY <1>1, <2>4 DEF StOK
  <2>18. FrozenOnlyWhileCaptured' BY <1>0, <1>1, <2>4, <2>14 DEF FrozenOnlyWhileCaptured
  <2> QED BY <1>1, <2>13, <2>16, <2>17, <2>18, OthersKept
<1> QED BY <1>2, <1>3

(* The disk was branched or copied, or there is none. *)
LEMMA SnapDiskKeeps ==
  ASSUME IInv, SnapDisk
  PROVE  IInv'
<1> USE DEF IInv
<1>0. sn.pc = "disk" BY DEF SnapDisk
<1>1. UNCHANGED <<st, cl, rb, del, arch, crashed>> BY DEF SnapDisk
<1>2. CASE SnapAbort BY <1>0, <1>1, <1>2, SnapAbortKeeps DEF Capturing
<1>3. CASE ~SnapAbort
  <2>1. PICK p : p = <<sn.t, sn.k>> OBVIOUS
  <2>2. /\ sn.t \in Task /\ sn.k \in Slot /\ sn.status # "none" /\ sn.frozen \in Owner
        /\ sn = [pc |-> sn.pc, t |-> sn.t, k |-> sn.k, status |-> sn.status,
                 frozen |-> sn.frozen]
    BY <1>0 DEF SnOK, Capturing
  <2>3. p \in Paths /\ \A u \in Task : p # Live(u) BY <2>1, <2>2, PathIn, LiveIn DEF Slots
  <2>4. PICK w : w = IF Opens(Live(sn.t)) THEN Content(Live(sn.t)) ELSE 0 OBVIOUS
  <2>5. PICK r : r = snaps[p] OBVIOUS
  <2>6. PICK s : s = [r EXCEPT !.disk = TRUE, !.taken = w] OBVIOUS
  <2>7. /\ sn' = [sn EXCEPT !.pc = "meta"]
        /\ guest' = Thawed(sn.frozen)
        /\ \/ UNCHANGED <<img, snaps>>
           \/ \E i : /\ img' = With(p, i) /\ snaps[p].at # "none"
                     /\ snaps' = [snaps EXCEPT ![p] = [@ EXCEPT !.disk = TRUE, !.taken = w]]
    BY <1>3, <2>1, <2>4 DEF SnapDisk, CaptureFails
  <2>8. Sound(r) /\ (r.disk => r.cut \/ p \in DOMAIN img) BY <2>3, <2>5 DEF SnapsOK
  <2>9. r.at # "none" => r.copy \/ r.bare \/ r.cut
    BY <1>0, <2>1, <2>5 DEF SnOK, Capturing
  <2>10. s = [at |-> r.at, status |-> r.status, spec |-> r.spec, copy |-> r.copy,
              disk |-> TRUE, taken |-> w, bare |-> r.bare, cut |-> r.cut]
    BY <2>6, <2>8 DEF Sound
  <2>11. /\ r.at # "none" => Sound(s)
         /\ s.at = r.at /\ s.copy = r.copy /\ s.bare = r.bare /\ s.cut = r.cut
    BY <2>8, <2>10 DEF Sound
  <2>12. /\ SnapsOK'
         /\ snaps'[p].at # "none" => snaps'[p].copy \/ snaps'[p].bare \/ snaps'[p].cut
    <3>1. CASE UNCHANGED <<img, snaps>>
      <4>1. SnapsOK' BY <2>2, <3>1, LiveOnly
      <4> QED BY <4>1, <2>5, <2>9, <3>1
    <3>2. CASE \E i : /\ img' = With(p, i) /\ snaps[p].at # "none"
                      /\ snaps' = [snaps EXCEPT ![p] = [@ EXCEPT !.disk = TRUE, !.taken = w]]
      <4>1. PICK i : img' = With(p, i) BY <3>2
      <4>2. DOMAIN img' = DOMAIN img \cup {p} BY <4>1, Files
      <4>3. snaps' = [snaps EXCEPT ![p] = s] BY <2>5, <2>6, <3>2
      <4>4. \A q \in Paths : snaps'[q] = IF q = p THEN s ELSE snaps[q] BY <4>3 DEF SnapsOK
      <4>5. snaps' = [q \in Paths |-> snaps'[q]] BY <4>3 DEF SnapsOK
      <4>6. \A q \in Paths : \/ snaps'[q] = snaps[q] /\ (q \in DOMAIN img => q \in DOMAIN img')
                             \/ /\ Sound(snaps'[q]) /\ (snaps'[q].disk => snaps'[q].cut \/ q \in DOMAIN img')
                                /\ \A u \in Task : q # Live(u)
        BY <2>3, <2>5, <2>11, <3>2, <4>2, <4>4
      <4>7. SnapsOK' BY <4>5, <4>6, SnapsKept
      <4> QED BY <2>3, <2>9, <2>11, <4>4, <4>7
    <3> QED BY <2>7, <3>1, <3>2
  <2>13. sn' = [pc |-> "meta", t |-> sn.t, k |-> sn.k, status |-> sn.status,
                frozen |-> sn.frozen] BY <2>2, <2>7
  <2>14. SnOK' BY <2>1, <2>2, <2>12, <2>13 DEF SnOK, Capturing, Owner
  <2>15. /\ guest' \in [Task -> [alive : BOOLEAN, stopped : BOOLEAN, orphan : BOOLEAN]]
         /\ \A h \in Task : guest'[h].stopped => guest[h].stopped /\ h # sn.frozen
    BY <2>2, <2>7, ThawedGuests
  <2>16. StOK' BY <1>1, <2>15 DEF StOK, Owner
  <2>17. FrozenOnlyWhileCaptured' BY <1>1, <2>15 DEF FrozenOnlyWhileCaptured
  <2> QED BY <1>1, <2>12, <2>14, <2>16, <2>17, OthersKept
<1> QED BY <1>2, <1>3

(* The snapshot is listed: its state was copied and its status is known. *)
LEMMA SnapMetaKeeps ==
  ASSUME IInv, SnapMeta
  PROVE  IInv'
<1> USE DEF IInv
<1>0. sn.pc = "meta" BY DEF SnapMeta
<1>1. UNCHANGED <<st, cl, rb, del, arch, crashed>> BY DEF SnapMeta
<1>2. CASE SnapAbort BY <1>0, <1>1, <1>2, SnapAbortKeeps DEF Capturing
<1>3. CASE ~SnapAbort
  <2>1. PICK p : p = <<sn.t, sn.k>> OBVIOUS
  <2>2. sn.t \in Task /\ sn.k \in Slot /\ sn.status # "none" BY <1>0 DEF SnOK, Capturing
  <2>3. p \in Paths /\ \A u \in Task : p # Live(u) BY <2>1, <2>2, PathIn, LiveIn DEF Slots
  <2>4. /\ snaps[p].at # "none"
        /\ snaps' = [snaps EXCEPT ![p].at = "meta", ![p].status = sn.status]
        /\ UNCHANGED <<img, guest>> /\ sn' = Idle
    BY <1>3, <2>1 DEF SnapMeta
  <2>5. PICK r : r = snaps[p] OBVIOUS
  <2>6. Sound(r) /\ (r.disk => r.cut \/ p \in DOMAIN img) BY <2>3, <2>5 DEF SnapsOK
  <2>7. r.copy \/ r.bare \/ r.cut BY <1>0, <2>1, <2>4, <2>5 DEF SnOK, Capturing
  <2>8. PICK s : s = [at |-> "meta", status |-> sn.status, spec |-> r.spec, copy |-> r.copy,
                      disk |-> r.disk, taken |-> r.taken, bare |-> r.bare, cut |-> r.cut]
    OBVIOUS
  <2>9. Sound(s) /\ (s.disk => s.cut \/ p \in DOMAIN img) BY <2>2, <2>6, <2>7, <2>8 DEF Sound
  <2>10. snaps' = [snaps EXCEPT ![p] = s]
    <3>1. PICK x : x = [r EXCEPT !.at = "meta"] OBVIOUS
    <3>2. x = [at |-> "meta", status |-> r.status, spec |-> r.spec, copy |-> r.copy,
               disk |-> r.disk, taken |-> r.taken, bare |-> r.bare, cut |-> r.cut] BY <2>6, <3>1 DEF Sound
    <3>3. [x EXCEPT !.status = sn.status] = s BY <2>8, <3>2
    <3>4. PICK m : m = [snaps EXCEPT ![p].at = "meta"] OBVIOUS
    <3>5. m = [snaps EXCEPT ![p] = x] BY <2>5, <3>1, <3>4
    <3>6. snaps' = [m EXCEPT ![p].status = sn.status] BY <2>4, <3>4
    <3>7. m[p] = x BY <2>3, <3>5 DEF SnapsOK
    <3>8. snaps' = [m EXCEPT ![p] = s] BY <3>3, <3>6, <3>7
    <3> QED BY <3>5, <3>8 DEF SnapsOK
  <2>11. \A q \in Paths : snaps'[q] = IF q = p THEN s ELSE snaps[q] BY <2>10 DEF SnapsOK
  <2>12. SnapsOK'
    <3>1. snaps' = [q \in Paths |-> snaps'[q]] BY <2>10 DEF SnapsOK
    <3>2. \A q \in Paths : \/ snaps'[q] = snaps[q] /\ (q \in DOMAIN img => q \in DOMAIN img')
                           \/ /\ Sound(snaps'[q]) /\ (snaps'[q].disk => snaps'[q].cut \/ q \in DOMAIN img')
                              /\ \A u \in Task : q # Live(u)
      BY <2>3, <2>4, <2>9, <2>11
    <3> QED BY <3>1, <3>2, SnapsKept
  <2>13. SnOK' BY <2>4 DEF SnOK, Idle, Capturing
  <2>14. StOK' BY <1>1, <2>4 DEF StOK
  <2>15. FrozenOnlyWhileCaptured' BY <1>0, <1>1, <2>4 DEF FrozenOnlyWhileCaptured
  <2> QED BY <1>1, <2>12, <2>13, <2>14, <2>15, OthersKept
<1> QED BY <1>2, <1>3

(* Deletion of a snapshot. *)
LEMMA DropKeeps ==
  ASSUME IInv, (\E t \in Task, k \in Slot : DropBegin(t, k)) \/ DropPart \/ DropRemove
  PROVE  IInv'
<1> USE DEF IInv
<1>1. UNCHANGED <<st, cl, rb, del, arch, crashed, guest>>
  BY DEF DropBegin, DropPart, DropRemove, files
<1>2. StOK' BY <1>1 DEF StOK
<1>3. ASSUME NEW t \in Task, NEW k \in Slot, DropBegin(t, k) PROVE IInv'
  <2>1. UNCHANGED <<img, snaps>> /\ sn = Idle /\ sn' = [pc |-> "drop", t |-> t, k |-> k]
    BY <1>3 DEF DropBegin, files
  <2>2. SnapsOK' BY <2>1, LiveOnly
  <2>3. SnOK' BY <2>1 DEF SnOK, Capturing
  <2>4. FrozenOnlyWhileCaptured' BY <1>1, <2>1 DEF FrozenOnlyWhileCaptured, Idle
  <2> QED BY <1>1, <1>2, <2>2, <2>3, <2>4, OthersKept
<1>4. ASSUME DropRemove PROVE IInv'
  <2>1. PICK p : p = <<sn.t, sn.k>> OBVIOUS
  <2>2. sn.pc = "drop" /\ sn' = Idle BY <1>4 DEF DropRemove
  <2>3. snaps' = [snaps EXCEPT ![p] = NoSnap] BY <1>4, <2>1 DEF DropRemove
  <2>4. DOMAIN img' = DOMAIN img \ {p} BY <1>4, <2>1, Files DEF DropRemove
  <2>5. SnapsOK'
    <3>1. snaps' = [q \in Paths |-> snaps'[q]] BY <2>3 DEF SnapsOK
    <3>2. \A q \in Paths : \/ snaps'[q] = NoSnap
                           \/ snaps'[q] = snaps[q] /\ (q \in DOMAIN img => q \in DOMAIN img')
      BY <2>3, <2>4 DEF SnapsOK
    <3> QED BY <3>1, <3>2, SnapsKept
  <2>6. SnOK' BY <2>2 DEF SnOK, Idle, Capturing
  <2>7. FrozenOnlyWhileCaptured' BY <1>1, <2>2 DEF FrozenOnlyWhileCaptured
  <2> QED BY <1>1, <1>2, <2>5, <2>6, <2>7, OthersKept
<1>5. ASSUME DropPart PROVE IInv'
  <2>1. PICK p : p = <<sn.t, sn.k>> OBVIOUS
  <2>2. sn.pc = "drop" /\ sn.t \in Task /\ sn.k \in Slot BY <1>5 DEF DropPart, SnOK
  <2>3. p \in Paths /\ \A u \in Task : p # Live(u) BY <2>1, <2>2, PathIn, LiveIn DEF Slots
  <2>4. (sn' = sn \/ sn' = Idle) BY <1>5 DEF DropPart
  <2>5. \/ UNCHANGED <<img, snaps>>
        \/ \E r : /\ snaps[p].at # "none" /\ r \in Fewer(snaps[p]) \cup {[snaps[p] EXCEPT !.cut = TRUE]}
                  /\ snaps' = [snaps EXCEPT ![p] = r] /\ (img' = img \/ img' = Without({p}))
    BY <1>5, <2>1 DEF DropPart
  <2>6. SnapsOK'
    <3>1. CASE UNCHANGED <<img, snaps>> BY <2>2, <3>1, LiveOnly
    <3>2. ASSUME NEW r, snaps[p].at # "none",
                 r \in Fewer(snaps[p]) \cup {[snaps[p] EXCEPT !.cut = TRUE]},
                 snaps' = [snaps EXCEPT ![p] = r], img' = img \/ img' = Without({p})
          PROVE  SnapsOK'
      <4>1. Sound(r) /\ r.cut BY <2>3, <3>2, CutSound DEF SnapsOK
      <4>2. \A q \in Paths : snaps'[q] = IF q = p THEN r ELSE snaps[q] BY <3>2 DEF SnapsOK
      <4>3. snaps' = [q \in Paths |-> snaps'[q]] BY <3>2 DEF SnapsOK
      <4>4. \A q : q # p /\ q \in DOMAIN img => q \in DOMAIN img' BY <3>2, Files
      <4> QED BY <2>3, <4>1, <4>2, <4>3, <4>4, SnapsKept
    <3> QED BY <2>5, <3>1, <3>2
  <2>7. SnOK' BY <2>2, <2>4 DEF SnOK, Idle, Capturing
  <2>8. FrozenOnlyWhileCaptured' BY <1>1, <2>2, <2>4 DEF FrozenOnlyWhileCaptured, Idle
  <2> QED BY <1>1, <1>2, <2>6, <2>7, <2>8, OthersKept
<1> QED BY <1>3, <1>4, <1>5

-----------------------------------------------------------------------------
(* Clones. *)

(* A step of a clone that makes no snapshot and writes no state. *)
LEMMA CloneStepKeeps ==
  ASSUME IInv, UNCHANGED <<snaps, st, guest, sn, rb, del, arch, crashed>>,
         NEW d \in Task,
         \A p \in Paths : p # Live(d) => (p \in DOMAIN img => p \in DOMAIN img'),
         ClOK'
  PROVE  IInv'
<1> USE DEF IInv
<1>1. SnapsOK' BY LiveOnly
<1>2. SnOK' BY SnKept
<1>3. StOK' BY DEF StOK
<1>4. FrozenOnlyWhileCaptured' BY StoppedKept
<1> QED BY <1>1, <1>2, <1>3, <1>4, OthersKept

(* The next stage of a clone has the same source and destination. *)
LEMMA CloneStage ==
  ASSUME ClOK, cl.pc # "idle", NEW c, cl' = [cl EXCEPT !.pc = c]
  PROVE  ClOK'
<1>1. /\ cl = [pc |-> cl.pc, src |-> cl.src, dst |-> cl.dst]
      /\ cl.src \in Task /\ cl.dst \in Task BY DEF ClOK
<1>2. cl' = [pc |-> c, src |-> cl.src, dst |-> cl.dst] BY <1>1
<1> QED BY <1>1, <1>2 DEF ClOK

(* A clone that fails has made no snapshot either. *)
LEMMA CloneFailsKeeps ==
  ASSUME IInv, cl.pc # "idle", NEW m, CloneFails(m),
         UNCHANGED <<guest, sn, rb, del, arch, crashed>>
  PROVE  IInv'
<1>1. cl.dst \in Task BY DEF IInv, ClOK
<1>2. UNCHANGED <<img, st, snaps>> /\ cl' = [cl EXCEPT !.pc = "undo"] BY DEF CloneFails
<1>3. ClOK' BY <1>2, CloneStage DEF IInv
<1> QED BY <1>1, <1>2, <1>3, CloneStepKeeps

LEMMA CloneUndoKeeps ==
  ASSUME IInv, CloneUndo
  PROVE  IInv'
<1> USE DEF IInv
<1>1. UNCHANGED <<guest, sn, rb, del, arch, crashed>> /\ cl.pc = "undo" BY DEF CloneUndo
<1>2. cl.dst \in Task BY <1>1 DEF ClOK
<1>3. ClOK'
  <2>1. cl' = cl \/ cl' = Idle BY DEF CloneUndo
  <2> QED BY <2>1, OthersKept DEF ClOK, Idle
<1>4. CASE UNCHANGED files
  <2>1. UNCHANGED <<img, st, snaps>> BY <1>4 DEF files
  <2> QED BY <1>1, <1>2, <1>3, <2>1, CloneStepKeeps
<1>5. CASE RemovePart(cl.dst) BY <1>1, <1>2, <1>3, <1>5, RemovePartKeeps, OthersKept
<1>6. CASE RemoveDir(cl.dst) BY <1>1, <1>2, <1>3, <1>6, RemoveDirKeeps, OthersKept
<1> QED BY <1>4, <1>5, <1>6 DEF CloneUndo

LEMMA CloneKeeps ==
  ASSUME IInv,
         \/ \E s, d \in Task : CloneBegin(s, d)
         \/ CloneBranch \/ CloneMark \/ CloneParent \/ CloneSave \/ CloneUndo
  PROVE  IInv'
<1> USE DEF IInv
<1>1. ASSUME NEW s \in Task, NEW d \in Task, CloneBegin(s, d) PROVE IInv'
  <2>1. /\ UNCHANGED <<img, snaps, st, guest, sn, rb, del, arch, crashed>>
        /\ cl' = [pc |-> "branch", src |-> s, dst |-> d] BY <1>1 DEF CloneBegin
  <2>2. ClOK' BY <2>1 DEF ClOK
  <2> QED BY <2>1, <2>2, CloneStepKeeps
<1>2. ASSUME CloneBranch PROVE IInv'
  <2>1. UNCHANGED <<guest, sn, rb, del, arch, crashed>> /\ cl.pc = "branch"
    BY <1>2 DEF CloneBranch
  <2>2. CASE CloneFails(marks) BY <2>1, <2>2, CloneFailsKeeps
  <2>3. CASE ~CloneFails(marks)
    <3>1. UNCHANGED <<snaps, st>> /\ \E c : cl' = [cl EXCEPT !.pc = c]
      BY <1>2, <2>3 DEF CloneBranch, files
    <3>2. img' = img \/ \E i : img' = With(Live(cl.dst), i)
      BY <1>2, <2>3 DEF CloneBranch, files
    <3>3. cl.dst \in Task BY <2>1 DEF ClOK
    <3>4. \A p \in Paths : p # Live(cl.dst) => (p \in DOMAIN img => p \in DOMAIN img')
      <4>1. CASE img' = img BY <4>1
      <4>2. ASSUME NEW i, img' = With(Live(cl.dst), i)
            PROVE  DOMAIN img' = DOMAIN img \cup {Live(cl.dst)}
        BY <4>2, Files
      <4> QED BY <3>2, <4>1, <4>2
    <3>5. ClOK' BY <2>1, <3>1, CloneStage
    <3> QED BY <2>1, <3>1, <3>3, <3>4, <3>5, CloneStepKeeps
  <2> QED BY <2>2, <2>3
<1>3. ASSUME CloneMark PROVE IInv'
  <2>1. /\ UNCHANGED <<img, snaps, st, guest, sn, rb, del, arch, crashed>>
        /\ cl.pc = "mark" /\ \E c : cl' = [cl EXCEPT !.pc = c]
    BY <1>3 DEF CloneMark, CloneFails
  <2>2. cl.dst \in Task BY <2>1 DEF ClOK
  <2>3. ClOK' BY <2>1, CloneStage
  <2> QED BY <2>1, <2>2, <2>3, CloneStepKeeps
<1>4. ASSUME CloneParent PROVE IInv'
  <2>1. UNCHANGED <<guest, sn, rb, del, arch, crashed>> /\ cl.pc = "parent"
    BY <1>4 DEF CloneParent
  <2>2. CASE \E m : CloneFails(m) BY <2>1, <2>2, CloneFailsKeeps
  <2>3. CASE ~ \E m : CloneFails(m)
    <3>1. UNCHANGED <<img, snaps, st>> /\ cl' = [cl EXCEPT !.pc = "save"]
      BY <1>4, <2>3 DEF CloneParent
    <3>2. cl.dst \in Task BY <2>1 DEF ClOK
    <3>3. ClOK' BY <2>1, <3>1, CloneStage
    <3> QED BY <2>1, <3>1, <3>2, <3>3, CloneStepKeeps
  <2> QED BY <2>2, <2>3
<1>5. ASSUME CloneSave PROVE IInv'
  <2>1. UNCHANGED <<guest, sn, rb, del, arch, crashed>> /\ cl.pc = "save"
    BY <1>5 DEF CloneSave
  <2>2. CASE CloneFails(marks) BY <2>1, <2>2, CloneFailsKeeps
  <2>3. CASE ~CloneFails(marks)
    <3>1. PICK s : s = [status |-> "ready", pid |-> Root, spec |-> st[cl.src].spec] OBVIOUS
    <3>2. s.status # "none" /\ s.pid \in Owner BY <3>1 DEF Owner
    <3>3. st' = [st EXCEPT ![cl.dst] = s] /\ cl' = Idle /\ UNCHANGED <<img, snaps>>
      BY <1>5, <2>3, <3>1 DEF CloneSave
    <3>4. cl.dst \in Task BY <2>1 DEF ClOK
    <3>5. /\ SnOK' /\ st' = [u \in Task |-> st'[u]]
          /\ \A u \in Task : st'[u].pid \in Owner
      BY <2>1, <3>2, <3>3, <3>4, StateWritten
    <3>6. SnapsOK' BY <3>3, <3>4, LiveOnly
    <3>7. StOK' BY <2>1, <3>5 DEF StOK, Owner
    <3>8. ClOK' BY <3>3 DEF ClOK, Idle
    <3>9. FrozenOnlyWhileCaptured' BY <2>1, StoppedKept
    <3> QED BY <2>1, <3>5, <3>6, <3>7, <3>8, <3>9, OthersKept
  <2> QED BY <2>2, <2>3
<1> QED BY <1>1, <1>2, <1>3, <1>4, <1>5, CloneUndoKeeps

-----------------------------------------------------------------------------
(* Rollback. *)

LEMMA RollbackKeeps ==
  ASSUME IInv,
         \/ \E t \in Task, k \in Slot, force \in BOOLEAN : RollbackBegin(t, k, force)
         \/ RollbackConvert \/ RollbackRename \/ RollbackSave
  PROVE  IInv'
<1> USE DEF IInv
<1>1. UNCHANGED <<snaps, sn, cl, del, arch, crashed>>
  BY DEF RollbackBegin, RollbackConvert, RollbackRename, RollbackSave, files
<1>2. ASSUME UNCHANGED <<img, st, guest>>, RbOK' PROVE IInv'
  <2>1. SnapsOK'
    <3>1. snaps' = [p \in Paths |-> snaps'[p]] BY <1>1 DEF SnapsOK
    <3> QED BY <1>1, <1>2, <3>1, SnapsKept
  <2>2. SnOK' BY <1>1, <1>2, SnKept
  <2>3. StOK' BY <1>2 DEF StOK
  <2>4. FrozenOnlyWhileCaptured' BY <1>1, <1>2, StoppedKept
  <2> QED BY <1>1, <1>2, <2>1, <2>2, <2>3, <2>4, OthersKept
<1>3. ASSUME NEW t \in Task, NEW k \in Slot, NEW force, RollbackBegin(t, k, force)
      PROVE  IInv'
  <2>1. UNCHANGED <<img, st, guest>> BY <1>3 DEF RollbackBegin, files
  <2>2. PICK s : s = snaps[<<t, k>>] OBVIOUS
  <2>3. s.at = "meta" BY <1>3, <2>2 DEF RollbackBegin, Listed
  <2>4. <<t, k>> \in Paths BY PathIn DEF Slots
  <2>5. s.status # "none" BY <2>2, <2>3, <2>4 DEF SnapsOK, Sound
  <2>6. rb' = [pc |-> "convert", t |-> t, k |-> k, buf |-> 0, status |-> s.status,
               cur |-> st[t]] BY <1>3, <2>2 DEF RollbackBegin
  <2>7. RbOK' BY <2>5, <2>6 DEF RbOK
  <2> QED BY <1>2, <2>1, <2>7
<1>4. ASSUME RollbackConvert PROVE IInv'
  <2>1. UNCHANGED <<img, st, guest>> /\ rb.pc = "convert" BY <1>4 DEF RollbackConvert, files
  <2>2. PICK w : w = Content(<<rb.t, rb.k>>) OBVIOUS
  <2>3. \/ rb' = Idle \/ rb' = [rb EXCEPT !.pc = "save"]
        \/ rb' = [rb EXCEPT !.pc = "rename", !.buf = w]
    BY <1>4, <2>2 DEF RollbackConvert
  <2>4. RbOK'
    <3>1. CASE rb' = Idle BY <3>1 DEF RbOK, Idle
    <3>2. CASE rb' = [rb EXCEPT !.pc = "save"]
      <4>1. rb' = [pc |-> "save", t |-> rb.t, k |-> rb.k, buf |-> rb.buf,
                   status |-> rb.status, cur |-> rb.cur] BY <2>1, <3>2 DEF RbOK
      <4> QED BY <2>1, <4>1 DEF RbOK
    <3>3. CASE rb' = [rb EXCEPT !.pc = "rename", !.buf = w]
      <4>1. rb' = [pc |-> "rename", t |-> rb.t, k |-> rb.k, buf |-> w,
                   status |-> rb.status, cur |-> rb.cur] BY <2>1, <3>3 DEF RbOK
      <4> QED BY <2>1, <4>1 DEF RbOK
    <3> QED BY <2>3, <3>1, <3>2, <3>3
  <2> QED BY <1>2, <2>1, <2>4
<1>5. ASSUME RollbackRename PROVE IInv'
  <2>1. st' = st /\ rb.pc = "rename" BY <1>5 DEF RollbackRename
  <2>2. CASE rb' = Idle /\ UNCHANGED <<img, guest>>
    <3>1. RbOK' BY <2>2 DEF RbOK, Idle
    <3> QED BY <1>2, <2>1, <2>2, <3>1
  <2>3. CASE ~(rb' = Idle /\ UNCHANGED <<img, guest>>)
    <3>1. rb.t \in Task BY <2>1 DEF RbOK
    <3>2. /\ img' = With(Live(rb.t), Restored) /\ rb' = [rb EXCEPT !.pc = "save"]
          /\ guest' = [guest EXCEPT ![rb.t].orphan = @ \/ guest[rb.t].alive]
      BY <1>5, <2>3 DEF RollbackRename
    <3>3. rb' = [pc |-> "save", t |-> rb.t, k |-> rb.k, buf |-> rb.buf,
                 status |-> rb.status, cur |-> rb.cur] BY <2>1, <3>2 DEF RbOK
    <3>4. RbOK' BY <2>1, <3>3 DEF RbOK
    <3>5. DOMAIN img' = DOMAIN img \cup {Live(rb.t)} BY <3>2, Files
    <3>6. SnapsOK' BY <1>1, <3>1, <3>5, LiveOnly
    <3>7. PICK x : x = [guest[rb.t] EXCEPT !.orphan = @ \/ guest[rb.t].alive] OBVIOUS
    <3>8. /\ x \in [alive : BOOLEAN, stopped : BOOLEAN, orphan : BOOLEAN]
          /\ x.stopped = guest[rb.t].stopped
      BY <3>1, <3>7 DEF StOK
    <3>9. guest' = [guest EXCEPT ![rb.t] = x] BY <3>2, <3>7
    <3>10. /\ guest' \in [Task -> [alive : BOOLEAN, stopped : BOOLEAN, orphan : BOOLEAN]]
           /\ \A g \in Task : guest'[g].stopped => guest[g].stopped
      BY <3>1, <3>8, <3>9 DEF StOK
    <3>11. StOK' BY <2>1, <3>10 DEF StOK
    <3>12. SnOK' BY <1>1, <2>1, SnKept
    <3>13. FrozenOnlyWhileCaptured' BY <1>1, <3>10, StoppedKept
    <3> QED BY <1>1, <3>4, <3>6, <3>11, <3>12, <3>13, OthersKept
  <2> QED BY <2>2, <2>3
<1>6. ASSUME RollbackSave PROVE IInv'
  <2>1. UNCHANGED <<img, guest>> /\ rb.pc = "save" /\ rb' = Idle BY <1>6 DEF RollbackSave
  <2>2. RbOK' BY <2>1 DEF RbOK, Idle
  <2>3. CASE st' = st BY <1>2, <2>1, <2>2, <2>3
  <2>4. CASE st' # st
    <3>1. PICK s : s = [status |-> rb.status, pid |-> Root,
             spec |-> IF snaps[<<rb.t, rb.k>>].copy THEN snaps[<<rb.t, rb.k>>].spec
                      ELSE rb.cur.spec] OBVIOUS
    <3>2. rb.t \in Task /\ s.status # "none" /\ s.pid \in Owner BY <2>1, <3>1 DEF RbOK, Owner
    <3>3. st' = [st EXCEPT ![rb.t] = s] BY <1>6, <2>4, <3>1 DEF RollbackSave
    <3>4. /\ SnOK' /\ st' = [u \in Task |-> st'[u]]
          /\ \A u \in Task : st'[u].pid \in Owner
      BY <1>1, <3>2, <3>3, StateWritten
    <3>5. SnapsOK' BY <1>1, <2>1, <3>2, LiveOnly
    <3>6. StOK' BY <2>1, <3>4 DEF StOK, Owner
    <3>7. FrozenOnlyWhileCaptured' BY <1>1, <2>1, StoppedKept
    <3> QED BY <1>1, <2>2, <3>4, <3>5, <3>6, <3>7, OthersKept
  <2> QED BY <2>3, <2>4
<1> QED BY <1>3, <1>4, <1>5, <1>6

-----------------------------------------------------------------------------
(* Deletion of a task, export, restore and crash. *)

LEMMA DeleteKeeps ==
  ASSUME IInv,
         \/ \E t \in Task, locked \in BOOLEAN : DeleteKill(t, locked)
         \/ DeleteGuard \/ DeletePart \/ DeleteRemove
  PROVE  IInv'
<1> USE DEF IInv
<1>1. UNCHANGED <<sn, cl, rb, arch, crashed>>
  BY DEF DeleteKill, DeleteGuard, DeletePart, DeleteRemove, files
<1>2. ASSUME NEW t \in Task, NEW locked, DeleteKill(t, locked) PROVE IInv'
  <2>1. UNCHANGED <<img, snaps, st>> /\ del' = [pc |-> "guard", t |-> t, locked |-> locked]
    BY <1>2 DEF DeleteKill, files
  <2>2. DelOK' BY <2>1 DEF DelOK
  <2>3. SnapsOK' BY <2>1, LiveOnly
  <2>4. SnOK' BY <1>1, <2>1, SnKept
  <2>5. guest' = IF st[t].pid = t THEN [guest EXCEPT ![t] = Dead] ELSE guest
    BY <1>2 DEF DeleteKill
  <2>6. /\ guest' \in [Task -> [alive : BOOLEAN, stopped : BOOLEAN, orphan : BOOLEAN]]
        /\ \A g \in Task : guest'[g].stopped => guest[g].stopped
    BY <2>5 DEF StOK, Dead
  <2>7. StOK' BY <2>1, <2>6 DEF StOK
  <2>8. FrozenOnlyWhileCaptured' BY <1>1, <2>6, StoppedKept
  <2> QED BY <1>1, <2>2, <2>3, <2>4, <2>7, <2>8, OthersKept
<1>3. ASSUME DeleteGuard PROVE IInv'
  <2>1. UNCHANGED <<img, snaps, st, guest>> /\ del.pc = "guard" BY <1>3 DEF DeleteGuard
  <2>2. del' = Idle \/ del' = [del EXCEPT !.pc = "remove"] BY <1>3 DEF DeleteGuard
  <2>3. del = [pc |-> del.pc, t |-> del.t, locked |-> del.locked] /\ del.t \in Task
    BY <2>1 DEF DelOK
  <2>4. DelOK'
    <3>1. CASE del' = Idle BY <3>1 DEF DelOK, Idle
    <3>2. CASE del' = [del EXCEPT !.pc = "remove"]
      <4>1. del' = [pc |-> "remove", t |-> del.t, locked |-> del.locked] BY <2>3, <3>2
      <4> QED BY <2>3, <4>1 DEF DelOK
    <3> QED BY <2>2, <3>1, <3>2
  <2>5. SnapsOK' BY <2>1, <2>3, LiveOnly
  <2>6. SnOK' BY <1>1, <2>1, SnKept
  <2>7. StOK' BY <2>1 DEF StOK
  <2>8. FrozenOnlyWhileCaptured' BY <1>1, <2>1, StoppedKept
  <2> QED BY <1>1, <2>4, <2>5, <2>6, <2>7, <2>8, OthersKept
<1>4. ASSUME DeleteRemove PROVE IInv'
  <2>1. del.pc = "remove" /\ RemoveDir(del.t) /\ del' = Idle /\ guest' = guest
    BY <1>4 DEF DeleteRemove
  <2>2. del.t \in Task BY <2>1 DEF DelOK
  <2>3. SnapsOK' /\ SnOK' /\ StOK' /\ FrozenOnlyWhileCaptured'
    BY <1>1, <2>1, <2>2, RemoveDirKeeps
  <2>4. DelOK' BY <2>1 DEF DelOK, Idle
  <2> QED BY <1>1, <2>3, <2>4, OthersKept
<1>5. ASSUME DeletePart PROVE IInv'
  <2>1. del.pc = "remove" /\ guest' = guest BY <1>5 DEF DeletePart
  <2>2. del.t \in Task BY <2>1 DEF DelOK
  <2>3. CASE RemovePart(del.t) /\ del' = del
    <3>1. SnapsOK' /\ SnOK' /\ StOK' /\ FrozenOnlyWhileCaptured'
      BY <1>1, <2>1, <2>2, <2>3, RemovePartKeeps
    <3> QED BY <1>1, <2>3, <3>1, OthersKept
  <2>4. CASE UNCHANGED files /\ del' = Idle
    <3>1. UNCHANGED <<img, snaps, st>> BY <2>4 DEF files
    <3>2. DelOK' BY <2>4 DEF DelOK, Idle
    <3>3. SnapsOK' BY <2>2, <3>1, LiveOnly
    <3>4. SnOK' BY <1>1, <3>1, SnKept
    <3>5. StOK' BY <2>1, <3>1 DEF StOK
    <3>6. FrozenOnlyWhileCaptured' BY <1>1, <2>1, StoppedKept
    <3> QED BY <1>1, <3>2, <3>3, <3>4, <3>5, <3>6, OthersKept
  <2> QED BY <1>5, <2>3, <2>4 DEF DeletePart
<1> QED BY <1>2, <1>3, <1>4, <1>5

LEMMA ExportKeeps ==
  ASSUME IInv, NEW t \in Task, Export(t)
  PROVE  IInv'
<1> USE DEF IInv
<1>1. UNCHANGED <<img, snaps, st, guest, sn, cl, rb, del, crashed>> BY DEF Export, files
<1>2. SnapsOK' BY <1>1, LiveOnly
<1>3. SnOK' BY <1>1, SnKept
<1>4. StOK' BY <1>1 DEF StOK
<1>5. FrozenOnlyWhileCaptured' BY <1>1, StoppedKept
<1>6. ArchOK'
  <2>1. PICK I : I = [k \in {k \in Slots : <<t, k>> \in DOMAIN img} |-> img[<<t, k>>]]
    OBVIOUS
  <2>2. PICK S : S = [k \in Slots |-> snaps[<<t, k>>]] OBVIOUS
  <2>3. arch' = [pc |-> "held", img |-> I, snaps |-> S,
                 st |-> st[t], marks |-> marks[t], parent |-> parent[t]]
    BY <2>1, <2>2 DEF Export, Slots
  <2>4. ASSUME NEW k \in Slots PROVE Sound(S[k]) /\ (S[k].disk => S[k].cut \/ k \in DOMAIN I)
    <3>1. <<t, k>> \in Paths BY PathIn
    <3>2. S[k] = snaps[<<t, k>>] BY <2>2
    <3> QED BY <2>1, <3>1, <3>2 DEF SnapsOK
  <2>5. S[0] = NoSnap
    <3>1. 0 \in Slots BY DEF Slots
    <3> QED BY <2>2, <3>1 DEF SnapsOK, Live
  <2>6. arch'.snaps = S /\ arch'.img = I /\ arch'.st = st[t] BY <2>3
  <2>7. st[t].pid \in Owner BY DEF StOK
  <2>8. \A k \in Slots : Sound(arch'.snaps[k]) /\ (arch'.snaps[k].disk => arch'.snaps[k].cut \/ k \in DOMAIN arch'.img)
    BY <2>4, <2>6
  <2> QED BY <2>5, <2>6, <2>7, <2>8 DEF ArchOK, Sound, NoSnap, Slots, Owner
<1> QED BY <1>1, <1>2, <1>3, <1>4, <1>5, <1>6, OthersKept

LEMMA ImportKeeps ==
  ASSUME IInv, Import
  PROVE  IInv'
<1> USE DEF IInv
<1>1. UNCHANGED <<guest, sn, cl, rb, del, crashed>> /\ arch' = Idle /\ arch.pc = "held"
  BY DEF Import
<1>2. PICK d \in Task : d = RestoredId BY SnapshotsAssumption
<1>3. snaps' = [p \in Paths |-> IF p[1] = d THEN arch.snaps[p[2]] ELSE snaps[p]]
  BY <1>2 DEF Import
<1>4. \A p \in Paths : /\ p \in DOMAIN img => p \in DOMAIN img'
                       /\ p[1] = d /\ p[2] \in DOMAIN arch.img => p \in DOMAIN img'
  BY <1>2 DEF Import
<1>5. st' = [st EXCEPT ![d] = arch.st] BY <1>2 DEF Import
<1>6. Capturing /\ sn.t = d => arch.snaps[sn.k] = NoSnap BY <1>2 DEF Import, Capturing
<1>7. SnapsOK'
  <2>1. snaps' = [p \in Paths |-> snaps'[p]] BY <1>3
  <2>2. ASSUME NEW p \in Paths
        PROVE \/ snaps'[p] = NoSnap
              \/ snaps'[p] = snaps[p] /\ (p \in DOMAIN img => p \in DOMAIN img')
              \/ /\ Sound(snaps'[p]) /\ (snaps'[p].disk => snaps'[p].cut \/ p \in DOMAIN img')
                 /\ \A t \in Task : p # Live(t)
    <3>1. CASE p[1] # d BY <1>3, <1>4, <3>1
    <3>2. CASE p[1] = d /\ p[2] = 0 BY <1>1, <1>3, <3>2 DEF ArchOK
    <3>3. CASE p[1] = d /\ p[2] # 0
      <4>1. p[2] \in Slots BY PathParts
      <4>2. snaps'[p] = arch.snaps[p[2]] BY <1>3, <3>3
      <4>3. Sound(snaps'[p]) /\ (snaps'[p].disk => snaps'[p].cut \/ p \in DOMAIN img')
        BY <1>1, <1>4, <3>3, <4>1, <4>2 DEF ArchOK
      <4>4. \A t \in Task : p # Live(t) BY <3>3 DEF Live
      <4> QED BY <4>3, <4>4
    <3> QED BY <3>1, <3>2, <3>3
  <2> QED BY <2>1, <2>2, SnapsKept
<1>8. SnOK'
  <2> SUFFICES ASSUME Capturing, snaps'[<<sn.t, sn.k>>].at # "none"
               PROVE  /\ snaps'[<<sn.t, sn.k>>] = snaps[<<sn.t, sn.k>>]
                      /\ st[sn.t].status # "none" => st'[sn.t].status # "none"
    BY <1>1, SnKept
  <2>1. sn.t \in Task /\ sn.k \in Slots BY DEF SnOK, Capturing, Slots
  <2>2. PICK p \in Paths : p = <<sn.t, sn.k>> BY <2>1, PathIn
  <2>3. p[1] = sn.t /\ p[2] = sn.k BY <2>2
  <2>4. sn.t # d BY <1>3, <1>6, <2>2, <2>3, NoSnapSound
  <2> QED BY <1>3, <1>5, <2>1, <2>2, <2>3, <2>4 DEF StOK
<1>9. StOK' BY <1>1, <1>5 DEF StOK, ArchOK, Owner
<1>10. FrozenOnlyWhileCaptured' BY <1>1, StoppedKept
<1>11. ArchOK' BY <1>1 DEF ArchOK, Idle
<1> QED BY <1>1, <1>7, <1>8, <1>9, <1>10, <1>11, OthersKept

LEMMA CrashKeeps ==
  ASSUME IInv, Crash
  PROVE  IInv'
<1> USE DEF IInv
<1>1. /\ UNCHANGED <<img, snaps, st, guest, arch>> /\ crashed' = TRUE
      /\ sn' = Idle /\ cl' = Idle /\ rb' = Idle /\ del' = Idle
  BY DEF Crash, files
<1>2. SnapsOK'
  <2>1. snaps' = [p \in Paths |-> snaps'[p]] BY <1>1 DEF SnapsOK
  <2> QED BY <1>1, <2>1, SnapsKept
<1>3. SnOK' BY <1>1 DEF SnOK, Idle, Capturing
<1>4. RbOK' /\ ClOK' /\ DelOK' BY <1>1 DEF RbOK, ClOK, DelOK, Idle
<1>5. StOK' /\ FrozenOnlyWhileCaptured' BY <1>1 DEF StOK, FrozenOnlyWhileCaptured
<1> QED BY <1>1, <1>2, <1>3, <1>4, <1>5, OthersKept

(* A step that changes nothing. *)
LEMMA StutterKeeps ==
  ASSUME IInv, UNCHANGED vars
  PROVE  IInv'
<1> USE DEF IInv
<1>1. UNCHANGED <<img, snaps, st, guest, arch, sn, cl, rb, del, crashed>> BY DEF vars, files
<1>2. SnapsOK'
  <2>1. snaps' = [p \in Paths |-> snaps'[p]] BY <1>1 DEF SnapsOK
  <2> QED BY <1>1, <2>1, SnapsKept
<1>3. SnOK' BY <1>1, SnKept
<1>4. StOK' BY <1>1 DEF StOK
<1>5. FrozenOnlyWhileCaptured' BY <1>1, StoppedKept
<1> QED BY <1>1, <1>2, <1>3, <1>4, <1>5, OthersKept

-----------------------------------------------------------------------------
(* Every step of Next keeps the invariant. *)
LEMMA StepKeeps ==
  ASSUME IInv, [Next]_vars
  PROVE  IInv'
<1>1. ASSUME NEW t \in Task, NEW spec, Launch(t, spec) \/ LaunchFails(t, spec) PROVE IInv'
  BY <1>1, LaunchKeeps
<1>2. ASSUME NEW t \in Task, NEW v, GuestWrite(t, v) PROVE IInv' BY <1>2, GuestWriteKeeps
<1>3. ASSUME NEW t \in Task, NEW k \in Slot, SnapBegin(t, k) PROVE IInv'
  BY <1>3, SnapBeginKeeps
<1>4. CASE SnapState BY <1>4, SnapStateKeeps
<1>5. CASE SnapDisk BY <1>5, SnapDiskKeeps
<1>6. CASE SnapMeta BY <1>6, SnapMetaKeeps
<1>7. CASE (\E t \in Task, k \in Slot : DropBegin(t, k)) \/ DropPart \/ DropRemove
  BY <1>7, DropKeeps
<1>8. CASE \/ \E s, d \in Task : CloneBegin(s, d)
           \/ CloneBranch \/ CloneMark \/ CloneParent \/ CloneSave \/ CloneUndo
  BY <1>8, CloneKeeps
<1>9. CASE \/ \E t \in Task, k \in Slot, force \in BOOLEAN : RollbackBegin(t, k, force)
           \/ RollbackConvert \/ RollbackRename \/ RollbackSave
  BY <1>9, RollbackKeeps
<1>10. CASE \/ \E t \in Task, locked \in BOOLEAN : DeleteKill(t, locked)
            \/ DeleteGuard \/ DeletePart \/ DeleteRemove
  BY <1>10, DeleteKeeps
<1>11. ASSUME NEW t \in Task, Export(t) PROVE IInv' BY <1>11, ExportKeeps
<1>12. CASE Import BY <1>12, ImportKeeps
<1>13. CASE Crash BY <1>13, CrashKeeps
<1>14. CASE UNCHANGED vars BY <1>14, StutterKeeps
<1>15. Done => UNCHANGED vars BY DEF Done
<1> QED
  BY <1>1, <1>2, <1>3, <1>4, <1>5, <1>6, <1>7, <1>8, <1>9, <1>10, <1>11, <1>12, <1>13,
     <1>14, <1>15 DEF Next

(***************************************************************************)
(* event.go: whatever operations run against each other, a snapshot whose  *)
(* snapshot.json can be read has the copy of the state that a rollback     *)
(* checks and the overlay it names, for every profile of operations.  Only *)
(* one that os.RemoveAll has begun on may lack either, and one for which   *)
(* state.json could not be read may lack the copy.                         *)
(***************************************************************************)
THEOREM ListedIsComplete == Spec => []CompleteWhenListed
<1>1. IInv => CompleteWhenListed BY DEF IInv, SnapsOK, Sound, CompleteWhenListed, Listed
<1> QED BY <1>1, Initially, StepKeeps, PTL DEF Spec

(***************************************************************************)
(* event.go: a guest that is stopped is being captured by the snapshot     *)
(* that stopped it, unless the server crashed: every return of             *)
(* CreateEventSnapshot continues it, even when it is another task's.       *)
(***************************************************************************)
THEOREM StoppedIsCaptured == Spec => []FrozenOnlyWhileCaptured
<1>1. IInv => FrozenOnlyWhileCaptured BY DEF IInv
<1> QED BY <1>1, Initially, StepKeeps, PTL DEF Spec

-----------------------------------------------------------------------------
(***************************************************************************)
(* Backing chains.  A file of a task that is not excused backs onto the    *)
(* image store, onto nothing, or onto a live overlay that is there or whose *)
(* task is excused (Linked), and these files form no cycle (Grounded).     *)
(* The first is inductive only with the reason why nobody removes the      *)
(* overlay: the markers lead from its task to the owner of the file        *)
(* (Guarded), so that no deletion passes its guard.                        *)
(***************************************************************************)

Backs == {Base, None} \cup {Live(v) : v \in Task}

Image == [data : 0 .. MaxValue, back : Backs]

(* What the files, the directories, the archive and the handlers hold. *)
FilesOK ==
  /\ DOMAIN img \subseteq Paths \cup {Base} /\ img \in [DOMAIN img -> Image]
  /\ Base \in DOMAIN img /\ img[Base].back = None

BooksOK ==
  /\ dir \subseteq Task /\ excused \subseteq Task
  /\ marks \in [Task -> SUBSET Task] /\ parent \in [Task -> Owner]
  /\ \A t \in Task : t \notin dir => marks[t] = {}

HeldOK ==
  /\ arch.pc = "held" =>
       /\ DOMAIN arch.img \subseteq Slots /\ arch.img \in [DOMAIN arch.img -> Image]
       /\ arch.marks \subseteq Task /\ arch.parent \in Owner
  /\ rb.pc = "rename" => rb.buf \in 0 .. MaxValue
  /\ cl.pc # "idle" => cl.src # cl.dst

(* y is marked as a branch of x, or is about to be.  The markers at a task *)
(* that is being made or deleted protect nobody.                           *)
Edge(x, y) ==
  /\ y \in marks[x] \/ (cl.pc = "mark" /\ x = cl.src /\ y = cl.dst)
  /\ ~(cl.pc # "idle" /\ x = cl.dst)
  /\ ~(del.pc = "remove" /\ x = del.t)

Closed(S) == \A x \in S : \A y \in Task : Edge(x, y) => y \in S

(* The markers lead from v to u. *)
Guarded(v, u) == \A S \in SUBSET Task : v \in S /\ Closed(S) => u \in S

(* The files whose owners are not excused. *)
Kept == {p \in Paths \cap DOMAIN img : p[1] \notin excused}

Linked ==
  \A p \in Kept, v \in Task :
    img[p].back = Live(v) => (v \in excused \/ Live(v) \in DOMAIN img) /\ Guarded(v, p[1])

Grounded == \A S \in SUBSET Kept : S # {} => \E p \in S : img[p].back \notin S

CInv == FilesOK /\ BooksOK /\ HeldOK /\ Linked /\ Grounded

(* Whoever is being removed is excused. *)
RemovedExcused ==
  /\ cl.pc = "undo" => cl.dst \in excused
  /\ del.pc = "remove" => del.t \in excused

-----------------------------------------------------------------------------
(* Walks.                                                                  *)

(* The least of a set of numbers is one of them. *)
LEMMA LeastMember ==
  ASSUME NEW S \in SUBSET Nat, S # {}
  PROVE  Min(S) \in S /\ \A y \in S : Min(S) <= y
<1>1. PICK R : R = {e \in Nat \X Nat : e[1] < e[2]} OBVIOUS
<1>2. IsWellFoundedOn(R, Nat) BY <1>1, NatLessThanWellFounded, Zenon DEF OpToRel
<1>3. PICK x \in S : \A y \in S : <<y, x>> \notin R BY <1>2, WFMin
<1>4. ASSUME NEW y \in S PROVE x <= y
  <2>1. x \in Nat /\ y \in Nat /\ <<y, x>> \notin R BY <1>3
  <2>2. PICK e : e = <<y, x>> OBVIOUS
  <2>3. e \in Nat \X Nat /\ e[1] = y /\ e[2] = x BY <2>1, <2>2
  <2> QED BY <1>1, <2>1, <2>2, <2>3
<1> QED BY <1>4 DEF Min

(* Induction over a bounded range, for a set of numbers. *)
LEMMA Upwards ==
  ASSUME NEW N \in Nat, NEW B, 0 \in B, \A n \in 0 .. N : n \in B /\ n < N => n + 1 \in B
  PROVE  \A n \in 0 .. N : n \in B
<1> SUFFICES ASSUME NEW m \in 0 .. N, m \notin B PROVE FALSE OBVIOUS
<1>1. PICK S : S = (0 .. N) \ B OBVIOUS
<1>2. PICK n : n = Min(S) OBVIOUS
<1>3. n \in S /\ \A y \in S : n <= y
  <2>1. S \in SUBSET Nat /\ S # {} BY <1>1
  <2> QED BY <1>2, <2>1, LeastMember
<1>4. n \in 0 .. N /\ n \notin B /\ n # 0 BY <1>1, <1>3
<1>5. n - 1 \in 0 .. N /\ n - 1 < N /\ n - 1 \notin S BY <1>3, <1>4
<1>6. n - 1 \in B BY <1>1, <1>5
<1> QED BY <1>4, <1>5, <1>6

(* One hop. *)
Hop(q) == IF q \in DOMAIN img THEN img[q].back ELSE q

(* There are finitely many paths. *)
LEMMA PathsFinite == IsFiniteSet(Paths) /\ Hops \in Nat /\ Hops = Cardinality(Paths) + 2
<1>1. IsFiniteSet(Task \X Slots)
  <2>1. IsFiniteSet(Slots) BY SnapshotsAssumption, FS_AddElement DEF Slots
  <2> QED BY <2>1, SnapshotsAssumption, FS_Product
<1>2. Paths = Task \X Slots BY DEF Paths, Slots
<1>3. Cardinality(Paths) \in Nat BY <1>1, <1>2, FS_CardinalityType
<1> QED BY <1>1, <1>2, <1>3 DEF Hops

(* A walk is there, and every entry is a hop from the one before. *)
LEMMA WalkHops ==
  ASSUME NEW p
  PROVE  Walk(p)[0] = p /\ \A n \in 0 .. Hops : n < Hops => Walk(p)[n + 1] = Hop(Walk(p)[n])
<1> DEFINE Is(h, N) == h = [n \in 0 .. N |-> IF n = 0 THEN p ELSE Hop(h[n - 1])]
<1>1. Hops \in Nat BY PathsFinite
<1>2. PICK B : B = {n \in 0 .. Hops : \E h : Is(h, n)} OBVIOUS
<1>3. 0 \in B
  <2>1. PICK h : h = [n \in 0 .. 0 |-> p] OBVIOUS
  <2>2. Is(h, 0) BY <2>1
  <2> QED BY <1>1, <1>2, <2>2
<1>4. ASSUME NEW N \in 0 .. Hops, N \in B, N < Hops PROVE N + 1 \in B
  <2>1. PICK h : Is(h, N) BY <1>2, <1>4
  <2>2. PICK g : g = [n \in 0 .. N + 1 |-> IF n = 0 THEN p ELSE Hop(h[n - 1])] OBVIOUS
  <2>3. ASSUME NEW n \in 0 .. N PROVE g[n] = h[n]
    BY <1>1, <2>1, <2>2
  <2>4. ASSUME NEW n \in 0 .. N + 1, n # 0 PROVE g[n - 1] = h[n - 1]
    <3>1. n - 1 \in 0 .. N BY <1>1, <2>4
    <3> QED BY <2>3, <3>1
  <2>5. Is(g, N + 1) BY <2>2, <2>4
  <2>6. N + 1 \in 0 .. Hops BY <1>1, <1>4
  <2> QED BY <1>2, <2>5, <2>6
<1>5. Hops \in B
  <2>1. \A n \in 0 .. Hops : n \in B BY <1>1, <1>3, <1>4, Upwards
  <2> QED BY <1>1, <2>1
<1>6. \E h : Is(h, Hops) BY <1>2, <1>5
<1>7. Walk(p) = CHOOSE h : Is(h, Hops) BY Zenon DEF Walk, Hop
<1>8. Is(Walk(p), Hops) BY <1>6, <1>7, Zenon
<1> HIDE DEF Is
<1>9. PICK w : w = Walk(p) OBVIOUS
<1>10. w = [n \in 0 .. Hops |-> IF n = 0 THEN p ELSE Hop(w[n - 1])] BY <1>8, <1>9 DEF Is
<1>11. w[0] = p BY <1>1, <1>10
<1>12. ASSUME NEW n \in 0 .. Hops, n < Hops PROVE w[n + 1] = Hop(w[n])
  <2>1. n + 1 \in 0 .. Hops /\ n + 1 # 0 /\ (n + 1) - 1 = n BY <1>1, <1>12
  <2> QED BY <1>10, <2>1
<1> QED BY <1>9, <1>11, <1>12

(* What a chain reads as is a value some file holds. *)
LEMMA ContentIn ==
  ASSUME FilesOK, NEW p
  PROVE  Content(p) \in 0 .. MaxValue
<1>1. PICK at : at = Walk(p) OBVIOUS
<1>2. PICK full : full = {n \in 0 .. Hops : at[n] \in DOMAIN img /\ img[at[n]].data # 0}
  OBVIOUS
<1>3. Content(p) = IF full = {} THEN 0 ELSE img[at[Min(full)]].data BY <1>1, <1>2 DEF Content
<1>4. CASE full = {} BY <1>3, <1>4, SnapshotsAssumption
<1>5. CASE full # {}
  <2>1. full \in SUBSET Nat BY <1>2, PathsFinite
  <2>2. Min(full) \in full BY <1>5, <2>1, LeastMember
  <2>3. at[Min(full)] \in DOMAIN img BY <1>2, <2>2
  <2> QED BY <1>3, <1>5, <2>3 DEF FilesOK, Image
<1> QED BY <1>4, <1>5

(* Every entry of a walk is on the trail. *)
LEMMA OnTrail ==
  ASSUME NEW p, NEW n \in 0 .. Hops
  PROVE  Walk(p)[n] \in Trail(p)
BY DEF Trail

(* A file that opens is there. *)
LEMMA OpensIsThere ==
  ASSUME FilesOK, NEW p \in Paths, Opens(p)
  PROVE  p \in DOMAIN img
<1> SUFFICES ASSUME p \notin DOMAIN img PROVE FALSE OBVIOUS
<1>1. PICK w : w = Walk(p) OBVIOUS
<1>2. w[0] = p /\ \A n \in 0 .. Hops : n < Hops => w[n + 1] = Hop(w[n]) BY <1>1, WalkHops
<1>3. PICK B : B = {n \in 0 .. Hops : w[n] = p} OBVIOUS
<1>4. Hops \in Nat BY PathsFinite
<1>5. 0 \in B BY <1>2, <1>3, <1>4
<1>6. ASSUME NEW n \in 0 .. Hops, n \in B, n < Hops PROVE n + 1 \in B
  <2>1. n + 1 \in 0 .. Hops BY <1>4, <1>6
  <2> QED BY <1>2, <1>3, <1>6, <2>1 DEF Hop
<1>7. \A n \in 0 .. Hops : n \in B BY <1>4, <1>5, <1>6, Upwards
<1>8. \A n \in 0 .. Hops : w[n] = p BY <1>3, <1>7
<1>9. None = p BY <1>1, <1>8 DEF Opens, Trail
<1>10. p[1] \in Task BY PathParts
<1> QED BY <1>9, <1>10, SnapshotsAssumption DEF None

(* A file and what it backs onto are on its trail. *)
LEMMA FirstHop ==
  ASSUME NEW p
  PROVE  p \in Trail(p) /\ Hop(p) \in Trail(p)
<1>1. Hops \in Nat /\ Cardinality(Paths) \in Nat /\ Hops = Cardinality(Paths) + 2
  BY PathsFinite, FS_CardinalityType
<1>2. 0 \in 0 .. Hops /\ 1 \in 0 .. Hops /\ 0 < Hops /\ 0 + 1 = 1 BY <1>1
<1>3. Walk(p)[0] = p /\ Walk(p)[1] = Hop(p) BY <1>2, WalkHops
<1> QED BY <1>2, <1>3, OnTrail

(* The invariant is enough: a chain that goes through no excused task ends. *)
LEMMA Resolves ==
  ASSUME CInv, NEW p \in Paths \cap DOMAIN img
  PROVE  Opens(p) \/ TasksOn(p) \cap excused # {}
<1> SUFFICES ASSUME None \notin Trail(p), TasksOn(p) \cap excused = {} PROVE FALSE
  BY DEF Opens
<1>1. FilesOK /\ Linked /\ Grounded BY DEF CInv
<1>2. PICK w : w = Walk(p) OBVIOUS
<1>3. w[0] = p /\ \A n \in 0 .. Hops : n < Hops => w[n + 1] = Hop(w[n]) BY <1>2, WalkHops
<1>4. Hops \in Nat /\ Cardinality(Paths) \in Nat /\ Hops = Cardinality(Paths) + 2
  BY PathsFinite, FS_CardinalityType
<1>5. \A n \in 0 .. Hops : w[n] \in Trail(p) BY <1>2, OnTrail
<1>6. \A q \in Trail(p) : q[1] \in Task => q[1] \notin excused BY DEF TasksOn
<1>7. \A q \in Trail(p) : q \in Paths \cap DOMAIN img => q \in Kept
  BY <1>6, PathParts DEF Kept
<1>8. PICK B : B = {n \in 0 .. Hops : w[n] \in Kept \cup {Base}} OBVIOUS
<1>9. 0 \in B BY <1>3, <1>4, <1>5, <1>7, <1>8
<1>10. ASSUME NEW n \in 0 .. Hops, n \in B, n < Hops
       PROVE  w[n] \in Kept /\ n + 1 \in B
  <2>1. n + 1 \in 0 .. Hops BY <1>4, <1>10
  <2>2. w[n + 1] = Hop(w[n]) /\ w[n + 1] \in Trail(p) BY <1>3, <1>5, <1>10, <2>1
  <2>3. w[n] # Base BY <1>1, <2>2 DEF Hop, FilesOK
  <2>4. w[n] \in Kept BY <1>8, <1>10, <2>3
  <2>5. w[n] \in DOMAIN img /\ w[n + 1] = img[w[n]].back BY <2>2, <2>4 DEF Kept, Hop
  <2>6. w[n + 1] \in Backs /\ w[n + 1] # None BY <1>1, <2>2, <2>5 DEF FilesOK, Image
  <2>7. CASE w[n + 1] = Base BY <1>8, <2>1, <2>4, <2>7
  <2>8. CASE w[n + 1] # Base
    <3>1. PICK v \in Task : w[n + 1] = Live(v) BY <2>6, <2>8 DEF Backs
    <3>2. Live(v)[1] = v BY DEF Live
    <3>3. v \notin excused BY <1>6, <2>2, <3>1, <3>2
    <3>4. Live(v) \in DOMAIN img BY <1>1, <2>4, <2>5, <3>1, <3>3 DEF Linked
    <3>5. Live(v) \in Kept BY <1>7, <2>2, <3>1, <3>4, LiveIn
    <3> QED BY <1>8, <2>1, <2>4, <3>1, <3>5
  <2> QED BY <2>7, <2>8
<1>11. \A n \in 0 .. Hops : n \in B BY <1>4, <1>9, <1>10, Upwards
<1>12. \A n \in 0 .. Hops : n < Hops => w[n] \in Kept BY <1>10, <1>11
<1>13. PICK D : D = 0 .. Hops - 1 OBVIOUS
<1>14. IsFiniteSet(D) /\ Cardinality(D) = Hops BY <1>4, <1>13, FS_Interval
<1>15. PICK f : f = [n \in D |-> w[n]] OBVIOUS
<1>16. f \in [D -> Paths] BY <1>4, <1>12, <1>13, <1>15 DEF Kept
<1>17. \E x, y \in D : x # y /\ f[x] = f[y]
  BY <1>4, <1>14, <1>16, PathsFinite, FS_PigeonHole
<1>18. PICK x \in D, y \in D : x < y /\ w[x] = w[y]
  <2>1. PICK i \in D, j \in D : i # j /\ f[i] = f[j] BY <1>17
  <2>2. w[i] = w[j] /\ i \in Int /\ j \in Int BY <1>4, <1>13, <1>15, <2>1
  <2>3. CASE i < j BY <2>2, <2>3
  <2>4. CASE j < i BY <2>2, <2>4
  <2> QED BY <2>1, <2>2, <2>3, <2>4
<1>19. PICK S : S = {w[n] : n \in x .. y - 1} OBVIOUS
<1>20. \A n \in x .. y - 1 : n \in 0 .. Hops /\ n < Hops BY <1>4, <1>13, <1>18
<1>21. S \in SUBSET Kept BY <1>12, <1>19, <1>20
<1>22. w[x] \in S
  <2>1. x \in x .. y - 1 BY <1>4, <1>13, <1>18
  <2> QED BY <1>19, <2>1
<1>23. PICK q \in S : img[q].back \notin S BY <1>1, <1>21, <1>22 DEF Grounded
<1>24. PICK n \in x .. y - 1 : q = w[n] BY <1>19, <1>23
<1>25. img[q].back = w[n + 1] BY <1>3, <1>20, <1>21, <1>24 DEF Hop, Kept
<1>26. CASE n + 1 \in x .. y - 1 BY <1>19, <1>23, <1>25, <1>26
<1>27. CASE n + 1 \notin x .. y - 1
  <2>1. n + 1 = y BY <1>4, <1>13, <1>24, <1>27
  <2> QED BY <1>18, <1>22, <1>23, <1>25, <2>1
<1> QED BY <1>26, <1>27

(* And it is what ChainsResolve asks, of every file. *)
LEMMA ChainsFollow == CInv => ChainsResolve
<1> SUFFICES ASSUME CInv PROVE ChainsResolve OBVIOUS
<1>1. ASSUME NEW t \in Task, NEW p \in BelongsTo(t) \cap DOMAIN img
      PROVE  Opens(p) \/ TasksOn(p) \cap excused # {}
  <2>1. p \in Paths \cap DOMAIN img BY PathIn DEF BelongsTo, Slots
  <2> QED BY <2>1, Resolves
<1>2. Backs \subseteq Paths \cup {Base, None} BY LiveIn DEF Backs
<1>3. TypeOK BY <1>2 DEF CInv, FilesOK, BooksOK, Image, Owner, TypeOK
<1> QED BY <1>1, <1>3 DEF ChainsResolve

-----------------------------------------------------------------------------
(* What a step does to the chains.                                         *)

(* Markers may be lost on the way to the tasks of D, if no marker leads    *)
(* out of D.                                                               *)
LEMMA GuardedKept ==
  ASSUME NEW D \in SUBSET Task,
         \A x, y \in Task : Edge(x, y) => Edge(x, y)' \/ y \in D,
         \A x \in D, y \in Task : Edge(x, y) => y \in D,
         NEW v \in Task, NEW u \in Task, u \notin D, Guarded(v, u)
  PROVE  Guarded(v, u)'
<1> SUFFICES ASSUME NEW S \in SUBSET Task, v \in S, Closed(S)' PROVE u \in S
  BY DEF Guarded
<1>1. PICK T \in SUBSET Task : T = S \cup D OBVIOUS
<1>2. Closed(T)
  <2> SUFFICES ASSUME NEW x \in T, NEW y \in Task, Edge(x, y) PROVE y \in T BY DEF Closed
  <2>1. CASE x \in D BY <1>1, <2>1
  <2>2. CASE x \in S
    <3>1. Edge(x, y)' \/ y \in D BY <2>2
    <3> QED BY <1>1, <2>2, <3>1 DEF Closed
  <2> QED BY <1>1, <2>1, <2>2
<1> QED BY <1>1, <1>2 DEF Guarded

(* Nobody is led to from a task without markers but the task itself. *)
LEMMA GuardedAlone ==
  ASSUME NEW v \in Task, NEW u \in Task, Guarded(v, u), \A y \in Task : ~Edge(v, y)
  PROVE  u = v
<1>1. Closed({v}) BY DEF Closed
<1> QED BY <1>1 DEF Guarded

(* A step that makes no file, or only files of excused tasks. *)
LEMMA Shrinks ==
  ASSUME Linked, Grounded, NEW D \in SUBSET Task,
         Kept' \subseteq Kept, \A p \in Kept' : img'[p].back = img[p].back /\ p[1] \notin D,
         \A x, y \in Task : Edge(x, y) => Edge(x, y)' \/ y \in D,
         \A x \in D, y \in Task : Edge(x, y) => y \in D,
         \A v \in Task :
           \/ /\ v \in excused => v \in excused'
              /\ Live(v) \in DOMAIN img => Live(v) \in DOMAIN img' \/ v \in excused'
           \/ (\A y \in Task : ~Edge(v, y)) /\ \A p \in Kept' : p[1] # v
  PROVE  Linked' /\ Grounded'
<1>1. Grounded' BY DEF Grounded
<1>2. ASSUME NEW p \in Kept', NEW v \in Task, img'[p].back = Live(v)
      PROVE  (v \in excused' \/ Live(v) \in DOMAIN img') /\ Guarded(v, p[1])'
  <2>1. p \in Kept /\ img[p].back = Live(v) BY <1>2
  <2>2. (v \in excused \/ Live(v) \in DOMAIN img) /\ Guarded(v, p[1]) BY <2>1 DEF Linked
  <2>3. p[1] \in Task /\ p[1] \notin D BY <2>1, PathParts DEF Kept
  <2>4. Guarded(v, p[1])' BY <2>2, <2>3, GuardedKept
  <2>5. (\A y \in Task : ~Edge(v, y)) => p[1] = v BY <2>2, <2>3, GuardedAlone
  <2> QED BY <2>2, <2>4, <2>5
<1>3. \A v : Live(v)' = Live(v) BY DEF Live
<1> QED BY <1>1, <1>2, <1>3 DEF Linked

(* The files after one was made. *)
LEMMA Put ==
  ASSUME FilesOK, NEW p \in Paths, NEW i \in Image, img' = With(p, i)
  PROVE  /\ FilesOK' /\ DOMAIN img' = DOMAIN img \cup {p} /\ img'[p] = i
         /\ \A q \in DOMAIN img : q # p => img'[q] = img[q]
<1>1. p # Base
  <2>1. p[1] \in Task BY PathParts
  <2> QED BY <2>1, SnapshotsAssumption DEF Base
<1>2. /\ DOMAIN img' = DOMAIN img \cup {p} /\ img'[p] = i
      /\ \A q \in DOMAIN img : q # p => img'[q] = img[q]
  BY DEF With
<1>3. img' \in [DOMAIN img' -> Image] BY <1>2 DEF With, FilesOK
<1>4. Image' = Image /\ Paths' = Paths /\ Base' = Base /\ None' = None
  BY DEF Image, Backs, Paths, Base, None, Live
<1> QED BY <1>1, <1>2, <1>3, <1>4 DEF FilesOK

(* The files after some were removed. *)
LEMMA Removed ==
  ASSUME FilesOK, NEW P \in SUBSET Paths, img' = Without(P)
  PROVE  /\ FilesOK' /\ DOMAIN img' = DOMAIN img \ P
         /\ \A q \in DOMAIN img' : img'[q] = img[q]
<1>1. Base \notin P
  <2>1. \A p \in P : p[1] \in Task BY PathParts
  <2> QED BY <2>1, SnapshotsAssumption DEF Base
<1>2. DOMAIN img' = DOMAIN img \ P /\ \A q \in DOMAIN img' : img'[q] = img[q]
  BY DEF Without
<1>3. img' \in [DOMAIN img' -> Image] BY <1>2 DEF Without, FilesOK
<1>4. Image' = Image /\ Paths' = Paths /\ Base' = Base /\ None' = None
  BY DEF Image, Backs, Paths, Base, None, Live
<1> QED BY <1>1, <1>2, <1>3, <1>4 DEF FilesOK

(* A step that makes a file whose owner is protected. *)
LEMMA PutLinked ==
  ASSUME FilesOK, Linked, NEW p \in Paths, NEW i \in Image, img' = With(p, i),
         excused \subseteq excused', \A x, y \in Task : Edge(x, y) => Edge(x, y)',
         \A v \in Task : i.back = Live(v) /\ p[1] \notin excused' =>
            (v \in excused' \/ Live(v) \in DOMAIN img) /\ Guarded(v, p[1])'
  PROVE  Linked'
<1>1. /\ DOMAIN img' = DOMAIN img \cup {p} /\ img'[p] = i
      /\ \A q \in DOMAIN img : q # p => img'[q] = img[q]
  BY Put
<1>2. ASSUME NEW q \in Kept', NEW v \in Task, img'[q].back = Live(v)
      PROVE  (v \in excused' \/ Live(v) \in DOMAIN img') /\ Guarded(v, q[1])'
  <2>1. q \in Paths /\ q \in DOMAIN img' /\ q[1] \notin excused' BY DEF Kept, Paths
  <2>2. CASE q = p BY <1>1, <1>2, <2>1, <2>2
  <2>3. CASE q # p
    <3>1. q \in Kept /\ img[q].back = Live(v) BY <1>1, <1>2, <2>1, <2>3 DEF Kept
    <3>2. (v \in excused \/ Live(v) \in DOMAIN img) /\ Guarded(v, q[1]) BY <3>1 DEF Linked
    <3>3. q[1] \in Task BY <2>1, PathParts
    <3>4. Guarded(v, q[1])'
      <4>1. PICK D \in SUBSET Task : D = {} OBVIOUS
      <4> QED BY <3>2, <3>3, <4>1, GuardedKept
    <3> QED BY <1>1, <3>2, <3>4
  <2> QED BY <2>2, <2>3
<1>3. \A v : Live(v)' = Live(v) BY DEF Live
<1> QED BY <1>2, <1>3 DEF Linked

(* A new file that backs onto the image store, or onto nothing. *)
LEMMA PutGround ==
  ASSUME FilesOK, Grounded, NEW p \in Paths, NEW i \in Image, img' = With(p, i),
         excused \subseteq excused', i.back \notin Paths
  PROVE  Grounded'
<1>1. /\ DOMAIN img' = DOMAIN img \cup {p} /\ img'[p] = i
      /\ \A q \in DOMAIN img : q # p => img'[q] = img[q]
  BY Put
<1>2. ASSUME NEW S \in SUBSET Kept', S # {} PROVE \E q \in S : img'[q].back \notin S
  <2>1. \A q \in S : q \in Paths /\ q \in DOMAIN img' /\ q[1] \notin excused' BY DEF Kept, Paths
  <2>2. CASE p \in S BY <1>1, <2>1, <2>2
  <2>3. CASE p \notin S
    <3>1. S \in SUBSET Kept BY <1>1, <2>1, <2>3 DEF Kept
    <3>2. PICK q \in S : img[q].back \notin S BY <1>2, <3>1 DEF Grounded
    <3> QED BY <1>1, <2>1, <2>3, <3>2
  <2> QED BY <2>2, <2>3
<1> QED BY <1>2 DEF Grounded

(* A new file p among files F onto which none outside F backs, and which   *)
(* back onto none of F but p.                                              *)
LEMMA PutFringe ==
  ASSUME FilesOK, Grounded, NEW p \in Paths, NEW i \in Image, img' = With(p, i),
         excused \subseteq excused', NEW F, p \in F,
         p[1] \notin excused' => i.back \notin F,
         \A q \in Kept : q \notin F => img[q].back \notin F,
         \A q \in Kept : q \in F /\ q # p => img[q].back \notin F \/ img[q].back = p
  PROVE  Grounded'
<1>1. /\ DOMAIN img' = DOMAIN img \cup {p} /\ img'[p] = i
      /\ \A q \in DOMAIN img : q # p => img'[q] = img[q]
  BY Put
<1>2. ASSUME NEW S \in SUBSET Kept', S # {} PROVE \E q \in S : img'[q].back \notin S
  <2>1. \A q \in S : q \in Paths /\ q \in DOMAIN img' /\ q[1] \notin excused' BY DEF Kept, Paths
  <2>2. \A q \in S : q # p => q \in Kept /\ img'[q] = img[q] BY <1>1, <2>1 DEF Kept
  <2>3. PICK T : T = S \ F OBVIOUS
  <2>4. CASE T # {}
    <3>1. T \in SUBSET Kept /\ \A q \in T : q # p BY <2>2, <2>3
    <3>2. PICK q \in T : img[q].back \notin T BY <2>4, <3>1 DEF Grounded
    <3>3. img[q].back \notin F BY <2>3, <3>1, <3>2
    <3> QED BY <2>2, <2>3, <3>1, <3>2, <3>3
  <2>5. CASE T = {} /\ p \in S BY <1>1, <2>1, <2>3, <2>5
  <2>6. CASE T = {} /\ p \notin S
    <3>1. PICK q \in S : TRUE BY <1>2
    <3>2. q \in Kept /\ q \in F /\ q # p /\ img'[q] = img[q] BY <2>2, <2>3, <2>6, <3>1
    <3>3. img[q].back \notin F \/ img[q].back = p BY <3>2
    <3> QED BY <2>3, <2>6, <3>1, <3>2, <3>3
  <2> QED BY <2>4, <2>5, <2>6
<1> QED BY <1>2 DEF Grounded

-----------------------------------------------------------------------------
(* Each operation keeps the chains.                                        *)

(* What the handlers and the archive hold, while they do not move. *)
LEMMA HeldKept ==
  /\ HeldOK /\ UNCHANGED <<arch, cl, rb>> => HeldOK'
  /\ HeldOK /\ UNCHANGED <<arch, cl>> /\ rb'.pc # "rename" => HeldOK'
  /\ HeldOK /\ UNCHANGED <<arch, rb>> /\ (cl'.pc # "idle" => cl'.src # cl'.dst) => HeldOK'
BY DEF HeldOK, Image, Backs, Base, None, Live, Owner, Slots

(* Directories may be made at any time. *)
LEMMA BooksKept ==
  ASSUME BooksOK, UNCHANGED <<marks, parent>>, dir \subseteq dir', dir' \subseteq Task,
         excused' \subseteq Task
  PROVE  BooksOK'
BY DEF BooksOK, Owner

LEMMA EdgeSame ==
  ASSUME UNCHANGED <<marks, cl, del>>
  PROVE  \A x, y : Edge(x, y) <=> Edge(x, y)'
BY DEF Edge

(* No file moves. *)
LEMMA Steady ==
  ASSUME CInv, UNCHANGED <<img, excused>>, \A x, y \in Task : Edge(x, y) => Edge(x, y)'
  PROVE  FilesOK' /\ Linked' /\ Grounded'
<1>1. FilesOK'
  <2>1. Image' = Image /\ Paths' = Paths /\ Base' = Base /\ None' = None
    BY DEF Image, Backs, Paths, Base, None, Live
  <2> QED BY <2>1 DEF CInv, FilesOK
<1>2. Kept' = Kept BY DEF Kept, Paths
<1>3. PICK D \in SUBSET Task : D = {} OBVIOUS
<1> QED BY <1>1, <1>2, <1>3, Shrinks DEF CInv

(* A step that leaves files, markers and the handlers of clones and        *)
(* deletions alone.                                                        *)
LEMMA Idles ==
  ASSUME CInv, UNCHANGED <<img, marks, parent, cl, del, arch, excused>>,
         rb' = rb \/ rb'.pc # "rename", dir \subseteq dir', dir' \subseteq Task
  PROVE  CInv'
<1>1. FilesOK' /\ Linked' /\ Grounded' BY EdgeSame, Steady
<1>2. BooksOK' BY BooksKept DEF CInv, BooksOK
<1>3. HeldOK' BY HeldKept DEF CInv
<1> QED BY <1>1, <1>2, <1>3 DEF CInv

(* A snapshot's file is removed. *)
LEMMA Dropped ==
  ASSUME CInv, NEW t \in Task, NEW k \in Slot, img' = Without({<<t, k>>}),
         UNCHANGED <<dir, marks, parent, cl, rb, del, arch, excused>>
  PROVE  CInv'
<1>1. {<<t, k>>} \in SUBSET Paths BY PathIn DEF Slots
<1>2. /\ FilesOK' /\ DOMAIN img' = DOMAIN img \ {<<t, k>>}
      /\ \A q \in DOMAIN img' : img'[q] = img[q]
  BY <1>1, Removed DEF CInv
<1>3. Kept' \subseteq Kept /\ \A p \in Kept' : img'[p].back = img[p].back
  <2>1. ASSUME NEW p \in Kept' PROVE p \in Kept /\ img'[p] = img[p]
    BY <1>2 DEF Kept, Paths
  <2> QED BY <2>1
<1>4. PICK D \in SUBSET Task : D = {} OBVIOUS
<1>5. \A v \in Task : Live(v) \in DOMAIN img => Live(v) \in DOMAIN img' BY <1>2, LiveIn
<1>6. Linked' /\ Grounded' BY <1>3, <1>4, <1>5, EdgeSame, Shrinks DEF CInv
<1>7. BooksOK' BY BooksKept DEF CInv, BooksOK
<1>8. HeldOK' BY HeldKept DEF CInv
<1> QED BY <1>2, <1>6, <1>7, <1>8 DEF CInv

(* A standalone file, or one over the image store, on the live path. *)
LEMMA Standalone ==
  ASSUME CInv, NEW t \in Task, NEW i \in Image, i.back \in {Base, None},
         img' = With(Live(t), i), UNCHANGED <<marks, parent, cl, del, arch, excused>>,
         rb' = rb \/ rb'.pc # "rename", dir \subseteq dir', dir' \subseteq Task
  PROVE  CInv'
<1>1. Live(t) \in Paths BY LiveIn
<1>2. FilesOK' BY <1>1, Put DEF CInv
<1>3. i.back \notin Paths /\ \A v \in Task : i.back # Live(v)
  <2>1. i.back[1] = Root BY DEF Base, None
  <2>2. \A p \in Paths : p[1] # Root BY PathParts, SnapshotsAssumption
  <2> QED BY <2>1, <2>2, LiveIn
<1>4. Linked' BY <1>1, <1>3, EdgeSame, PutLinked DEF CInv
<1>5. Grounded' BY <1>1, <1>3, PutGround DEF CInv
<1>6. BooksOK' BY BooksKept DEF CInv, BooksOK
<1>7. HeldOK' BY HeldKept DEF CInv
<1> QED BY <1>2, <1>4, <1>5, <1>6, <1>7 DEF CInv

LEMMA LaunchChains ==
  ASSUME CInv, NEW t \in Task, NEW spec, Launch(t, spec) \/ LaunchFails(t, spec)
  PROVE  CInv'
<1>1. CASE Launch(t, spec)
  <2>1. /\ img' = With(Live(t), Overlay(Base)) /\ dir' = dir \cup {t}
        /\ UNCHANGED <<marks, parent, cl, rb, del, arch, excused>>
    BY <1>1 DEF Launch
  <2>2. Overlay(Base) \in Image /\ Overlay(Base).back = Base
    BY SnapshotsAssumption DEF Overlay, Image, Backs
  <2>3. dir' \subseteq Task BY <2>1 DEF CInv, BooksOK
  <2> QED BY <2>1, <2>2, <2>3, Standalone
<1>2. CASE LaunchFails(t, spec)
  <2>1. /\ img' = Without({Live(t)}) /\ dir' = dir \cup {t}
        /\ excused' = excused \cup {t} \cup {u \in Task : t \in TasksOn(Live(u))}
        /\ UNCHANGED <<marks, parent, cl, rb, del, arch>>
    BY <1>2 DEF LaunchFails
  <2>2. {Live(t)} \in SUBSET Paths BY LiveIn
  <2>3. /\ FilesOK' /\ DOMAIN img' = DOMAIN img \ {Live(t)}
        /\ \A q \in DOMAIN img' : img'[q] = img[q]
    BY <2>1, <2>2, Removed DEF CInv
  <2>4. excused \subseteq excused' /\ t \in excused' /\ excused' \subseteq Task
    BY <2>1 DEF CInv, BooksOK
  <2>5. Kept' \subseteq Kept /\ \A p \in Kept' : img'[p].back = img[p].back
    BY <2>3, <2>4 DEF Kept, Paths
  <2>6. PICK D \in SUBSET Task : D = {} OBVIOUS
  <2>7. \A v \in Task : Live(v) \in DOMAIN img => Live(v) \in DOMAIN img' \/ v \in excused'
    BY <2>3, <2>4 DEF Live
  <2>8. Linked' /\ Grounded' BY <2>1, <2>4, <2>5, <2>6, <2>7, EdgeSame, Shrinks DEF CInv
  <2>9. BooksOK' BY <2>1, <2>4, BooksKept DEF CInv, BooksOK
  <2>10. HeldOK' BY <2>1, HeldKept DEF CInv
  <2> QED BY <2>3, <2>8, <2>9, <2>10 DEF CInv
<1> QED BY <1>1, <1>2

LEMMA GuestWriteChains ==
  ASSUME CInv, NEW t \in Task, NEW v \in 2 .. MaxValue, GuestWrite(t, v)
  PROVE  CInv'
<1>1. /\ Live(t) \in DOMAIN img /\ img' = [img EXCEPT ![Live(t)].data = v]
      /\ UNCHANGED <<dir, marks, parent, cl, rb, del, arch, excused>>
  BY DEF GuestWrite
<1>2. PICK i : i = [img[Live(t)] EXCEPT !.data = v] OBVIOUS
<1>3. img' = [img EXCEPT ![Live(t)] = i] BY <1>1, <1>2
<1>4. i \in Image /\ i.back = img[Live(t)].back
  BY <1>1, <1>2, SnapshotsAssumption DEF CInv, FilesOK, Image
<1>5. /\ DOMAIN img' = DOMAIN img /\ img' \in [DOMAIN img -> Image]
      /\ \A p \in DOMAIN img : img'[p].back = img[p].back
  BY <1>1, <1>3, <1>4 DEF CInv, FilesOK
<1>6. FilesOK' BY <1>5 DEF CInv, FilesOK, Image, Backs, Base, None, Live, Paths
<1>7. Kept' = Kept /\ \A p \in Kept' : img'[p].back = img[p].back
  BY <1>1, <1>5 DEF Kept, Paths
<1>8. PICK D \in SUBSET Task : D = {} OBVIOUS
<1>9. Linked' /\ Grounded' BY <1>1, <1>5, <1>7, <1>8, EdgeSame, Shrinks DEF CInv
<1>10. BooksOK' BY <1>1, BooksKept DEF CInv, BooksOK
<1>11. HeldOK' BY <1>1, HeldKept DEF CInv
<1> QED BY <1>6, <1>9, <1>10, <1>11 DEF CInv

(* Snapshots: only the capture of the disk makes a file. *)
LEMMA SnapChains ==
  ASSUME IInv, CInv,
         \/ \E t \in Task, k \in Slot : SnapBegin(t, k) \/ DropBegin(t, k)
         \/ SnapState \/ SnapMeta \/ DropPart \/ DropRemove
  PROVE  CInv'
<1>1. UNCHANGED <<dir, marks, parent, cl, rb, del, arch, excused>>
  BY DEF SnapBegin, DropBegin, SnapState, SnapMeta, DropPart, DropRemove, SnapAbort, files
<1>2. \/ img' = img
      \/ sn.pc # "idle" /\ img' = Without({<<sn.t, sn.k>>})
  BY DEF SnapBegin, DropBegin, SnapState, SnapMeta, DropPart, DropRemove, SnapAbort, files
<1>3. CASE img' = img BY <1>1, <1>3, Idles DEF CInv, BooksOK
<1>4. CASE sn.pc # "idle" /\ img' = Without({<<sn.t, sn.k>>})
  <2>1. sn.t \in Task /\ sn.k \in Slot BY <1>4 DEF IInv, SnOK
  <2> QED BY <1>1, <1>4, <2>1, Dropped
<1> QED BY <1>2, <1>3, <1>4

(* The snapshot backs onto the live overlay, or onto what that backs onto; *)
(* nothing backs onto the snapshot.                                        *)
LEMMA SnapDiskChains ==
  ASSUME IInv, CInv, SnapDisk
  PROVE  CInv'
<1>0. sn.pc = "disk" /\ UNCHANGED <<dir, marks, parent, cl, rb, del, arch, excused>>
  BY DEF SnapDisk
<1>1. PICK t \in Task, k \in Slot : t = sn.t /\ k = sn.k BY <1>0 DEF IInv, SnOK
<1>2. PICK p : p = <<t, k>> OBVIOUS
<1>3. p \in Paths /\ p[1] = t /\ \A v \in Task : p # Live(v)
  BY <1>2, PathIn, LiveIn DEF Slots
<1>4. \/ img' = img
      \/ img' = Without({p})
      \/ Opens(Live(t)) /\ img' = With(p, Overlay(Live(t)))
      \/ Live(t) \in DOMAIN img /\ img' = With(p, img[Live(t)])
  BY <1>1, <1>2 DEF SnapDisk, CaptureFails, SnapAbort
<1>5. CASE img' = img BY <1>0, <1>5, Idles DEF CInv, BooksOK
<1>6. CASE img' = Without({p}) BY <1>0, <1>2, <1>6, Dropped
<1>7. ASSUME NEW i \in Image, img' = With(p, i),
             \A v \in Task : i.back = Live(v) /\ t \notin excused =>
               (v \in excused \/ Live(v) \in DOMAIN img) /\ Guarded(v, t)
      PROVE  CInv'
  <2>1. FilesOK' BY <1>3, <1>7, Put DEF CInv
  <2>2. ASSUME NEW v \in Task, Guarded(v, t) PROVE Guarded(v, t)'
    <3>1. PICK D \in SUBSET Task : D = {} OBVIOUS
    <3> QED BY <1>0, <2>2, <3>1, EdgeSame, GuardedKept
  <2>3. Linked' BY <1>0, <1>3, <1>7, <2>2, EdgeSame, PutLinked DEF CInv
  <2>4. Grounded'
    <3>1. PICK F : F = {p} OBVIOUS
    <3>2. p \notin Backs
      <4>1. p[1] # Root BY <1>3, SnapshotsAssumption
      <4> QED BY <1>3, <4>1 DEF Backs, Base, None
    <3>3. \A q \in Kept : img[q].back \in Backs
      BY DEF CInv, FilesOK, Kept, Image
    <3>4. i.back \in Backs BY <1>7 DEF Image
    <3> QED BY <1>0, <1>3, <1>7, <3>1, <3>2, <3>3, <3>4, PutFringe DEF CInv
  <2>5. BooksOK' BY <1>0, BooksKept DEF CInv, BooksOK
  <2>6. HeldOK' BY <1>0, HeldKept DEF CInv
  <2> QED BY <2>1, <2>3, <2>4, <2>5, <2>6 DEF CInv
<1>8. CASE Opens(Live(t)) /\ img' = With(p, Overlay(Live(t)))
  <2>1. Live(t) \in DOMAIN img BY <1>8, LiveIn, OpensIsThere DEF CInv
  <2>2. PICK i : i = Overlay(Live(t)) OBVIOUS
  <2>3. i \in Image /\ i.back = Live(t) BY <2>2, SnapshotsAssumption DEF Overlay, Image, Backs
  <2>4. \A v \in Task : i.back = Live(v) => v = t BY <2>3 DEF Live
  <2>5. Guarded(t, t) BY DEF Guarded
  <2> QED BY <1>7, <1>8, <2>1, <2>2, <2>3, <2>4, <2>5
<1>9. CASE Live(t) \in DOMAIN img /\ img' = With(p, img[Live(t)])
  <2>1. PICK i : i = img[Live(t)] OBVIOUS
  <2>2. i \in Image BY <1>9, <2>1 DEF CInv, FilesOK
  <2>3. Live(t)[1] = t BY DEF Live
  <2>4. t \notin excused => Live(t) \in Kept BY <1>9, <2>3, LiveIn DEF Kept
  <2> QED BY <1>7, <1>9, <2>1, <2>2, <2>3, <2>4 DEF CInv, Linked
<1> QED BY <1>4, <1>5, <1>6, <1>8, <1>9

(* The directory of a task that protects nobody is removed. *)
LEMMA TaskRemoved ==
  ASSUME FilesOK, Linked, Grounded, NEW t \in Task, img' = Without(BelongsTo(t)),
         excused \ {t} \subseteq excused', \A y \in Task : ~Edge(t, y),
         \A x, y \in Task : Edge(x, y) => Edge(x, y)' \/ y = t
  PROVE  FilesOK' /\ Linked' /\ Grounded'
<1>1. BelongsTo(t) \in SUBSET Paths BY PathIn DEF BelongsTo, Slots
<1>2. /\ FilesOK' /\ DOMAIN img' = DOMAIN img \ BelongsTo(t)
      /\ \A q \in DOMAIN img' : img'[q] = img[q]
  BY <1>1, Removed
<1>3. ASSUME NEW p \in Kept' PROVE p \in Kept /\ img'[p] = img[p] /\ p[1] # t
  <2>1. p \in Paths /\ p \in DOMAIN img' /\ p[1] \notin excused' BY DEF Kept, Paths
  <2>2. p[1] # t BY <1>2, <2>1, PathsOf
  <2> QED BY <1>2, <2>1, <2>2 DEF Kept
<1>4. PICK D \in SUBSET Task : D = {t} OBVIOUS
<1>5. ASSUME NEW v \in Task, v # t PROVE Live(v) \in DOMAIN img => Live(v) \in DOMAIN img'
  <2>1. Live(v) \notin BelongsTo(t) BY <1>5, LiveIn, PathsOf DEF Live
  <2> QED BY <1>2, <2>1
<1> QED BY <1>2, <1>3, <1>4, <1>5, Shrinks

(* The directory of such a task is gone. *)
LEMMA DirRemovedChains ==
  ASSUME CInv, NEW t \in Task, RemoveDir(t), HeldOK', \A y \in Task : ~Edge(t, y),
         excused \ {t} \subseteq excused', excused' \subseteq excused,
         cl' = cl \/ (cl' = Idle /\ cl.pc # "mark"), del' = del \/ del' = Idle
  PROVE  CInv'
<1> USE DEF CInv
<1>1. /\ img' = Without(BelongsTo(t)) /\ dir' = dir \ {t}
      /\ parent' = [parent EXCEPT ![t] = Root] /\ marks' = [marks EXCEPT ![t] = {}]
  BY DEF RemoveDir
<1>2. /\ marks' \in [Task -> SUBSET Task] /\ marks'[t] = {}
      /\ \A x \in Task : x # t => marks'[x] = marks[x]
  BY <1>1 DEF BooksOK
<1>3. ASSUME NEW x \in Task, NEW y \in Task, Edge(x, y) PROVE Edge(x, y)'
  <2>1. x # t /\ marks'[x] = marks[x] BY <1>2, <1>3
  <2> QED BY <1>3, <2>1 DEF Edge, Idle
<1>4. FilesOK' /\ Linked' /\ Grounded' BY <1>1, <1>3, TaskRemoved
<1>5. BooksOK'
  <2>1. \A u \in Task : u \notin dir' => marks'[u] = {} BY <1>1, <1>2 DEF BooksOK
  <2>2. parent' \in [Task -> Owner] BY <1>1 DEF BooksOK, Owner
  <2>3. dir' \subseteq Task /\ excused' \subseteq Task BY <1>1 DEF BooksOK
  <2> QED BY <1>2, <2>1, <2>2, <2>3 DEF BooksOK, Owner
<1> QED BY <1>4, <1>5

(* A part of it is gone, while the task is excused. *)
LEMMA PartRemovedChains ==
  ASSUME CInv, NEW t \in Task, RemovePart(t), \A y \in Task : ~Edge(t, y), t \in excused,
         UNCHANGED <<cl, del, rb, arch, excused>>
  PROVE  CInv'
<1> USE DEF CInv
<1>1. dir' = dir BY DEF RemovePart
<1>2. marks' = marks \/ marks' = [marks EXCEPT ![t] = {}] BY DEF RemovePart
<1>3. parent' = parent \/ parent' = [parent EXCEPT ![t] = Root] BY DEF RemovePart
<1>4. img' = img \/ \E p \in BelongsTo(t) : img' = Without({p}) BY DEF RemovePart
<1>5. /\ marks' \in [Task -> SUBSET Task]
      /\ \A x \in Task : marks'[x] = marks[x] \/ (x = t /\ marks'[x] = {})
  BY <1>2 DEF BooksOK
<1>6. ASSUME NEW x \in Task, NEW y \in Task, Edge(x, y) PROVE Edge(x, y)'
  <2>1. marks'[x] = marks[x] BY <1>5, <1>6
  <2> QED BY <1>6, <2>1 DEF Edge
<1>7. FilesOK' /\ Linked' /\ Grounded'
  <2>1. CASE img' = img BY <1>6, <2>1, Steady
  <2>2. ASSUME NEW p \in BelongsTo(t), img' = Without({p})
        PROVE  FilesOK' /\ Linked' /\ Grounded'
    <3>1. p \in Paths /\ p[1] = t BY PathIn DEF BelongsTo, Slots
    <3>2. /\ FilesOK' /\ DOMAIN img' = DOMAIN img \ {p}
          /\ \A q \in DOMAIN img' : img'[q] = img[q]
      BY <2>2, <3>1, Removed
    <3>3. ASSUME NEW q \in Kept' PROVE q \in Kept /\ img'[q] = img[q]
      BY <3>2 DEF Kept, Paths
    <3>4. PICK D \in SUBSET Task : D = {} OBVIOUS
    <3>5. ASSUME NEW v \in Task, Live(v) \in DOMAIN img
          PROVE  Live(v) \in DOMAIN img' \/ v \in excused'
      <4>1. Live(v)[1] = v BY DEF Live
      <4> QED BY <3>1, <3>2, <3>5, <4>1
    <3>6. Linked' /\ Grounded' BY <1>6, <3>3, <3>4, <3>5, Shrinks
    <3> QED BY <3>2, <3>6
  <2> QED BY <1>4, <2>1, <2>2
<1>8. BooksOK'
  <2>1. \A u \in Task : u \notin dir' => marks'[u] = {} BY <1>1, <1>5 DEF BooksOK
  <2>2. parent' \in [Task -> Owner]
    <3>1. CASE parent' = parent BY <3>1 DEF BooksOK
    <3>2. CASE parent' = [parent EXCEPT ![t] = Root] BY <3>2 DEF BooksOK, Owner
    <3> QED BY <1>3, <3>1, <3>2
  <2> QED BY <1>1, <1>5, <2>1, <2>2 DEF BooksOK, Owner
<1>9. HeldOK' BY HeldKept
<1> QED BY <1>7, <1>8, <1>9

(* A clone that fails is excused: its marker may have gone, and markers at *)
(* it protect nobody.                                                      *)
LEMMA CloneFailsChains ==
  ASSUME IInv, CInv, cl.pc # "idle", NEW m \in [Task -> SUBSET Task], CloneFails(m),
         \A x \in Task : marks[x] \ {cl.dst} \subseteq m[x] /\ (x \notin dir => m[x] = {}),
         UNCHANGED <<rb, del, arch>>
  PROVE  CInv'
<1> USE DEF CInv
<1>1. PICK s \in Task, d \in Task : s = cl.src /\ d = cl.dst BY DEF IInv, ClOK
<1>2. /\ UNCHANGED <<img, dir, parent>> /\ marks' = m /\ cl' = [cl EXCEPT !.pc = "undo"]
      /\ excused' = excused \cup {d}
  BY <1>1 DEF CloneFails
<1>3. cl'.pc = "undo" /\ cl'.src = s /\ cl'.dst = d BY <1>1, <1>2 DEF IInv, ClOK
<1>4. PICK D \in SUBSET Task : D = {d} OBVIOUS
<1>5. \A x \in D, y \in Task : Edge(x, y) => y \in D BY <1>1, <1>4 DEF Edge
<1>6. ASSUME NEW x \in Task, NEW y \in Task, Edge(x, y), y \notin D PROVE Edge(x, y)'
  <2>1. y \in marks[x] => y \in m[x] BY <1>1, <1>4, <1>6
  <2> QED BY <1>1, <1>2, <1>3, <1>4, <1>6, <2>1 DEF Edge
<1>7. FilesOK'
  <2>1. Image' = Image /\ Paths' = Paths /\ Base' = Base /\ None' = None
    BY DEF Image, Backs, Paths, Base, None, Live
  <2> QED BY <1>2, <2>1 DEF FilesOK
<1>8. ASSUME NEW p \in Kept' PROVE p \in Kept /\ p[1] \notin D
  BY <1>2, <1>4 DEF Kept, Paths
<1>9. Linked' /\ Grounded' BY <1>2, <1>5, <1>6, <1>8, Shrinks
<1>10. BooksOK'
  <2>1. excused' \subseteq Task BY <1>2 DEF BooksOK
  <2> QED BY <1>2, <2>1 DEF BooksOK, Owner
<1>11. s # d BY <1>1 DEF HeldOK
<1>12. HeldOK' BY <1>3, <1>11, HeldKept
<1> QED BY <1>7, <1>9, <1>10, <1>12

LEMMA CloneUndoChains ==
  ASSUME IInv, CInv, RemovedExcused, CloneUndo
  PROVE  CInv'
<1>1. /\ UNCHANGED <<rb, del, arch>> /\ cl.pc = "undo" BY DEF CloneUndo
<1>2. PICK d \in Task : d = cl.dst BY <1>1 DEF IInv, ClOK
<1>3. \A y \in Task : ~Edge(d, y) BY <1>1, <1>2 DEF Edge
<1>4. CASE RemovePart(d) /\ UNCHANGED <<cl, excused>>
  BY <1>1, <1>2, <1>3, <1>4, PartRemovedChains DEF RemovedExcused
<1>5. CASE RemoveDir(d) /\ cl' = Idle
           /\ excused' = IF del.pc = "remove" /\ del.t = d THEN excused ELSE excused \ {d}
  <2>1. HeldOK' BY <1>1, <1>5, HeldKept DEF CInv, Idle
  <2>2. excused \ {d} \subseteq excused' /\ excused' \subseteq excused BY <1>5
  <2> QED BY <1>1, <1>3, <1>5, <2>1, <2>2, DirRemovedChains
<1>6. CASE cl' = Idle /\ UNCHANGED <<files, excused>>
  <2>1. UNCHANGED <<img, dir, marks, parent, excused>> BY <1>6 DEF files
  <2>2. \A x, y \in Task : Edge(x, y) => Edge(x, y)' BY <1>1, <1>6, <2>1 DEF Edge, Idle
  <2>3. FilesOK' /\ Linked' /\ Grounded' BY <2>1, <2>2, Steady
  <2>4. BooksOK' BY <2>1, BooksKept DEF CInv, BooksOK
  <2>5. HeldOK' BY <1>1, <1>6, HeldKept DEF CInv, Idle
  <2> QED BY <2>3, <2>4, <2>5 DEF CInv
<1> QED BY <1>2, <1>4, <1>5, <1>6 DEF CloneUndo

(* The markers lead on. *)
LEMMA GuardedNext ==
  ASSUME NEW v \in Task, NEW u \in Task, NEW w \in Task, Guarded(v, u)', Edge(u, w)'
  PROVE  Guarded(v, w)'
<1> SUFFICES ASSUME NEW S \in SUBSET Task, v \in S, Closed(S)' PROVE w \in S BY DEF Guarded
<1>1. u \in S BY DEF Guarded
<1> QED BY <1>1 DEF Closed

(* The overlay of a clone backs onto its source, or onto what that backs   *)
(* onto, and is about to be marked at the source.                          *)
LEMMA CloneMade ==
  ASSUME IInv, CInv, cl.pc = "branch", NEW i \in Image,
         \/ Live(cl.src) \in DOMAIN img /\ i.back = Live(cl.src)
         \/ Live(cl.src) \in DOMAIN img /\ i = img[Live(cl.src)],
         img' = With(Live(cl.dst), i), cl' = [cl EXCEPT !.pc = "mark"],
         excused' = IF \/ TasksOn(Live(cl.src)) \cap excused # {}
                       \/ del.pc = "remove" /\ del.t = cl.src
                    THEN excused \cup {cl.dst} ELSE excused,
         dir' = dir \cup {cl.dst}, UNCHANGED <<marks, parent, rb, del, arch>>
  PROVE  CInv'
<1>1. PICK s \in Task, d \in Task : s = cl.src /\ d = cl.dst BY DEF IInv, ClOK
<1>2. s # d /\ cl'.pc = "mark" /\ cl'.src = s /\ cl'.dst = d
  BY <1>1 DEF IInv, ClOK, CInv, HeldOK
<1>3. Live(d) \in Paths /\ Live(d)[1] = d /\ Live(s) \in Paths /\ Live(s)[1] = s
  BY LiveIn DEF Live
<1>4. excused \subseteq excused' /\ excused' \subseteq Task
  BY <1>1 DEF CInv, BooksOK
<1>5. \A x, y \in Task : Edge(x, y) => Edge(x, y)'
  BY <1>1, <1>2 DEF Edge
<1>6. \A y \in Task : ~Edge(d, y) BY <1>1 DEF Edge
<1>7. ASSUME d \notin excused' PROVE Live(s) \in Kept /\ Edge(s, d)'
  <2>1. /\ TasksOn(Live(s)) \cap excused = {} /\ ~(del.pc = "remove" /\ del.t = s)
    BY <1>1, <1>7
  <2>2. s \in TasksOn(Live(s)) BY <1>3, FirstHop DEF TasksOn
  <2>3. Live(s) \in Kept BY <1>1, <1>3, <2>1, <2>2 DEF Kept
  <2>4. Edge(s, d)' BY <1>2, <2>1 DEF Edge
  <2> QED BY <2>3, <2>4
<1>8. ASSUME NEW v \in Task, i.back = Live(v), d \notin excused'
      PROVE  (v \in excused' \/ Live(v) \in DOMAIN img) /\ Guarded(v, s) /\ Guarded(v, d)'
  <2>1. Live(s) \in Kept /\ Edge(s, d)' BY <1>7, <1>8
  <2>2. (v \in excused \/ Live(v) \in DOMAIN img) /\ Guarded(v, s)
    <3>1. CASE i.back = Live(s)
      <4>1. v = s BY <1>8, <3>1 DEF Live
      <4>2. Guarded(s, s) BY DEF Guarded
      <4> QED BY <2>1, <4>1, <4>2 DEF Kept
    <3>2. CASE i = img[Live(s)] BY <1>3, <1>8, <2>1, <3>2 DEF CInv, Linked
    <3> QED BY <1>1, <3>1, <3>2
  <2>3. Guarded(v, s)'
    <3>1. PICK D \in SUBSET Task : D = {} OBVIOUS
    <3> QED BY <1>5, <2>2, <3>1, GuardedKept
  <2>4. Guarded(v, d)' BY <2>1, <2>3, GuardedNext
  <2> QED BY <1>4, <2>2, <2>4
<1>9. FilesOK' BY <1>1, <1>3, Put DEF CInv
<1>10. Linked' BY <1>1, <1>3, <1>4, <1>5, <1>8, PutLinked DEF CInv
<1>11. Grounded'
  <2>1. PICK F : F = BelongsTo(d) OBVIOUS
  <2>2. Live(d) \in F BY <1>3, <2>1, PathsOf
  <2>3. ASSUME NEW b \in Backs, b \in F PROVE b = Live(d)
    <3>1. b[1] = d BY <2>1, <2>3 DEF BelongsTo
    <3>2. b # Base /\ b # None BY <3>1, SnapshotsAssumption DEF Base, None
    <3>3. PICK v \in Task : b = Live(v) BY <2>3, <3>2 DEF Backs
    <3> QED BY <3>1, <3>3 DEF Live
  <2>4. \A q \in Kept : img[q].back \in Backs BY DEF CInv, FilesOK, Kept, Image
  <2>5. ASSUME NEW q \in Kept, q \notin F PROVE img[q].back \notin F
    <3> SUFFICES ASSUME img[q].back = Live(d) PROVE FALSE BY <2>3, <2>4
    <3>1. q \in Paths /\ q[1] \in Task BY PathParts DEF Kept
    <3>2. Guarded(d, q[1]) BY DEF CInv, Linked
    <3>3. q[1] = d BY <1>6, <3>1, <3>2, GuardedAlone
    <3> QED BY <2>1, <2>5, <3>1, <3>3, PathsOf
  <2>6. ASSUME d \notin excused' PROVE i.back \notin F
    <3> SUFFICES ASSUME i.back = Live(d) PROVE FALSE BY <2>3 DEF Image
    <3>1. Guarded(d, s) BY <1>8, <2>6
    <3> QED BY <1>2, <1>6, <3>1, GuardedAlone
  <2> QED BY <1>1, <1>3, <1>4, <2>2, <2>3, <2>4, <2>5, <2>6, PutFringe DEF CInv
<1>12. BooksOK' BY <1>1, <1>4, BooksKept DEF CInv, BooksOK
<1>13. HeldOK' BY <1>2, HeldKept DEF CInv
<1> QED BY <1>9, <1>10, <1>11, <1>12, <1>13 DEF CInv

LEMMA CloneBranchChains ==
  ASSUME IInv, CInv, CloneBranch
  PROVE  CInv'
<1>1. PICK s \in Task, d \in Task : s = cl.src /\ d = cl.dst
  BY DEF IInv, ClOK, CloneBranch
<1>2. cl.pc = "branch" /\ UNCHANGED <<rb, del, arch>> BY DEF CloneBranch
<1>3. CASE CloneFails(marks)
  <2>1. marks \in [Task -> SUBSET Task] /\ \A x \in Task : x \notin dir => marks[x] = {}
    BY DEF CInv, BooksOK
  <2> QED BY <1>2, <1>3, <2>1, CloneFailsChains
<1>4. CASE cl' = [cl EXCEPT !.pc = "save"] /\ UNCHANGED <<files, excused>>
  <2>1. cl'.pc = "save" /\ cl'.src = s /\ cl'.dst = d BY <1>1, <1>2, <1>4 DEF IInv, ClOK
  <2>2. UNCHANGED <<img, dir, marks, parent, excused>> BY <1>4 DEF files
  <2>3. \A x, y \in Task : Edge(x, y) => Edge(x, y)' BY <1>1, <1>2, <2>1, <2>2 DEF Edge
  <2>4. FilesOK' /\ Linked' /\ Grounded' BY <2>2, <2>3, Steady
  <2>5. BooksOK' BY <2>2, BooksKept DEF CInv, BooksOK
  <2>6. s # d BY <1>1, <1>2 DEF CInv, HeldOK
  <2>7. HeldOK' BY <1>2, <2>1, <2>6, HeldKept DEF CInv
  <2> QED BY <2>4, <2>5, <2>7 DEF CInv
<1>5. CASE ~CloneFails(marks)
           /\ ~(cl' = [cl EXCEPT !.pc = "save"] /\ UNCHANGED <<files, excused>>)
  <2>1. PICK i : /\ \/ Opens(Live(s)) /\ i = Overlay(Live(s))
                    \/ Live(s) \in DOMAIN img /\ i = img[Live(s)]
                 /\ img' = With(Live(d), i) /\ dir' = dir \cup {d}
                 /\ cl' = [cl EXCEPT !.pc = "mark"]
                 /\ excused' = IF \/ TasksOn(Live(s)) \cap excused # {}
                                  \/ del.pc = "remove" /\ del.t = s
                               THEN excused \cup {d} ELSE excused
                 /\ UNCHANGED <<marks, parent>>
    BY <1>1, <1>5 DEF CloneBranch
  <2>2. Live(s) \in DOMAIN img BY <2>1, LiveIn, OpensIsThere DEF CInv
  <2>3. i \in Image
    <3>1. CASE i = Overlay(Live(s)) BY <3>1, SnapshotsAssumption DEF Overlay, Image, Backs
    <3>2. CASE i = img[Live(s)] BY <2>2, <3>2 DEF CInv, FilesOK
    <3> QED BY <2>1, <3>1, <3>2
  <2>4. i.back = Live(s) \/ i = img[Live(s)] BY <2>1 DEF Overlay
  <2> QED BY <1>1, <1>2, <2>1, <2>2, <2>3, <2>4, CloneMade
<1> QED BY <1>3, <1>4, <1>5

LEMMA CloneChains ==
  ASSUME IInv, CInv,
         \/ \E s, d \in Task : CloneBegin(s, d)
         \/ CloneMark \/ CloneParent \/ CloneSave
  PROVE  CInv'
<1> USE DEF CInv
<1>1. ASSUME NEW s \in Task, NEW d \in Task, CloneBegin(s, d) PROVE CInv'
  <2>1. /\ cl = Idle /\ s # d /\ d \notin dir /\ dir' = dir \cup {d}
        /\ cl' = [pc |-> "branch", src |-> s, dst |-> d]
        /\ UNCHANGED <<img, marks, parent, rb, del, arch, excused>>
    BY <1>1 DEF CloneBegin
  <2>2. marks[d] = {} BY <2>1 DEF BooksOK
  <2>3. \A x, y \in Task : Edge(x, y) => Edge(x, y)' BY <2>1, <2>2 DEF Edge, Idle
  <2>4. FilesOK' /\ Linked' /\ Grounded' BY <2>1, <2>3, Steady
  <2>5. BooksOK' BY <2>1, BooksKept DEF BooksOK
  <2>6. HeldOK' BY <2>1, HeldKept
  <2> QED BY <2>4, <2>5, <2>6
<1>2. ASSUME CloneMark \/ CloneParent \/ CloneSave PROVE CInv'
  <2>1. PICK s \in Task, d \in Task : s = cl.src /\ d = cl.dst
    BY <1>2 DEF IInv, ClOK, CloneMark, CloneParent, CloneSave
  <2>2. /\ cl.pc \in {"mark", "parent", "save"} /\ s # d
        /\ UNCHANGED <<rb, del, arch>>
    BY <1>2, <2>1 DEF CloneMark, CloneParent, CloneSave, HeldOK
  <2>3. \A c : cl' = [cl EXCEPT !.pc = c] => cl'.pc = c /\ cl'.src = s /\ cl'.dst = d
    BY <2>1, <2>2 DEF IInv, ClOK
  <2>0. /\ marks \in [Task -> SUBSET Task] /\ \A x \in Task : x \notin dir => marks[x] = {}
    BY DEF BooksOK
  <2>10. ASSUME NEW m \in [Task -> SUBSET Task], CloneFails(m),
                \/ m = marks
                \/ m = [marks EXCEPT ![s] = @ \cup {d}] /\ s \in dir
                \/ m = [marks EXCEPT ![s] = @ \ {d}]
         PROVE  CInv'
    <3>1. \A x \in Task : marks[x] \ {d} \subseteq m[x] /\ (x \notin dir => m[x] = {})
      BY <2>0, <2>10
    <3> QED BY <2>1, <2>2, <2>10, <3>1, CloneFailsChains
  <2>11. CASE CloneMark /\ \E m : CloneFails(m)
    <3>1. PICK m : CloneFails(m) BY <2>11
    <3>2. m = marks' BY <3>1 DEF CloneFails
    <3>3. cl' = [cl EXCEPT !.pc = "undo"] BY <3>1 DEF CloneFails
    <3>4. cl'.pc = "undo" BY <2>3, <3>3
    <3>5. ~(cl' = [cl EXCEPT !.pc = "parent"]) BY <2>3, <3>4
    <3>6. \/ m = marks
          \/ m = [marks EXCEPT ![s] = @ \cup {d}] /\ s \in dir
      BY <2>1, <2>11, <3>2, <3>5 DEF CloneMark, CloneFails
    <3>7. m \in [Task -> SUBSET Task]
      <4>1. CASE m = marks BY <2>0, <4>1
      <4>2. CASE m = [marks EXCEPT ![s] = @ \cup {d}] BY <2>0, <4>2
      <4> QED BY <3>6, <4>1, <4>2
    <3> QED BY <2>10, <3>1, <3>6, <3>7
  <2>4. CASE CloneMark /\ ~\E m : CloneFails(m)
    <3>1. /\ marks' = [marks EXCEPT ![s] = @ \cup {d}] /\ dir' = dir \cup {s}
          /\ cl.pc = "mark" /\ cl' = [cl EXCEPT !.pc = "parent"]
          /\ UNCHANGED <<img, parent, excused>>
      BY <2>1, <2>4 DEF CloneMark
    <3>2. cl'.pc = "parent" /\ cl'.src = s /\ cl'.dst = d BY <2>3, <3>1
    <3>3. /\ marks' \in [Task -> SUBSET Task] /\ marks'[s] = marks[s] \cup {d}
          /\ \A x \in Task : x # s => marks'[x] = marks[x]
      BY <3>1 DEF BooksOK
    <3>4. \A x, y \in Task : Edge(x, y) => Edge(x, y)'
      BY <2>1, <2>2, <3>1, <3>2, <3>3 DEF Edge
    <3>5. FilesOK' /\ Linked' /\ Grounded' BY <2>2, <3>1, <3>4, Steady
    <3>6. BooksOK'
      <4>1. \A t \in Task : t \notin dir' => marks'[t] = {} BY <3>1, <3>3 DEF BooksOK
      <4> QED BY <2>2, <3>1, <3>3, <4>1 DEF BooksOK, Owner
    <3>7. HeldOK' BY <2>2, <3>2, HeldKept
    <3> QED BY <3>5, <3>6, <3>7
  <2>5. CASE CloneParent /\ ~CloneFails([marks EXCEPT ![cl.src] = @ \ {cl.dst}])
    <3>1. /\ parent' = [parent EXCEPT ![d] = s] /\ UNCHANGED <<img, dir, marks, excused>>
          /\ cl.pc = "parent" /\ cl' = [cl EXCEPT !.pc = "save"]
      BY <2>1, <2>5 DEF CloneParent
    <3>2. cl'.pc = "save" /\ cl'.src = s /\ cl'.dst = d BY <2>3, <3>1
    <3>3. \A x, y \in Task : Edge(x, y) => Edge(x, y)' BY <2>1, <2>2, <3>1, <3>2 DEF Edge
    <3>4. FilesOK' /\ Linked' /\ Grounded' BY <2>2, <3>1, <3>3, Steady
    <3>5. BooksOK'
      <4>1. parent' \in [Task -> Owner] BY <3>1 DEF BooksOK, Owner
      <4> QED BY <2>2, <3>1, <4>1 DEF BooksOK, Owner
    <3>6. HeldOK' BY <2>2, <3>2, HeldKept
    <3> QED BY <3>4, <3>5, <3>6
  <2>6. CASE CloneParent /\ CloneFails([marks EXCEPT ![cl.src] = @ \ {cl.dst}])
    <3>1. [marks EXCEPT ![s] = @ \ {d}] \in [Task -> SUBSET Task] BY <2>0
    <3> QED BY <2>1, <2>6, <2>10, <3>1
  <2>7. CASE CloneSave /\ ~CloneFails(marks)
    <3>1. dir' = dir \cup {d} /\ cl' = Idle /\ cl.pc = "save"
          /\ UNCHANGED <<img, marks, parent, excused>>
      BY <2>1, <2>7 DEF CloneSave
    <3>2. \A x, y \in Task : Edge(x, y) => Edge(x, y)' BY <2>2, <3>1 DEF Edge, Idle
    <3>3. FilesOK' /\ Linked' /\ Grounded' BY <2>2, <3>1, <3>2, Steady
    <3>4. BooksOK' BY <2>2, <3>1, BooksKept DEF BooksOK
    <3>5. HeldOK' BY <2>2, <3>1, HeldKept DEF Idle
    <3> QED BY <3>3, <3>4, <3>5
  <2>8. CASE CloneSave /\ CloneFails(marks) BY <2>0, <2>8, <2>10
  <2> QED BY <1>2, <2>4, <2>5, <2>6, <2>7, <2>8, <2>11
<1> QED BY <1>1, <1>2

(* A rollback puts a standalone file on the live path. *)
LEMMA RollbackChains ==
  ASSUME IInv, CInv,
         \/ \E t \in Task, k \in Slot, force \in BOOLEAN : RollbackBegin(t, k, force)
         \/ RollbackConvert \/ RollbackRename \/ RollbackSave
  PROVE  CInv'
<1>1. UNCHANGED <<marks, parent, cl, del, arch, excused>>
  BY DEF RollbackBegin, RollbackConvert, RollbackRename, RollbackSave, files
<1>2. dir \subseteq Task BY DEF CInv, BooksOK
<1>3. ASSUME NEW t \in Task, NEW k \in Slot, NEW force, RollbackBegin(t, k, force)
      PROVE  CInv'
  <2>1. UNCHANGED <<img, dir>> BY <1>3 DEF RollbackBegin, files
  <2>2. rb'.pc # "rename" BY <1>3 DEF RollbackBegin
  <2> QED BY <1>1, <1>2, <2>1, <2>2, Idles
<1>4. ASSUME RollbackConvert PROVE CInv'
  <2>1. UNCHANGED <<img, dir>> /\ rb.pc = "convert" BY <1>4 DEF RollbackConvert, files
  <2>2. PICK w : w = Content(<<rb.t, rb.k>>) OBVIOUS
  <2>3. \/ rb' = Idle \/ rb' = [rb EXCEPT !.pc = "save"]
        \/ rb' = [rb EXCEPT !.pc = "rename", !.buf = w]
    BY <1>4, <2>2 DEF RollbackConvert
  <2>4. CASE rb' = Idle \/ rb' = [rb EXCEPT !.pc = "save"]
    <3>1. rb'.pc # "rename" BY <2>1, <2>4 DEF IInv, RbOK, Idle
    <3> QED BY <1>1, <1>2, <2>1, <3>1, Idles
  <2>5. CASE rb' = [rb EXCEPT !.pc = "rename", !.buf = w]
    <3>1. rb'.buf = w BY <2>1, <2>5 DEF IInv, RbOK
    <3>2. w \in 0 .. MaxValue BY <2>2, ContentIn DEF CInv
    <3>3. FilesOK' /\ Linked' /\ Grounded' BY <1>1, <2>1, EdgeSame, Steady
    <3>4. BooksOK' BY <1>1, <2>1, BooksKept DEF CInv, BooksOK
    <3>5. HeldOK'
      <4>1. Image' = Image BY DEF Image, Backs, Base, None, Live
      <4> QED BY <1>1, <3>1, <3>2, <4>1 DEF CInv, HeldOK, Owner, Slots
    <3> QED BY <3>3, <3>4, <3>5 DEF CInv
  <2> QED BY <2>3, <2>4, <2>5
<1>5. ASSUME RollbackRename PROVE CInv'
  <2>1. dir' = dir /\ rb.pc = "rename" BY <1>5 DEF RollbackRename
  <2>2. CASE rb' = Idle /\ img' = img
    <3>1. rb'.pc # "rename" BY <2>2 DEF Idle
    <3> QED BY <1>1, <1>2, <2>1, <2>2, <3>1, Idles
  <2>3. CASE img' = With(Live(rb.t), Restored) /\ rb' = [rb EXCEPT !.pc = "save"]
    <3>1. rb.t \in Task /\ rb'.pc # "rename" BY <2>1, <2>3 DEF IInv, RbOK
    <3>2. Restored \in Image /\ Restored.back = None
      BY <2>1 DEF Restored, Image, Backs, CInv, HeldOK
    <3> QED BY <1>1, <1>2, <2>1, <2>3, <3>1, <3>2, Standalone
  <2> QED BY <1>5, <2>2, <2>3 DEF RollbackRename
<1>6. ASSUME RollbackSave PROVE CInv'
  <2>1. rb.pc = "save" /\ rb' = Idle /\ img' = img BY <1>6 DEF RollbackSave
  <2>2. rb.t \in Task BY <2>1 DEF IInv, RbOK
  <2>3. dir' = dir \/ dir' = dir \cup {rb.t} BY <1>6 DEF RollbackSave
  <2>4. rb'.pc # "rename" BY <2>1 DEF Idle
  <2> QED BY <1>1, <1>2, <2>1, <2>2, <2>3, <2>4, Idles
<1> QED BY <1>3, <1>4, <1>5, <1>6

(* The guard of a deletion lets a task through that no marker leads on     *)
(* from: whoever it gives up is excused.                                   *)
LEMMA DeleteChains ==
  ASSUME IInv, CInv, RemovedExcused,
         \/ \E t \in Task, locked \in BOOLEAN : DeleteKill(t, locked)
         \/ DeleteGuard \/ DeletePart \/ DeleteRemove
  PROVE  CInv'
<1> USE DEF CInv
<1>1. UNCHANGED <<cl, rb, arch>>
  BY DEF DeleteKill, DeleteGuard, DeletePart, DeleteRemove, files
<1>2. HeldOK' BY <1>1, HeldKept
<1>3. ASSUME NEW t \in Task, NEW locked, DeleteKill(t, locked) PROVE CInv'
  <2>1. /\ UNCHANGED <<img, dir, marks, parent, excused>> /\ del = Idle
        /\ del' = [pc |-> "guard", t |-> t, locked |-> locked]
    BY <1>3 DEF DeleteKill, files
  <2>2. \A x, y \in Task : Edge(x, y) => Edge(x, y)' BY <1>1, <2>1 DEF Edge
  <2>3. FilesOK' /\ Linked' /\ Grounded' BY <2>1, <2>2, Steady
  <2>4. BooksOK' BY <2>1, BooksKept DEF BooksOK
  <2> QED BY <1>2, <2>3, <2>4
<1>4. ASSUME DeleteGuard PROVE CInv'
  <2>1. PICK t \in Task : t = del.t BY <1>4 DEF IInv, DelOK, DeleteGuard
  <2>2. del.pc = "guard" /\ UNCHANGED <<img, dir, parent>> BY <1>4 DEF DeleteGuard
  <2>3. CASE del' = Idle /\ UNCHANGED <<marks, excused>>
    <3>1. \A x, y \in Task : Edge(x, y) => Edge(x, y)' BY <1>1, <2>3 DEF Edge, Idle
    <3>2. FilesOK' /\ Linked' /\ Grounded' BY <2>2, <2>3, <3>1, Steady
    <3>3. BooksOK' BY <2>2, <2>3, BooksKept DEF BooksOK
    <3> QED BY <1>2, <3>2, <3>3
  <2>4. CASE ~(del' = Idle /\ UNCHANGED <<marks, excused>>)
    <3>1. PICK D : D = {t} \cup (IF cl.pc = "mark" /\ cl.src = t THEN {cl.dst} ELSE {})
      OBVIOUS
    <3>2. /\ marks[t] = {} /\ excused' = excused \cup D
          /\ marks' = [u \in Task |-> IF u = parent[t] THEN marks[u] \ {t} ELSE marks[u]]
          /\ del' = [del EXCEPT !.pc = "remove"]
      <4>1. /\ marks[t] = {}
            /\ marks' = [u \in Task |-> IF u = parent[t] THEN marks[u] \ {t} ELSE marks[u]]
            /\ del' = [del EXCEPT !.pc = "remove"]
        BY <1>4, <2>1, <2>4 DEF DeleteGuard
      <4>2. excused' = excused \cup {t}
                         \cup (IF cl.pc = "mark" /\ cl.src = t THEN {cl.dst} ELSE {})
        BY <1>4, <2>1, <2>4 DEF DeleteGuard
      <4> QED BY <3>1, <4>1, <4>2
    <3>3. D \in SUBSET Task BY <3>1 DEF IInv, ClOK
    <3>4. del'.pc = "remove" /\ del'.t = t BY <2>1, <2>2, <3>2 DEF IInv, DelOK
    <3>5. \A x \in D, y \in Task : Edge(x, y) => y \in D BY <3>1, <3>2 DEF Edge
    <3>6. ASSUME NEW x \in Task, NEW y \in Task, Edge(x, y), y \notin D PROVE Edge(x, y)'
      <4>1. x # t /\ y # t BY <3>1, <3>5, <3>6
      <4>2. marks'[x] = marks[x] \/ marks'[x] = marks[x] \ {t} BY <3>2
      <4> QED BY <1>1, <3>4, <3>6, <4>1, <4>2 DEF Edge
    <3>7. FilesOK'
      <4>1. Image' = Image /\ Paths' = Paths /\ Base' = Base /\ None' = None
        BY DEF Image, Backs, Paths, Base, None, Live
      <4> QED BY <2>2, <4>1 DEF FilesOK
    <3>8. ASSUME NEW p \in Kept' PROVE p \in Kept /\ p[1] \notin D
      BY <2>2, <3>2 DEF Kept, Paths
    <3>9. Linked' /\ Grounded' BY <2>2, <3>2, <3>3, <3>5, <3>6, <3>8, Shrinks
    <3>10. BooksOK'
      <4>1. marks' \in [Task -> SUBSET Task] BY <3>2 DEF BooksOK
      <4>2. \A u \in Task : u \notin dir' => marks'[u] = {} BY <2>2, <3>2 DEF BooksOK
      <4>3. excused' \subseteq Task BY <3>2, <3>3 DEF BooksOK
      <4> QED BY <2>2, <4>1, <4>2, <4>3 DEF BooksOK, Owner
    <3> QED BY <1>2, <3>7, <3>9, <3>10
  <2> QED BY <2>3, <2>4
<1>5. ASSUME DeletePart \/ DeleteRemove PROVE CInv'
  <2>1. PICK t \in Task : t = del.t BY <1>5 DEF IInv, DelOK, DeletePart, DeleteRemove
  <2>2. del.pc = "remove" BY <1>5 DEF DeletePart, DeleteRemove
  <2>3. \A y \in Task : ~Edge(t, y) BY <2>1, <2>2 DEF Edge
  <2>4. CASE DeleteRemove
    <3>1. /\ RemoveDir(t) /\ del' = Idle
          /\ excused' = IF cl.pc = "undo" /\ cl.dst = t THEN excused ELSE excused \ {t}
      BY <2>1, <2>4 DEF DeleteRemove
    <3>2. excused \ {t} \subseteq excused' /\ excused' \subseteq excused BY <3>1
    <3> QED BY <1>1, <1>2, <2>3, <3>1, <3>2, DirRemovedChains
  <2>5. CASE RemovePart(t) /\ UNCHANGED <<del, excused>>
    BY <1>1, <2>1, <2>2, <2>3, <2>5, PartRemovedChains DEF RemovedExcused
  <2>6. CASE del' = Idle /\ UNCHANGED <<files, excused>>
    <3>1. UNCHANGED <<img, dir, marks, parent, excused>> BY <2>6 DEF files
    <3>2. \A x, y \in Task : Edge(x, y) => Edge(x, y)' BY <1>1, <2>6, <3>1 DEF Edge, Idle
    <3>3. FilesOK' /\ Linked' /\ Grounded' BY <3>1, <3>2, Steady
    <3>4. BooksOK' BY <3>1, BooksKept DEF BooksOK
    <3> QED BY <1>2, <3>3, <3>4
  <2> QED BY <1>5, <2>1, <2>4, <2>5, <2>6 DEF DeletePart
<1> QED BY <1>3, <1>4, <1>5

(* An archive holds images, markers and a parent as they were. *)
LEMMA ExportChains ==
  ASSUME CInv, NEW t \in Task, Export(t)
  PROVE  CInv'
<1> USE DEF CInv
<1>1. UNCHANGED <<img, dir, marks, parent, cl, rb, del, excused>> BY DEF Export, files
<1>2. FilesOK' /\ Linked' /\ Grounded' BY <1>1, EdgeSame, Steady
<1>3. BooksOK' BY <1>1, BooksKept DEF BooksOK
<1>4. PICK I : I = [k \in {k \in Slots : <<t, k>> \in DOMAIN img} |-> img[<<t, k>>]] OBVIOUS
<1>5. DOMAIN I \subseteq Slots /\ I \in [DOMAIN I -> Image] BY <1>4 DEF FilesOK
<1>6. arch'.img = I /\ arch'.marks = marks[t] /\ arch'.parent = parent[t]
  BY <1>4 DEF Export, Slots
<1>7. arch'.marks \subseteq Task /\ arch'.parent \in Owner BY <1>6 DEF BooksOK
<1>8. HeldOK'
  <2>1. Image' = Image BY DEF Image, Backs, Base, None, Live
  <2> QED BY <1>1, <1>5, <1>6, <1>7, <2>1 DEF HeldOK, Owner, Slots
<1> QED BY <1>2, <1>3, <1>8

(* A restored task is excused, and its markers protect whom they may. *)
LEMMA ImportChains ==
  ASSUME CInv, Import
  PROVE  CInv'
<1> USE DEF CInv
<1>1. PICK d \in Task : d = RestoredId BY SnapshotsAssumption
<1>2. /\ arch.pc = "held" /\ d \notin dir /\ dir' = dir \cup {d} /\ arch' = Idle
      /\ marks' = [marks EXCEPT ![d] = arch.marks] /\ parent' = [parent EXCEPT ![d] = arch.parent]
      /\ excused' = excused \cup {d} /\ UNCHANGED <<cl, rb, del>>
  BY <1>1 DEF Import
<1>3. PICK N : N = {q \in Paths : q[1] = d /\ q[2] \in DOMAIN arch.img} OBVIOUS
<1>4. img' = [p \in DOMAIN img \cup {q \in Paths : q[1] = d /\ q[2] \in DOMAIN arch.img} |->
                IF p[1] = d /\ p[2] \in DOMAIN arch.img THEN arch.img[p[2]] ELSE img[p]]
  BY <1>1 DEF Import
<1>5. DOMAIN img' = DOMAIN img \cup N BY <1>3, <1>4
<1>6. \A p \in DOMAIN img' : p[1] # d => p \in DOMAIN img /\ img'[p] = img[p]
  BY <1>3, <1>4
<1>7. arch.img \in [DOMAIN arch.img -> Image] BY <1>2 DEF HeldOK
<1>8. \A p \in DOMAIN img' : img'[p] \in Image
  BY <1>3, <1>4, <1>7 DEF FilesOK
<1>9. FilesOK'
  <2>1. Image' = Image /\ Paths' = Paths /\ Base' = Base /\ None' = None
    BY DEF Image, Backs, Paths, Base, None, Live
  <2>2. img' \in [DOMAIN img' -> Image] BY <1>4, <1>8
  <2>3. Base[1] # d BY SnapshotsAssumption DEF Base
  <2>4. Base \in DOMAIN img' /\ img'[Base] = img[Base] BY <1>5, <1>6, <2>3 DEF FilesOK
  <2>5. DOMAIN img' \subseteq Paths \cup {Base} BY <1>3, <1>5 DEF FilesOK
  <2> QED BY <2>1, <2>2, <2>4, <2>5 DEF FilesOK
<1>10. ASSUME NEW p \in Kept' PROVE p \in Kept /\ img'[p] = img[p]
  BY <1>2, <1>6 DEF Kept, Paths
<1>11. /\ marks' \in [Task -> SUBSET Task] /\ marks[d] = {}
       /\ \A x \in Task : x # d => marks'[x] = marks[x]
  BY <1>2 DEF BooksOK, HeldOK
<1>12. \A x, y \in Task : Edge(x, y) => Edge(x, y)'
  BY <1>2, <1>11 DEF Edge
<1>13. PICK D \in SUBSET Task : D = {} OBVIOUS
<1>14. Linked' /\ Grounded' BY <1>2, <1>5, <1>10, <1>12, <1>13, Shrinks
<1>15. BooksOK'
  <2>1. \A t \in Task : t \notin dir' => marks'[t] = {} BY <1>2, <1>11 DEF BooksOK
  <2>2. parent' \in [Task -> Owner] BY <1>2 DEF BooksOK, HeldOK, Owner
  <2>3. dir' \subseteq Task /\ excused' \subseteq Task BY <1>2 DEF BooksOK
  <2> QED BY <1>11, <2>1, <2>2, <2>3 DEF BooksOK, Owner
<1>16. HeldOK' BY <1>2 DEF HeldOK, Idle
<1> QED BY <1>9, <1>14, <1>15, <1>16

(* A crash loses the marker that was about to be written, if any. *)
LEMMA CrashChains ==
  ASSUME IInv, CInv, Crash
  PROVE  CInv'
<1> USE DEF CInv
<1>1. /\ UNCHANGED <<img, dir, marks, parent, arch>>
      /\ cl' = Idle /\ rb' = Idle /\ del' = Idle
      /\ excused' = IF cl.pc = "mark" THEN excused \cup {cl.dst} ELSE excused
  BY DEF Crash, files
<1>2. PICK D : D = IF cl.pc = "mark" THEN {cl.dst} ELSE {} OBVIOUS
<1>3. D \in SUBSET Task BY <1>2 DEF IInv, ClOK
<1>4. \A x, y \in Task : Edge(x, y) => Edge(x, y)' \/ y \in D
  BY <1>1, <1>2 DEF Edge, Idle
<1>5. \A x \in D, y \in Task : Edge(x, y) => y \in D BY <1>2 DEF Edge
<1>6. excused' = excused \cup D BY <1>1, <1>2
<1>7. ASSUME NEW p \in Kept' PROVE p \in Kept /\ p[1] \notin D
  BY <1>1, <1>6 DEF Kept, Paths
<1>8. FilesOK'
  <2>1. Image' = Image /\ Paths' = Paths /\ Base' = Base /\ None' = None
    BY DEF Image, Backs, Paths, Base, None, Live
  <2> QED BY <1>1, <2>1 DEF FilesOK
<1>9. Linked' /\ Grounded' BY <1>1, <1>3, <1>4, <1>5, <1>6, <1>7, Shrinks
<1>10. BooksOK' BY <1>1, <1>3, <1>6, BooksKept DEF BooksOK
<1>11. HeldOK'
  <2>1. Image' = Image BY DEF Image, Backs, Base, None, Live
  <2> QED BY <1>1, <2>1 DEF HeldOK, Idle, Owner, Slots
<1> QED BY <1>8, <1>9, <1>10, <1>11

LEMMA InitialChains == Init => CInv
<1> SUFFICES ASSUME Init PROVE CInv OBVIOUS
<1>1. img = [p \in {Base} |-> [data |-> 1, back |-> None]] BY DEF Init
<1>2. FilesOK BY <1>1, SnapshotsAssumption DEF FilesOK, Image, Backs
<1>3. BooksOK BY DEF Init, BooksOK, Owner
<1>4. HeldOK BY DEF Init, HeldOK, Idle
<1>5. Kept = {}
  <2>1. \A p \in Paths : p # Base
    <3>1. \A p \in Paths : p[1] \in Task BY PathParts
    <3> QED BY <3>1, SnapshotsAssumption DEF Base
  <2> QED BY <1>1, <2>1 DEF Kept
<1> QED BY <1>2, <1>3, <1>4, <1>5 DEF CInv, Linked, Grounded

(* Nobody who is being removed is taken off the excused. *)
LEMMA StepRemovedExcused ==
  ASSUME IInv, RemovedExcused, [Next]_vars
  PROVE  RemovedExcused'
<1>1. ASSUME UNCHANGED <<cl, del>>, excused \subseteq excused' PROVE RemovedExcused'
  BY <1>1 DEF RemovedExcused
<1>2. ASSUME NEW t \in Task, NEW spec, Launch(t, spec) \/ LaunchFails(t, spec) PROVE RemovedExcused'
  BY <1>1, <1>2 DEF Launch, LaunchFails
<1>3. ASSUME NEW t \in Task, NEW v, GuestWrite(t, v) PROVE RemovedExcused'
  BY <1>1, <1>3 DEF GuestWrite
<1>4. CASE \/ \E t \in Task, k \in Slot : SnapBegin(t, k) \/ DropBegin(t, k)
           \/ SnapState \/ SnapDisk \/ SnapMeta \/ DropPart \/ DropRemove
  BY <1>1, <1>4 DEF SnapBegin, DropBegin, SnapState, SnapDisk, SnapMeta, DropPart, DropRemove
<1>5. CASE \/ \E t \in Task, k \in Slot, force \in BOOLEAN : RollbackBegin(t, k, force)
           \/ RollbackConvert \/ RollbackRename \/ RollbackSave
  BY <1>1, <1>5 DEF RollbackBegin, RollbackConvert, RollbackRename, RollbackSave
<1>6. CASE (\E t \in Task : Export(t)) \/ Import \/ UNCHANGED vars
  BY <1>1, <1>6 DEF Export, Import, vars
<1>7. CASE Crash BY <1>7 DEF Crash, RemovedExcused, Idle
<1>8. CASE \/ \E s, d \in Task : CloneBegin(s, d)
           \/ CloneBranch \/ CloneMark \/ CloneParent \/ CloneSave
  <2>1. del' = del /\ excused \subseteq excused'
    BY <1>8 DEF CloneBegin, CloneBranch, CloneMark, CloneParent, CloneSave, CloneFails
  <2>2. cl'.pc = "undo" => cl'.dst \in excused'
    <3>1. CASE \E m : CloneFails(m)
      <4>1. cl' = [cl EXCEPT !.pc = "undo"] /\ cl.dst \in excused' BY <3>1 DEF CloneFails
      <4>2. cl.pc # "idle" BY <1>8, <3>1 DEF CloneBegin, CloneBranch, CloneMark, CloneParent,
                                             CloneSave, CloneFails
      <4>3. cl = [pc |-> cl.pc, src |-> cl.src, dst |-> cl.dst]
        BY <4>2 DEF IInv, ClOK
      <4> QED BY <4>1, <4>3
    <3>2. CASE ~\E m : CloneFails(m)
      <4>1. \/ \E s, d \in Task : CloneBegin(s, d)
            \/ cl' = Idle
            \/ cl.pc # "idle" /\ \E c \in {"mark", "save", "parent"} : cl' = [cl EXCEPT !.pc = c]
        BY <1>8, <3>2 DEF CloneBranch, CloneMark, CloneParent, CloneSave
      <4>2. CASE \E s, d \in Task : CloneBegin(s, d) BY <4>2 DEF CloneBegin
      <4>3. CASE cl' = Idle BY <4>3 DEF Idle
      <4>4. ASSUME NEW c \in {"mark", "save", "parent"}, cl.pc # "idle", cl' = [cl EXCEPT !.pc = c]
            PROVE  cl'.pc # "undo"
        BY <4>4 DEF IInv, ClOK
      <4> QED BY <4>1, <4>2, <4>3, <4>4
    <3> QED BY <3>1, <3>2
  <2> QED BY <2>1, <2>2 DEF RemovedExcused
<1>9. CASE CloneUndo
  <2>1. cl.pc = "undo" /\ del' = del BY <1>9 DEF CloneUndo
  <2>2. CASE UNCHANGED <<cl, excused>> BY <1>1, <2>1, <2>2
  <2>3. CASE cl' = Idle /\ excused' = excused BY <2>1, <2>3 DEF RemovedExcused, Idle
  <2>4. CASE cl' = Idle /\ excused' = IF del.pc = "remove" /\ del.t = cl.dst THEN excused
                                      ELSE excused \ {cl.dst}
    BY <2>1, <2>4 DEF RemovedExcused, Idle
  <2> QED BY <1>9, <2>2, <2>3, <2>4 DEF CloneUndo
<1>10. ASSUME NEW t \in Task, NEW locked, DeleteKill(t, locked) PROVE RemovedExcused'
  BY <1>10 DEF DeleteKill, RemovedExcused
<1>11. CASE DeleteGuard
  <2>1. cl' = cl /\ excused \subseteq excused' /\ del.pc = "guard" BY <1>11 DEF DeleteGuard
  <2>2. CASE del' = Idle BY <2>1, <2>2 DEF RemovedExcused, Idle
  <2>3. CASE del' # Idle
    <3>1. del' = [del EXCEPT !.pc = "remove"] /\ del.t \in excused'
      BY <1>11, <2>3 DEF DeleteGuard
    <3>2. del'.t = del.t BY <2>1, <3>1 DEF IInv, DelOK
    <3> QED BY <2>1, <3>1, <3>2 DEF RemovedExcused
  <2> QED BY <2>2, <2>3
<1>12. CASE DeletePart
  <2>1. cl' = cl /\ excused' = excused /\ (del' = del \/ del' = Idle) BY <1>12 DEF DeletePart
  <2> QED BY <2>1 DEF RemovedExcused, Idle
<1>13. CASE DeleteRemove
  <2>1. /\ cl' = cl /\ del' = Idle
        /\ excused' = IF cl.pc = "undo" /\ cl.dst = del.t THEN excused ELSE excused \ {del.t}
    BY <1>13 DEF DeleteRemove
  <2> QED BY <2>1 DEF RemovedExcused, Idle
<1>14. Done => UNCHANGED vars BY DEF Done
<1> QED
  BY <1>2, <1>3, <1>4, <1>5, <1>6, <1>7, <1>8, <1>9, <1>10, <1>11, <1>12, <1>13, <1>14
  DEF Next

LEMMA StepChains ==
  ASSUME IInv, CInv, RemovedExcused, [Next]_vars
  PROVE  CInv'
<1>1. ASSUME NEW t \in Task, NEW spec, Launch(t, spec) \/ LaunchFails(t, spec) PROVE CInv'
  BY <1>1, LaunchChains
<1>2. ASSUME NEW t \in Task, NEW v \in 2 .. MaxValue, GuestWrite(t, v) PROVE CInv'
  BY <1>2, GuestWriteChains
<1>3. CASE \/ \E t \in Task, k \in Slot : SnapBegin(t, k) \/ DropBegin(t, k)
           \/ SnapState \/ SnapMeta \/ DropPart \/ DropRemove
  BY <1>3, SnapChains
<1>4. CASE SnapDisk BY <1>4, SnapDiskChains
<1>5. CASE \/ \E s, d \in Task : CloneBegin(s, d)
           \/ CloneMark \/ CloneParent \/ CloneSave
  BY <1>5, CloneChains
<1>6. CASE CloneBranch \/ CloneUndo BY <1>6, CloneBranchChains, CloneUndoChains
<1>7. CASE \/ \E t \in Task, k \in Slot, force \in BOOLEAN : RollbackBegin(t, k, force)
           \/ RollbackConvert \/ RollbackRename \/ RollbackSave
  BY <1>7, RollbackChains
<1>8. CASE \/ \E t \in Task, locked \in BOOLEAN : DeleteKill(t, locked)
           \/ DeleteGuard \/ DeletePart \/ DeleteRemove
  BY <1>8, DeleteChains
<1>9. ASSUME NEW t \in Task, Export(t) PROVE CInv' BY <1>9, ExportChains
<1>10. CASE Import BY <1>10, ImportChains
<1>11. CASE Crash BY <1>11, CrashChains
<1>12. CASE UNCHANGED vars
  <2>1. UNCHANGED <<img, dir, marks, parent, cl, rb, del, arch, excused>>
    BY <1>12 DEF vars, files
  <2> QED BY <2>1, Idles DEF CInv, BooksOK
<1>13. Done => UNCHANGED vars BY DEF Done
<1> QED
  BY <1>1, <1>2, <1>3, <1>4, <1>5, <1>6, <1>7, <1>8, <1>9, <1>10, <1>11, <1>12, <1>13
  DEF Next

(***************************************************************************)
(* clone_refs.go and rollback.go: with any number of tasks, snapshots,     *)
(* clones of clones, rollbacks, deletions, restores, relaunches and        *)
(* crashes, the disk of a task and of every listed snapshot can be opened: *)
(* its chain has no missing file and no cycle, unless the chain goes       *)
(* through a task in one of the six ways the code gives one up.            *)
(***************************************************************************)
THEOREM ChainsHold == Spec => []ChainsResolve
<1>0. Init => RemovedExcused BY DEF Init, RemovedExcused, Idle
<1>1. Init => IInv /\ CInv /\ RemovedExcused BY <1>0, Initially, InitialChains
<1>2. IInv /\ CInv /\ RemovedExcused /\ [Next]_vars => (IInv /\ CInv /\ RemovedExcused)'
  BY StepKeeps, StepChains, StepRemovedExcused
<1> QED BY <1>1, <1>2, ChainsFollow, PTL DEF Spec
-----------------------------------------------------------------------------
(* Volumes.                                                                *)

Ends == {"absent", "flat", "torn"}
Given == raced \cup crossed

(* What a request under way may be at. *)
Fits(r) ==
  /\ r = [op |-> r.op, at |-> r.at, v |-> r.v, src |-> r.src]
  /\ \/ r = NoRequest
     \/ r.op = "post" /\ r.at \in {"create", "record", "undo", "remove"} /\ r.v \in Vols /\ r.src = "-"
     \/ r.op = "postother" /\ r.at = "record" /\ r.v \in Vols /\ r.src = "-"
     \/ r.op = "clone" /\ r.at \in {"stat", "branch", "unrecord"} /\ r.v \in Vols /\ r.src \in Vols
     \/ r.op = "snap" /\ r.at = "branch" /\ r.v \in Snaps /\ r.src \in Images
     \/ r.op = "delete" /\ r.at \in {"got", "remove", "forget"} /\ r.v \in Vols /\ r.src = "-"
     \/ r.op = "drop" /\ r.at = "remove" /\ r.v \in Snaps /\ r.src = "-"
     \/ r.op = "roll" /\ r.at = "convert" /\ r.v \in Vols /\ r.src \in Snaps

BlocksOK ==
  /\ back \in [Images -> Images \cup Ends] /\ \A s \in Snaps : back[s] # "flat"
  /\ rec \in [Vols -> {"none", "builtin", "other"}]
  /\ req = [k \in Handlers |-> req[k]] /\ \A k \in Handlers : Fits(req[k])
  /\ raced \subseteq Images /\ crossed \subseteq Images

(* A target that requests did not cross on has one request. *)
Alone ==
  \A k, o \in Handlers :
    req[k].v \in Images /\ req[k].v \notin crossed /\ req[o].v = req[k].v => o = k

(* What a request alone on its target relies on until it acts. *)
Owes(r) ==
  /\ r.op \in {"clone", "snap"} \/ r.at = "create" => back[r.v] = "absent"
  /\ r.op = "clone" /\ r.at # "unrecord" => rec[r.v] # "none"
  /\ r.op = "delete" /\ r.at = "forget" => back[r.v] = "absent"
  /\ r.op = "delete" /\ r.at # "forget" => rec[r.v] # "none"
  /\ r.op = "postother" => (back[r.v] # "absent" => rec[r.v] # "none")
  /\ r.op = "roll" => rec[r.v] # "none"

Owed == \A k \in Handlers : req[k].v \in Images /\ req[k].v \notin crossed => Owes(req[k])

(* A volume that no request works on has its record with its block. *)
Recorded ==
  \A v \in Vols : v \notin crossed /\ (\A k \in Handlers : req[k].v # v) =>
                    (back[v] # "absent" => rec[v] # "none")

BooksInv == BlocksOK /\ Alone /\ Owed /\ Recorded

LEMMA NamesOf ==
  ASSUME NamesApart
  PROVE  /\ Vols \subseteq Images /\ Snaps \subseteq Images /\ "-" \notin Images
         /\ Ends \cap Images = {} /\ "flat" \notin Images /\ "absent" \notin Images
         /\ \A v \in Vols : v \notin Snaps
BY DEF NamesApart, Images, Ends

(* What Goto and Begin make of the requests. *)
LEMMA Goes ==
  ASSUME BlocksOK, NEW k \in Handlers, NEW at, at # "idle", Goto(k, at)
  PROVE  /\ req' = [o \in Handlers |-> req'[o]] /\ \A o \in Handlers : o # k => req'[o] = req[o]
         /\ req'[k] = [op |-> req[k].op, at |-> at, v |-> req[k].v, src |-> req[k].src]
BY DEF BlocksOK, Goto, Fits

LEMMA Ended ==
  ASSUME BlocksOK, NEW k \in Handlers, Goto(k, "idle")
  PROVE  /\ req' = [o \in Handlers |-> req'[o]] /\ \A o \in Handlers : o # k => req'[o] = req[o]
         /\ req'[k] = NoRequest
BY DEF BlocksOK, Goto

LEMMA Begun ==
  ASSUME BlocksOK, NEW k \in Handlers, NEW op, NEW at, NEW v, NEW src, Begin(k, op, at, v, src)
  PROVE  /\ req' = [o \in Handlers |-> req'[o]] /\ \A o \in Handlers : o # k => req'[o] = req[o]
         /\ req[k] = NoRequest
         /\ req'[k] = [op |-> op, at |-> at, v |-> v, src |-> src]
         /\ crossed' = crossed \cup ({v} \cap {req[o].v : o \in Handlers})
BY DEF BlocksOK, Begin

(* A request begins: its record fits, and it relies on what holds when it  *)
(* is alone.                                                               *)
LEMMA BeginBooks ==
  ASSUME NamesApart, BooksInv, NEW k \in Handlers, NEW op, NEW at, NEW v \in Images, NEW src,
         Begin(k, op, at, v, src), UNCHANGED back,
         Fits([op |-> op, at |-> at, v |-> v, src |-> src]),
         raced' \subseteq Images,
         rec' \in [Vols -> {"none", "builtin", "other"}],
         \A w \in Vols : w # v => rec'[w] = rec[w],
         (v \in Vols => (back[v] # "absent" => rec[v] # "none")) =>
            Owes([op |-> op, at |-> at, v |-> v, src |-> src])'
  PROVE  BooksInv'
<1> DEFINE r == [op |-> op, at |-> at, v |-> v, src |-> src]
<1>1. /\ req' = [o \in Handlers |-> req'[o]] /\ \A o \in Handlers : o # k => req'[o] = req[o]
      /\ req[k] = NoRequest /\ req'[k] = r
      /\ crossed' = crossed \cup ({v} \cap {req[o].v : o \in Handlers})
  BY Begun DEF BooksInv
<1>2. r.v = v OBVIOUS
<1>3. NoRequest.v = "-" BY DEF NoRequest
<1>4. \A o \in Handlers : Fits(req'[o]) BY <1>1 DEF BooksInv, BlocksOK
<1>5. ASSUME NEW o \in Handlers, req[o].v = v PROVE v \in crossed' BY <1>1, <1>5
<1> HIDE DEF r
<1>6. BlocksOK'
  <2>1. crossed' \subseteq Images BY <1>1 DEF BooksInv, BlocksOK
  <2>2. Images' = Images BY DEF Images
  <2>3. \A o \in Handlers : Fits(req[o])' BY <1>4 DEF Fits, Images, NoRequest
  <2> QED BY <1>1, <2>1, <2>2, <2>3 DEF BooksInv, BlocksOK
<1>7. Alone'
  <2> SUFFICES ASSUME NEW a \in Handlers, NEW b \in Handlers, req'[a].v \in Images,
                      req'[a].v \notin crossed', req'[b].v = req'[a].v
               PROVE  b = a
    BY DEF Alone, Images
  <2>1. CASE a = k BY <1>1, <1>2, <1>5, <2>1
  <2>2. CASE b = k BY <1>1, <1>2, <1>5, <2>2
  <2>3. CASE a # k /\ b # k BY <1>1, <2>3 DEF BooksInv, Alone
  <2> QED BY <2>1, <2>2, <2>3
<1>8. Owed'
  <2> SUFFICES ASSUME NEW a \in Handlers, req'[a].v \in Images, req'[a].v \notin crossed'
               PROVE  Owes(req[a])'
    BY DEF Owed, Images
  <2>1. CASE a = k
    <3>1. \A o \in Handlers : req[o].v # v BY <1>1, <1>2, <1>5, <2>1
    <3>2. v \in Vols => (back[v] # "absent" => rec[v] # "none")
      BY <1>1, <1>2, <2>1, <3>1 DEF BooksInv, Recorded
    <3> QED BY <1>1, <2>1, <3>2 DEF r, Owes
  <2>2. CASE a # k
    <3>1. req'[a] = req[a] /\ req[a].v # v BY <1>1, <1>5, <2>2
    <3>2. Owes(req[a]) BY <1>1, <3>1 DEF BooksInv, Owed
    <3>3. req[a].op \in {"clone", "delete", "postother", "roll"} => req[a].v \in Vols
      BY DEF BooksInv, BlocksOK, Fits, NoRequest
    <3> QED BY <3>1, <3>2, <3>3 DEF Owes
  <2> QED BY <2>1, <2>2
<1>9. Recorded'
  <2> SUFFICES ASSUME NEW w \in Vols, w \notin crossed', \A o \in Handlers : req'[o].v # w,
                      back[w] # "absent"
               PROVE  rec'[w] # "none"
    BY DEF Recorded
  <2>1. w # v BY <1>1, <1>2
  <2>2. \A o \in Handlers : req[o].v # w BY <1>1, <1>3, NamesOf
  <2> QED BY <1>1, <2>1, <2>2 DEF BooksInv, Recorded
<1> QED BY <1>6, <1>7, <1>8, <1>9 DEF BooksInv

(* A request acts: on its own target, and when it is alone there it leaves *)
(* what it will rely on, or a block with its record.                       *)
LEMMA ActBooks ==
  ASSUME NamesApart, BooksInv, NEW k \in Handlers, req[k] # NoRequest,
         req' = [o \in Handlers |-> req'[o]], \A o \in Handlers : o # k => req'[o] = req[o],
         req'[k] = NoRequest \/ req'[k].v = req[k].v, Fits(req'[k]),
         back' \in [Images -> Images \cup Ends], \A s \in Snaps : back'[s] # "flat",
         \A i \in Images : i # req[k].v => back'[i] = back[i],
         rec' \in [Vols -> {"none", "builtin", "other"}],
         \A v \in Vols : v # req[k].v => rec'[v] = rec[v],
         raced' \subseteq Images, crossed \subseteq crossed', crossed' \subseteq Images,
         req[k].v \notin crossed' =>
            /\ req'[k] = NoRequest /\ req[k].v \in Vols =>
                 (back'[req[k].v] # "absent" => rec'[req[k].v] # "none")
            /\ req'[k] # NoRequest => Owes(req[k])'
  PROVE  BooksInv'
<1>1. NoRequest.v = "-" BY DEF NoRequest
<1>2. \A o \in Handlers : Fits(req'[o]) BY DEF BooksInv, BlocksOK
<1>3. BlocksOK'
  <2>1. Images' = Images BY DEF Images
  <2>2. \A o \in Handlers : Fits(req[o])' BY <1>2 DEF Fits, Images, NoRequest
  <2> QED BY <2>1, <2>2 DEF BooksInv, BlocksOK, Ends
<1>4. req[k].v \in Images BY NamesOf DEF BooksInv, BlocksOK, Fits
<1>5. ASSUME NEW o \in Handlers, req[k].v \notin crossed', req[o].v = req[k].v PROVE o = k
  BY <1>4, <1>5 DEF BooksInv, Alone
<1>6. Alone'
  <2> SUFFICES ASSUME NEW a \in Handlers, NEW b \in Handlers, req'[a].v \in Images,
                      req'[a].v \notin crossed', req'[b].v = req'[a].v
               PROVE  b = a
    BY DEF Alone, Images
  <2>1. req'[k].v \in Images => req'[k].v = req[k].v BY <1>1, NamesOf
  <2>2. req[a].v = req'[a].v /\ req[b].v = req'[b].v BY <2>1
  <2> QED BY <2>2 DEF BooksInv, Alone
<1>7. Owed'
  <2> SUFFICES ASSUME NEW a \in Handlers, req'[a].v \in Images, req'[a].v \notin crossed'
               PROVE  Owes(req[a])'
    BY DEF Owed, Images
  <2>1. CASE a = k BY <1>1, <2>1, NamesOf
  <2>2. CASE a # k
    <3>1. req'[a] = req[a] /\ req[a].v # req[k].v BY <1>5, <2>2
    <3>2. Owes(req[a]) BY <3>1 DEF BooksInv, Owed
    <3>3. req[a].op \in {"clone", "delete", "postother", "roll"} => req[a].v \in Vols
      BY DEF BooksInv, BlocksOK, Fits, NoRequest
    <3> QED BY <3>1, <3>2, <3>3 DEF Owes
  <2> QED BY <2>1, <2>2
<1>8. Recorded'
  <2> SUFFICES ASSUME NEW w \in Vols, w \notin crossed', \A o \in Handlers : req'[o].v # w,
                      back'[w] # "absent"
               PROVE  rec'[w] # "none"
    BY DEF Recorded
  <2>1. CASE w = req[k].v BY <2>1
  <2>2. CASE w # req[k].v
    <3>1. \A o \in Handlers : req[o].v # w BY <2>2
    <3>2. w \in Images BY NamesOf
    <3> QED BY <2>2, <3>1, <3>2 DEF BooksInv, Recorded
  <2> QED BY <2>1, <2>2
<1> QED BY <1>3, <1>6, <1>7, <1>8 DEF BooksInv

(* The request k is alone on its target unless requests crossed there. *)
LEMMA Relies ==
  ASSUME NamesApart, BooksInv, NEW k \in Handlers, req[k] # NoRequest
  PROVE  /\ req[k].v \in Images
         /\ req[k].v \notin crossed => Owes(req[k])
<1>1. req[k].v \in Images BY NamesOf DEF BooksInv, BlocksOK, Fits
<1> QED BY <1>1 DEF BooksInv, Owed

LEMMA CreateBlockBooks ==
  ASSUME NamesApart, BooksInv, NEW k \in Handlers, CreateBlock(k)
  PROVE  BooksInv'
<1>1. req[k].op = "post" /\ req[k].v \in Vols /\ req[k] # NoRequest /\ req[k].src = "-"
  BY DEF BooksInv, BlocksOK, Fits, CreateBlock, NoRequest
<1>2. /\ req' = [o \in Handlers |-> req'[o]] /\ \A o \in Handlers : o # k => req'[o] = req[o]
      /\ req'[k] = [op |-> "post", at |-> "record", v |-> req[k].v, src |-> "-"]
  BY <1>1, Goes DEF BooksInv, CreateBlock
<1>3. Fits(req'[k]) BY <1>1, <1>2 DEF Fits
<1>4. /\ back' \in [Images -> Images \cup Ends] /\ \A s \in Snaps : back'[s] # "flat"
      /\ \A i \in Images : i # req[k].v => back'[i] = back[i]
  BY <1>1, NamesOf DEF BooksInv, BlocksOK, CreateBlock, Ends
<1>5. UNCHANGED <<rec, raced, crossed>> BY DEF CreateBlock
<1>6. Owes(req[k])' /\ req'[k].v = req[k].v /\ req'[k] # NoRequest BY <1>2 DEF Owes, NoRequest
<1>7. /\ rec \in [Vols -> {"none", "builtin", "other"}]
      /\ raced \subseteq Images /\ crossed \subseteq Images
  BY DEF BooksInv, BlocksOK
<1> QED BY <1>1, <1>2, <1>3, <1>4, <1>5, <1>6, <1>7, ActBooks

LEMMA RecordBooks ==
  ASSUME NamesApart, BooksInv, NEW k \in Handlers, Record(k)
  PROVE  BooksInv'
<1>1. /\ req[k].op \in {"post", "postother"} /\ req[k].v \in Vols /\ req[k] # NoRequest /\ req[k].src = "-"
  BY DEF BooksInv, BlocksOK, Fits, Record, NoRequest
<1>2. /\ UNCHANGED <<back, raced, crossed>>
      /\ rec' \in [Vols -> {"none", "builtin", "other"}]
      /\ \A v \in Vols : v # req[k].v => rec'[v] = rec[v]
  BY <1>1 DEF BooksInv, BlocksOK, Record
<1>3. /\ back \in [Images -> Images \cup Ends] /\ \A s \in Snaps : back[s] # "flat"
      /\ raced \subseteq Images /\ crossed \subseteq Images
  BY DEF BooksInv, BlocksOK
<1>4. Fits(NoRequest) BY DEF Fits, NoRequest
<1>5. CASE rec[req[k].v] = "none" /\ Goto(k, "idle") /\ rec' = [rec EXCEPT ![req[k].v] =
                IF req[k].op = "post" THEN "builtin" ELSE "other"]
  <2>1. /\ req' = [o \in Handlers |-> req'[o]] /\ \A o \in Handlers : o # k => req'[o] = req[o]
        /\ req'[k] = NoRequest
    BY <1>5, Ended DEF BooksInv
  <2>2. rec'[req[k].v] # "none" BY <1>1, <1>5 DEF BooksInv, BlocksOK
  <2> QED BY <1>1, <1>2, <1>3, <1>4, <2>1, <2>2, ActBooks
<1>6. CASE RecordFails(k) /\ UNCHANGED rec
  <2>1. CASE req[k].op = "post"
    <3>1. /\ req' = [o \in Handlers |-> req'[o]] /\ \A o \in Handlers : o # k => req'[o] = req[o]
          /\ req'[k] = [op |-> "post", at |-> "undo", v |-> req[k].v, src |-> "-"]
      BY <1>1, <1>6, <2>1, Goes DEF BooksInv, RecordFails
    <3>2. Fits(req'[k]) BY <1>1, <3>1 DEF Fits
    <3>3. Owes(req[k])' /\ req'[k].v = req[k].v /\ req'[k] # NoRequest BY <3>1 DEF Owes, NoRequest
    <3> QED BY <1>1, <1>2, <1>3, <3>1, <3>2, <3>3, ActBooks
  <2>2. CASE req[k].op = "postother"
    <3>1. /\ req' = [o \in Handlers |-> req'[o]] /\ \A o \in Handlers : o # k => req'[o] = req[o]
          /\ req'[k] = NoRequest
      BY <1>6, <2>2, Ended DEF BooksInv, RecordFails
    <3>2. req[k].v \notin crossed => Owes(req[k]) BY <1>1, Relies
    <3>3. req[k].v \notin crossed => (back[req[k].v] # "absent" => rec[req[k].v] # "none")
      BY <2>2, <3>2 DEF Owes
    <3> QED BY <1>1, <1>2, <1>3, <1>4, <1>6, <3>1, <3>3, ActBooks
  <2> QED BY <1>1, <2>1, <2>2
<1> QED BY <1>5, <1>6 DEF Record

LEMMA UndoBooks ==
  ASSUME NamesApart, BooksInv, NEW k \in Handlers, Undo(k)
  PROVE  BooksInv'
<1>1. req[k].op = "post" /\ req[k].v \in Vols /\ req[k] # NoRequest /\ req[k].src = "-" /\ req[k].v \in Images
  BY NamesOf DEF BooksInv, BlocksOK, Fits, Undo, NoRequest
<1>2. UNCHANGED <<back, rec>> BY DEF Undo
<1>3. /\ back \in [Images -> Images \cup Ends] /\ \A s \in Snaps : back[s] # "flat"
      /\ raced \subseteq Images /\ crossed \subseteq Images
      /\ rec \in [Vols -> {"none", "builtin", "other"}]
  BY DEF BooksInv, BlocksOK
<1>4. raced' \subseteq Images /\ crossed \subseteq crossed' /\ crossed' \subseteq Images
  BY <1>1, <1>3 DEF Undo, Skipped
<1>5. Fits(NoRequest) BY DEF Fits, NoRequest
<1>6. CASE Exists(req[k].v) /\ ~hasBackingReference(req[k].v)
  <2>1. Goto(k, "remove") BY <1>6 DEF Undo
  <2>2. /\ req' = [o \in Handlers |-> req'[o]] /\ \A o \in Handlers : o # k => req'[o] = req[o]
        /\ req'[k] = [op |-> "post", at |-> "remove", v |-> req[k].v, src |-> "-"]
    BY <1>1, <2>1, Goes DEF BooksInv
  <2>3. Fits(req'[k]) BY <1>1, <2>2 DEF Fits
  <2>4. Owes(req[k])' /\ req'[k].v = req[k].v /\ req'[k] # NoRequest BY <2>2 DEF Owes, NoRequest
  <2> QED BY <1>1, <1>2, <1>3, <1>4, <2>2, <2>3, <2>4, ActBooks
<1>7. CASE ~(Exists(req[k].v) /\ ~hasBackingReference(req[k].v))
  <2>1. Goto(k, "idle") BY <1>7 DEF Undo
  <2>2. /\ req' = [o \in Handlers |-> req'[o]] /\ \A o \in Handlers : o # k => req'[o] = req[o]
        /\ req'[k] = NoRequest
    BY <2>1, Ended DEF BooksInv
  <2>3. req[k].v \notin crossed' => back[req[k].v] = "absent"
    BY <1>7 DEF Undo, Exists
  <2> QED BY <1>1, <1>2, <1>3, <1>4, <1>5, <2>2, <2>3, ActBooks
<1> QED BY <1>6, <1>7

(* The requests that begin. *)
LEMMA BeginsBooks ==
  ASSUME NamesApart, BooksInv, NEW k \in Handlers,
         \/ \E v \in Vols : PostBlock(k, v) \/ PostOther(k, v) \/ DeleteGet(k, v)
         \/ \E v, src \in Vols : CloneRecord(k, src, v)
         \/ \E s \in Snaps : DropCheck(k, s) \/ \E src \in Images : SnapCheck(k, src, s)
         \/ \E v \in Vols, s \in Snaps : RollbackCheck(k, v, s)
  PROVE  BooksInv'
<1>1. /\ back \in [Images -> Images \cup Ends] /\ raced \subseteq Images
      /\ rec \in [Vols -> {"none", "builtin", "other"}]
  BY DEF BooksInv, BlocksOK
<1>2. ASSUME NEW v \in Vols, PostBlock(k, v) PROVE BooksInv'
  <2>1. Fits([op |-> "post", at |-> "create", v |-> v, src |-> "-"]) BY DEF Fits
  <2>2. Owes([op |-> "post", at |-> "create", v |-> v, src |-> "-"])'
    BY <1>2 DEF Owes, PostBlock, Exists
  <2> QED BY <1>1, <1>2, <2>1, <2>2, NamesOf, BeginBooks DEF PostBlock
<1>3. ASSUME NEW v \in Vols, PostOther(k, v) PROVE BooksInv'
  <2>1. Fits([op |-> "postother", at |-> "record", v |-> v, src |-> "-"]) BY DEF Fits
  <2>2. (back[v] # "absent" => rec[v] # "none") =>
          Owes([op |-> "postother", at |-> "record", v |-> v, src |-> "-"])'
    BY <1>3 DEF Owes, PostOther
  <2> QED BY <1>1, <1>3, <2>1, <2>2, NamesOf, BeginBooks DEF PostOther
<1>4. ASSUME NEW v \in Vols, DeleteGet(k, v) PROVE BooksInv'
  <2>1. Fits([op |-> "delete", at |-> "got", v |-> v, src |-> "-"]) BY DEF Fits
  <2>2. Owes([op |-> "delete", at |-> "got", v |-> v, src |-> "-"])'
    BY <1>4 DEF Owes, DeleteGet
  <2> QED BY <1>1, <1>4, <2>1, <2>2, NamesOf, BeginBooks DEF DeleteGet
<1>5. ASSUME NEW v \in Vols, NEW src \in Vols, CloneRecord(k, src, v) PROVE BooksInv'
  <2>1. Fits([op |-> "clone", at |-> "stat", v |-> v, src |-> src]) BY DEF Fits
  <2>2. rec' = [rec EXCEPT ![v] = rec[src]] /\ rec[src] # "none" /\ rec[v] = "none" /\ UNCHANGED back
    BY <1>5 DEF CloneRecord
  <2>3. rec'[v] # "none" /\ rec' \in [Vols -> {"none", "builtin", "other"}]
        /\ \A w \in Vols : w # v => rec'[w] = rec[w]
    BY <1>1, <2>2
  <2>4. (back[v] # "absent" => rec[v] # "none") =>
          Owes([op |-> "clone", at |-> "stat", v |-> v, src |-> src])'
    BY <2>2, <2>3 DEF Owes
  <2> QED BY <1>1, <1>5, <2>1, <2>3, <2>4, NamesOf, BeginBooks DEF CloneRecord
<1>6. ASSUME NEW s \in Snaps, DropCheck(k, s) PROVE BooksInv'
  <2>1. Fits([op |-> "drop", at |-> "remove", v |-> s, src |-> "-"]) BY DEF Fits
  <2>2. Owes([op |-> "drop", at |-> "remove", v |-> s, src |-> "-"])' BY DEF Owes
  <2>3. raced' \subseteq Images BY <1>1, <1>6 DEF DropCheck, Skipped
  <2> QED BY <1>1, <1>6, <2>1, <2>2, <2>3, NamesOf, BeginBooks DEF DropCheck
<1>7. ASSUME NEW s \in Snaps, NEW src \in Images, SnapCheck(k, src, s) PROVE BooksInv'
  <2>1. Fits([op |-> "snap", at |-> "branch", v |-> s, src |-> src]) BY <1>7 DEF Fits
  <2>2. Owes([op |-> "snap", at |-> "branch", v |-> s, src |-> src])'
    BY <1>7 DEF Owes, SnapCheck, Exists
  <2> QED BY <1>1, <1>7, <2>1, <2>2, NamesOf, BeginBooks DEF SnapCheck
<1>8. ASSUME NEW v \in Vols, NEW s \in Snaps, RollbackCheck(k, v, s) PROVE BooksInv'
  <2>1. Fits([op |-> "roll", at |-> "convert", v |-> v, src |-> s]) BY DEF Fits
  <2>2. (back[v] # "absent" => rec[v] # "none") =>
          Owes([op |-> "roll", at |-> "convert", v |-> v, src |-> s])'
    BY <1>8 DEF Owes, RollbackCheck, Exists
  <2> QED BY <1>1, <1>8, <2>1, <2>2, NamesOf, BeginBooks DEF RollbackCheck
<1> QED BY <1>2, <1>3, <1>4, <1>5, <1>6, <1>7, <1>8

LEMMA CloneCheckBooks ==
  ASSUME NamesApart, BooksInv, NEW k \in Handlers, CloneCheck(k)
  PROVE  BooksInv'
<1>1. /\ req[k].op = "clone" /\ req[k].at = "stat" /\ req[k].v \in Vols /\ req[k] # NoRequest
      /\ req[k].src \in Vols /\ req[k].v \in Images
  BY NamesOf DEF BooksInv, BlocksOK, Fits, CloneCheck, NoRequest
<1>2. UNCHANGED <<back, rec, raced, crossed>> BY DEF CloneCheck
<1>3. /\ back \in [Images -> Images \cup Ends] /\ \A s \in Snaps : back[s] # "flat"
      /\ raced \subseteq Images /\ crossed \subseteq Images
      /\ rec \in [Vols -> {"none", "builtin", "other"}]
  BY DEF BooksInv, BlocksOK
<1>4. PICK at \in {"branch", "unrecord"} : Goto(k, at) BY DEF CloneCheck
<1>5. /\ req' = [o \in Handlers |-> req'[o]] /\ \A o \in Handlers : o # k => req'[o] = req[o]
      /\ req'[k] = [op |-> "clone", at |-> at, v |-> req[k].v, src |-> req[k].src]
  BY <1>1, <1>4, Goes DEF BooksInv
<1>6. Fits(req'[k]) /\ req'[k].v = req[k].v /\ req'[k] # NoRequest BY <1>1, <1>4, <1>5 DEF Fits, NoRequest
<1>7. req[k].v \notin crossed => Owes(req[k]) BY <1>1, Relies
<1>8. req[k].v \notin crossed => Owes(req[k])' BY <1>1, <1>2, <1>4, <1>5, <1>7 DEF Owes
<1> QED BY <1>1, <1>2, <1>3, <1>5, <1>6, <1>8, ActBooks

LEMMA UnrecordBooks ==
  ASSUME NamesApart, BooksInv, NEW k \in Handlers, Unrecord(k) \/ Forget(k)
  PROVE  BooksInv'
<1>1. /\ req[k].v \in Vols /\ req[k] # NoRequest
      /\ req[k].op = "clone" \/ (req[k].op = "delete" /\ req[k].at = "forget")
  BY DEF BooksInv, BlocksOK, Fits, Unrecord, Forget, NoRequest
<1>2. /\ UNCHANGED <<back, raced, crossed>> /\ Goto(k, "idle")
      /\ rec' = [rec EXCEPT ![req[k].v] = "none"]
  BY DEF Unrecord, Forget
<1>3. /\ back \in [Images -> Images \cup Ends] /\ \A s \in Snaps : back[s] # "flat"
      /\ raced \subseteq Images /\ crossed \subseteq Images
      /\ rec \in [Vols -> {"none", "builtin", "other"}]
  BY DEF BooksInv, BlocksOK
<1>4. /\ req' = [o \in Handlers |-> req'[o]] /\ \A o \in Handlers : o # k => req'[o] = req[o]
      /\ req'[k] = NoRequest
  BY <1>2, Ended DEF BooksInv
<1>5. /\ rec' \in [Vols -> {"none", "builtin", "other"}]
      /\ \A v \in Vols : v # req[k].v => rec'[v] = rec[v]
  BY <1>2, <1>3
<1>6. req[k].v \notin crossed => Owes(req[k]) BY <1>1, Relies
<1>7. req[k].v \notin crossed => back[req[k].v] = "absent" BY <1>1, <1>6 DEF Owes
<1>8. Fits(NoRequest) BY DEF Fits, NoRequest
<1> QED BY <1>1, <1>2, <1>3, <1>4, <1>5, <1>7, <1>8, ActBooks

LEMMA BranchBooks ==
  ASSUME NamesApart, BooksInv, NEW k \in Handlers, Branch(k)
  PROVE  BooksInv'
<1>1. /\ req[k].op \in {"clone", "snap"} /\ req[k] # NoRequest /\ req[k].at = "branch"
      /\ req[k].v \in Images /\ req[k].src \in Images
      /\ req[k].op = "clone" => req[k].v \in Vols /\ req[k].src \in Vols
      /\ req[k].op = "snap" => req[k].v \in Snaps
  BY NamesOf DEF BooksInv, BlocksOK, Fits, Branch, NoRequest
<1>2. UNCHANGED <<rec, crossed>> BY DEF Branch
<1>3. /\ back \in [Images -> Images \cup Ends] /\ \A s \in Snaps : back[s] # "flat"
      /\ raced \subseteq Images /\ crossed \subseteq Images
      /\ rec \in [Vols -> {"none", "builtin", "other"}]
  BY DEF BooksInv, BlocksOK
<1>4. /\ raced' \subseteq Images
      /\ \/ back' = back
         \/ back' = [back EXCEPT ![req[k].v] = req[k].src]
         \/ back' = [back EXCEPT ![req[k].v] = "absent"]
  BY <1>1, <1>3 DEF Branch
<1>5. req[k].v \notin crossed => Owes(req[k]) BY <1>1, Relies
<1>6. /\ req[k].v \notin crossed => back[req[k].v] = "absent"
      /\ req[k].v \notin crossed /\ req[k].op = "clone" => rec[req[k].v] # "none"
  BY <1>1, <1>5 DEF Owes
<1>7. /\ back' \in [Images -> Images \cup Ends] /\ \A s \in Snaps : back'[s] # "flat"
      /\ \A i \in Images : i # req[k].v => back'[i] = back[i]
  BY <1>1, <1>3, <1>4, NamesOf DEF Ends
<1>8. Fits(NoRequest) BY DEF Fits, NoRequest
<1>9. CASE Goto(k, "idle")
  <2>1. /\ req' = [o \in Handlers |-> req'[o]] /\ \A o \in Handlers : o # k => req'[o] = req[o]
        /\ req'[k] = NoRequest
    BY <1>9, Ended DEF BooksInv
  <2>2. req[k].v \notin crossed /\ req[k].v \in Vols => rec[req[k].v] # "none"
    BY <1>1, <1>6, NamesOf
  <2> QED BY <1>1, <1>2, <1>3, <1>4, <1>7, <1>8, <2>1, <2>2, ActBooks
<1>10. CASE req[k].op = "clone" /\ Goto(k, "unrecord") /\
              (back' = back \/ back' = [back EXCEPT ![req[k].v] = "absent"])
  <2>1. /\ req' = [o \in Handlers |-> req'[o]] /\ \A o \in Handlers : o # k => req'[o] = req[o]
        /\ req'[k] = [op |-> "clone", at |-> "unrecord", v |-> req[k].v, src |-> req[k].src]
    BY <1>10, Goes DEF BooksInv
  <2>2. Fits(req'[k]) /\ req'[k].v = req[k].v /\ req'[k] # NoRequest BY <1>1, <1>10, <2>1 DEF Fits, NoRequest
  <2>3. req[k].v \notin crossed => back'[req[k].v] = "absent" BY <1>1, <1>3, <1>6, <1>10
  <2>4. req[k].v \notin crossed => Owes(req[k])' BY <2>1, <2>3 DEF Owes
  <2> QED BY <1>1, <1>2, <1>3, <1>4, <1>7, <2>1, <2>2, <2>4, ActBooks
<1> QED BY <1>1, <1>9, <1>10 DEF Branch

LEMMA DeleteCheckBooks ==
  ASSUME NamesApart, BooksInv, NEW k \in Handlers, DeleteCheck(k)
  PROVE  BooksInv'
<1>1. /\ req[k].op = "delete" /\ req[k].at = "got" /\ req[k].v \in Vols /\ req[k] # NoRequest
      /\ req[k].src = "-" /\ req[k].v \in Images
  BY NamesOf DEF BooksInv, BlocksOK, Fits, DeleteCheck, NoRequest
<1>2. UNCHANGED <<back, rec, crossed>> BY DEF DeleteCheck
<1>3. /\ back \in [Images -> Images \cup Ends] /\ \A s \in Snaps : back[s] # "flat"
      /\ raced \subseteq Images /\ crossed \subseteq Images
      /\ rec \in [Vols -> {"none", "builtin", "other"}]
  BY DEF BooksInv, BlocksOK
<1>4. raced' \subseteq Images BY <1>3 DEF DeleteCheck, Skipped
<1>5. req[k].v \notin crossed => Owes(req[k]) BY <1>1, Relies
<1>6. req[k].v \notin crossed => rec[req[k].v] # "none" BY <1>1, <1>5 DEF Owes
<1>7. CASE Goto(k, "idle")
  <2>1. /\ req' = [o \in Handlers |-> req'[o]] /\ \A o \in Handlers : o # k => req'[o] = req[o]
        /\ req'[k] = NoRequest
    BY <1>7, Ended DEF BooksInv
  <2>2. Fits(NoRequest) BY DEF Fits, NoRequest
  <2> QED BY <1>1, <1>2, <1>3, <1>4, <1>6, <2>1, <2>2, ActBooks
<1>8. ASSUME NEW at \in {"remove", "forget"}, Goto(k, at), at = "forget" => back[req[k].v] = "absent"
      PROVE  BooksInv'
  <2>1. /\ req' = [o \in Handlers |-> req'[o]] /\ \A o \in Handlers : o # k => req'[o] = req[o]
        /\ req'[k] = [op |-> "delete", at |-> at, v |-> req[k].v, src |-> "-"]
    BY <1>1, <1>8, Goes DEF BooksInv
  <2>2. Fits(req'[k]) /\ req'[k].v = req[k].v /\ req'[k] # NoRequest BY <1>1, <1>8, <2>1 DEF Fits, NoRequest
  <2>3. req[k].v \notin crossed => Owes(req[k])' BY <1>2, <1>6, <1>8, <2>1 DEF Owes
  <2> QED BY <1>1, <1>2, <1>3, <1>4, <2>1, <2>2, <2>3, ActBooks
<1> QED BY <1>7, <1>8 DEF DeleteCheck, Exists

LEMMA RemoveBooks ==
  ASSUME NamesApart, BooksInv, NEW k \in Handlers, Remove(k)
  PROVE  BooksInv'
<1>1. /\ req[k].op \in {"post", "delete", "drop"} /\ req[k].at = "remove" /\ req[k] # NoRequest
      /\ req[k].src = "-" /\ req[k].v \in Images
      /\ req[k].op = "delete" => req[k].v \in Vols
  BY NamesOf DEF BooksInv, BlocksOK, Fits, Remove, NoRequest
<1>2. UNCHANGED <<rec, raced, crossed>> /\ back' = [back EXCEPT ![req[k].v] = "absent"]
  BY DEF Remove
<1>3. /\ back \in [Images -> Images \cup Ends] /\ \A s \in Snaps : back[s] # "flat"
      /\ raced \subseteq Images /\ crossed \subseteq Images
      /\ rec \in [Vols -> {"none", "builtin", "other"}]
  BY DEF BooksInv, BlocksOK
<1>4. /\ back' \in [Images -> Images \cup Ends] /\ \A s \in Snaps : back'[s] # "flat"
      /\ \A i \in Images : i # req[k].v => back'[i] = back[i]
      /\ back'[req[k].v] = "absent"
  BY <1>1, <1>2, <1>3, NamesOf DEF Ends
<1>5. CASE Goto(k, "idle")
  <2>1. /\ req' = [o \in Handlers |-> req'[o]] /\ \A o \in Handlers : o # k => req'[o] = req[o]
        /\ req'[k] = NoRequest
    BY <1>5, Ended DEF BooksInv
  <2>2. Fits(NoRequest) BY DEF Fits, NoRequest
  <2> QED BY <1>1, <1>2, <1>3, <1>4, <2>1, <2>2, ActBooks
<1>6. CASE req[k].op = "delete" /\ Goto(k, "forget")
  <2>1. /\ req' = [o \in Handlers |-> req'[o]] /\ \A o \in Handlers : o # k => req'[o] = req[o]
        /\ req'[k] = [op |-> "delete", at |-> "forget", v |-> req[k].v, src |-> "-"]
    BY <1>1, <1>6, Goes DEF BooksInv
  <2>2. Fits(req'[k]) /\ req'[k].v = req[k].v /\ req'[k] # NoRequest BY <1>1, <1>6, <2>1 DEF Fits, NoRequest
  <2>3. Owes(req[k])' BY <1>4, <2>1 DEF Owes
  <2> QED BY <1>1, <1>2, <1>3, <1>4, <2>1, <2>2, <2>3, ActBooks
<1> QED BY <1>5, <1>6 DEF Remove

LEMMA ConvertBooks ==
  ASSUME NamesApart, BooksInv, NEW k \in Handlers, Convert(k)
  PROVE  BooksInv'
<1>1. req[k].op = "roll" /\ req[k].v \in Vols /\ req[k] # NoRequest /\ req[k].v \in Images
  BY NamesOf DEF BooksInv, BlocksOK, Fits, Convert, NoRequest
<1>2. /\ UNCHANGED <<rec, raced, crossed>> /\ Goto(k, "idle")
      /\ back' = back \/ back' = [back EXCEPT ![req[k].v] = "flat"]
  BY DEF Convert
<1>3. /\ back \in [Images -> Images \cup Ends] /\ \A s \in Snaps : back[s] # "flat"
      /\ raced \subseteq Images /\ crossed \subseteq Images
      /\ rec \in [Vols -> {"none", "builtin", "other"}]
  BY DEF BooksInv, BlocksOK
<1>4. /\ back' \in [Images -> Images \cup Ends] /\ \A s \in Snaps : back'[s] # "flat"
      /\ \A i \in Images : i # req[k].v => back'[i] = back[i]
  BY <1>1, <1>2, <1>3, NamesOf DEF Ends
<1>5. /\ req' = [o \in Handlers |-> req'[o]] /\ \A o \in Handlers : o # k => req'[o] = req[o]
      /\ req'[k] = NoRequest
  BY <1>2, Ended DEF BooksInv
<1>6. req[k].v \notin crossed => Owes(req[k]) BY <1>1, Relies
<1>7. req[k].v \notin crossed => rec[req[k].v] # "none" BY <1>1, <1>6 DEF Owes
<1>8. Fits(NoRequest) BY DEF Fits, NoRequest
<1> QED BY <1>1, <1>2, <1>3, <1>4, <1>5, <1>7, <1>8, ActBooks

(* Steps that fail: what is left of an image without its record, or may    *)
(* be, is on a target that counts as crossed from then on.                 *)
LEMMA FailBooks ==
  ASSUME NamesApart, BooksInv, NEW k \in Handlers, CreateFails(k) \/ StepFails(k)
  PROVE  BooksInv'
<1>1. /\ req[k] # NoRequest /\ req[k].v \in Images /\ req[k].op \in {"post", "clone", "delete", "drop", "roll"}
      /\ req[k].op = "post" => req[k].v \in Vols
      /\ req[k].op = "clone" => req[k].at = "unrecord"
      /\ req[k].op = "drop" => req[k].v \in Snaps
      /\ CreateFails(k) => req[k].op = "post"
  BY NamesOf DEF BooksInv, BlocksOK, Fits, CreateFails, StepFails, NoRequest
<1>2. /\ UNCHANGED <<rec, raced>> /\ Goto(k, "idle")
      /\ crossed' = crossed \/ crossed' = crossed \cup {req[k].v}
      /\ back' = back \/ (req[k].op = "post" /\ \E b \in Ends \cup Images : back' = [back EXCEPT ![req[k].v] = b])
  BY <1>1 DEF CreateFails, StepFails, Leaves, BooksInv, BlocksOK, Ends
<1>3. /\ back \in [Images -> Images \cup Ends] /\ \A s \in Snaps : back[s] # "flat"
      /\ raced \subseteq Images /\ crossed \subseteq Images
      /\ rec \in [Vols -> {"none", "builtin", "other"}]
  BY DEF BooksInv, BlocksOK
<1>4. /\ back' \in [Images -> Images \cup Ends] /\ \A s \in Snaps : back'[s] # "flat"
      /\ \A i \in Images : i # req[k].v => back'[i] = back[i]
  <2>1. CASE back' = back BY <1>3, <2>1
  <2>2. CASE req[k].op = "post" /\ \E b \in Ends \cup Images : back' = [back EXCEPT ![req[k].v] = b]
    <3>1. PICK b \in Ends \cup Images : back' = [back EXCEPT ![req[k].v] = b] BY <2>2
    <3>2. req[k].v \notin Snaps BY <1>1, <2>2, NamesOf
    <3> QED BY <1>1, <1>3, <3>1, <3>2, NamesOf
  <2> QED BY <1>2, <2>1, <2>2
<1>5. /\ req' = [o \in Handlers |-> req'[o]] /\ \A o \in Handlers : o # k => req'[o] = req[o]
      /\ req'[k] = NoRequest
  BY <1>2, Ended DEF BooksInv
<1>6. req[k].v \notin crossed => Owes(req[k]) BY <1>1, Relies
<1>7. ASSUME req[k].v \notin crossed', req[k].v \in Vols, back'[req[k].v] # "absent"
      PROVE  rec'[req[k].v] # "none"
  <2>1. req[k].v \notin crossed BY <1>2, <1>7
  <2>2. CASE CreateFails(k)
    <3>1. UNCHANGED back BY <1>1, <1>3, <1>7, <2>2 DEF CreateFails
    <3> QED BY <1>6, <1>7, <2>1, <2>2, <3>1 DEF Owes, CreateFails
  <2>3. CASE StepFails(k) BY <1>1, <1>2, <1>6, <1>7, <2>1, <2>3, NamesOf DEF Owes, StepFails
  <2> QED BY <2>2, <2>3
<1>8. Fits(NoRequest) BY DEF Fits, NoRequest
<1>9. raced' \subseteq Images /\ crossed \subseteq crossed' /\ crossed' \subseteq Images BY <1>1, <1>2, <1>3
<1> QED BY <1>1, <1>2, <1>3, <1>4, <1>5, <1>7, <1>8, <1>9, ActBooks

LEMMA BranchFailBooks ==
  ASSUME NamesApart, BooksInv, NEW k \in Handlers, BranchFails(k)
  PROVE  BooksInv'
<1>1. /\ req[k].op \in {"clone", "snap"} /\ req[k] # NoRequest /\ req[k].at = "branch"
      /\ req[k].v \in Images /\ req[k].src \in Images
      /\ req[k].op = "clone" => req[k].v \in Vols /\ req[k].src \in Vols
      /\ req[k].op = "snap" => req[k].v \in Snaps
  BY NamesOf DEF BooksInv, BlocksOK, Fits, BranchFails, NoRequest
<1>2. PICK b \in {"absent", "torn", req[k].src} :
        /\ back' = [back EXCEPT ![req[k].v] = b]
        /\ crossed' = IF b = "absent" THEN crossed ELSE crossed \cup {req[k].v}
        /\ UNCHANGED <<rec, raced>>
  BY DEF BranchFails
<1>3. /\ back \in [Images -> Images \cup Ends] /\ \A s \in Snaps : back[s] # "flat"
      /\ raced \subseteq Images /\ crossed \subseteq Images
      /\ rec \in [Vols -> {"none", "builtin", "other"}]
  BY DEF BooksInv, BlocksOK
<1>4. /\ back' \in [Images -> Images \cup Ends] /\ \A s \in Snaps : back'[s] # "flat"
      /\ \A i \in Images : i # req[k].v => back'[i] = back[i]
      /\ back'[req[k].v] = b
  BY <1>1, <1>2, <1>3, NamesOf DEF Ends
<1>5. raced' \subseteq Images /\ crossed \subseteq crossed' /\ crossed' \subseteq Images BY <1>1, <1>2, <1>3
<1>6. req[k].v \notin crossed' => back'[req[k].v] = "absent" BY <1>2, <1>4
<1>7. CASE req[k].op = "snap"
  <2>1. Goto(k, "idle") BY <1>7 DEF BranchFails
  <2>2. /\ req' = [o \in Handlers |-> req'[o]] /\ \A o \in Handlers : o # k => req'[o] = req[o]
        /\ req'[k] = NoRequest
    BY <2>1, Ended DEF BooksInv
  <2>3. Fits(NoRequest) BY DEF Fits, NoRequest
  <2> QED BY <1>1, <1>2, <1>3, <1>4, <1>5, <1>6, <2>2, <2>3, ActBooks
<1>8. CASE req[k].op = "clone"
  <2>0. Goto(k, "unrecord") BY <1>8 DEF BranchFails
  <2>1. /\ req' = [o \in Handlers |-> req'[o]] /\ \A o \in Handlers : o # k => req'[o] = req[o]
        /\ req'[k] = [op |-> "clone", at |-> "unrecord", v |-> req[k].v, src |-> req[k].src]
    BY <1>8, <2>0, Goes DEF BooksInv
  <2>2. Fits(req'[k]) /\ req'[k].v = req[k].v /\ req'[k] # NoRequest BY <1>1, <1>8, <2>1 DEF Fits, NoRequest
  <2>4. req[k].v \notin crossed' => Owes(req[k])' BY <1>6, <2>1 DEF Owes
  <2> QED BY <1>1, <1>2, <1>3, <1>4, <1>5, <2>1, <2>2, <2>4, ActBooks
<1> QED BY <1>1, <1>7, <1>8

LEMMA ServerCrashBooks ==
  ASSUME NamesApart, BooksInv, ServerCrash
  PROVE  BooksInv'
<1>1. /\ req' = [k \in Handlers |-> NoRequest] /\ UNCHANGED <<back, rec, raced>>
      /\ crossed' = crossed \cup NamedBy(Handlers)
  BY DEF ServerCrash
<1>2. \A k \in Handlers : req'[k] = NoRequest BY <1>1
<1>3. NoRequest.v = "-" BY DEF NoRequest
<1>4. \A k \in Handlers : req[k].v \in Images => req[k].v \in crossed'
  BY <1>1, NamesOf DEF NamedBy, Names
<1>5. NamedBy(Handlers) \subseteq Images
  BY NamesOf DEF BooksInv, BlocksOK, Fits, NamedBy, Names, NoRequest
<1>6. BlocksOK'
  <2>1. Images' = Images BY DEF Images
  <2>2. \A k \in Handlers : Fits(req[k])' BY <1>2 DEF Fits, NoRequest
  <2>3. req' = [k \in Handlers |-> req'[k]] BY <1>1
  <2> QED BY <1>1, <1>5, <2>1, <2>2, <2>3 DEF BooksInv, BlocksOK, Ends
<1>7. Alone' /\ Owed' BY <1>2, <1>3, NamesOf DEF Alone, Owed, Images
<1>8. Recorded' BY <1>1, <1>4, NamesOf DEF BooksInv, Recorded
<1> QED BY <1>6, <1>7, <1>8 DEF BooksInv

LEMMA BooksStep ==
  ASSUME NamesApart, BooksInv, [VolumesNext]_volumeVars
  PROVE  BooksInv'
<1>1. CASE UNCHANGED blockVars
  BY <1>1 DEF blockVars, BooksInv, BlocksOK, Fits, Alone, Owed, Owes, Recorded, Images, NoRequest
<1>2. CASE UNCHANGED volumeVars BY <1>1, <1>2 DEF volumeVars
<1>3. CASE MountNext
  <2>1. UNCHANGED blockVars
    BY <1>3 DEF MountNext, AttachVolumes, AttachOk, AttachCredsLeft, AttachRejected,
      CompensationFails, AttachRefused, Run, Exit, DetachOk, DetachFails, GaveUp, ManagerCrash
  <2> QED BY <1>1, <2>1
<1>4. CASE BlockNext
  BY <1>4, BeginsBooks, CreateBlockBooks, RecordBooks, UndoBooks, CloneCheckBooks, UnrecordBooks,
     BranchBooks, DeleteCheckBooks, RemoveBooks, ConvertBooks, FailBooks, BranchFailBooks,
     ServerCrashBooks
     DEF BlockNext
<1> QED BY <1>2, <1>3, <1>4 DEF VolumesNext

LEMMA BooksStart ==
  ASSUME NamesApart, VolumesInit
  PROVE  BooksInv
<1>1. req = [k \in Handlers |-> NoRequest] /\ back = [i \in Images |-> "absent"]
      /\ rec = [v \in Vols |-> "none"] /\ raced = {} /\ crossed = {}
  BY DEF VolumesInit
<1>2. \A k \in Handlers : req[k] = NoRequest BY <1>1
<1>3. NoRequest.v = "-" BY DEF NoRequest
<1>4. \A i \in Images : back[i] = "absent" BY <1>1
<1>5. BlocksOK
  <2>1. \A k \in Handlers : Fits(req[k]) BY <1>2 DEF Fits, NoRequest
  <2>2. req = [k \in Handlers |-> req[k]] BY <1>1
  <2>3. back \in [Images -> Images \cup Ends] BY <1>1 DEF Ends
  <2> QED BY <1>1, <1>4, <2>1, <2>2, <2>3, NamesOf DEF BlocksOK
<1>6. Alone /\ Owed BY <1>2, <1>3, NamesOf DEF Alone, Owed
<1>7. Recorded BY <1>4, NamesOf DEF Recorded
<1> QED BY <1>5, <1>6, <1>7 DEF BooksInv

(* e2b_server.go:1257: a block never outlives its record, whatever requests *)
(* overlap and whichever step fails, unless they cross on the volume or a   *)
(* create or an undoing that failed left the block.                         *)
THEOREM BlocksRecorded == VolumesSpec => []NoOrphanBlock
<1> NamesApart BY VolumesAssumption
<1>1. VolumesInit => BooksInv BY BooksStart
<1>2. BooksInv /\ [VolumesNext]_volumeVars => BooksInv' BY BooksStep
<1>3. BooksInv => NoOrphanBlock
  <2> SUFFICES ASSUME BooksInv, NEW v \in Vols, v \notin crossed, v \notin NamedBy(Handlers),
                      back[v] # "absent"
               PROVE  rec[v] # "none"
    BY DEF NoOrphanBlock, Exists
  <2>1. \A k \in Handlers : req[k].v # v BY NamesOf DEF NamedBy, Names
  <2> QED BY <2>1 DEF BooksInv, Recorded
<1> QED BY <1>1, <1>2, <1>3, PTL DEF VolumesSpec

-----------------------------------------------------------------------------
(* The chains of volumes.                                                  *)

Follows(S) == \A x \in S \cap Images : back[x] \in S

(* A set with an image in it that is closed under backing files, and holds *)
(* no image that was given up, holds the end of a chain.                   *)
Chained ==
  \A i \in Images : \A S \in SUBSET (Images \cup Ends) :
    back[i] # "absent" /\ i \in S /\ Follows(S) /\ S \cap Given = {} => "flat" \in S

(* What overlays an image that is about to be removed was given up. *)
Doomed ==
  \A k \in Handlers : req[k].at = "remove" =>
    \A p \in Images : p # req[k].v /\ back[p] = req[k].v => p \in Given

VolInv == BooksInv /\ Chained /\ Doomed

VHop(q) == IF q \in Images THEN back[q] ELSE q

LEMMA ImagesFinite ==
  ASSUME NamesApart
  PROVE  IsFiniteSet(Images) /\ Longest \in Nat /\ Longest = Cardinality(Images)
<1>1. IsFiniteSet(Vols) /\ IsFiniteSet(Snaps) BY DEF NamesApart
<1>2. IsFiniteSet(Images) BY <1>1, FS_Union DEF Images
<1>3. Longest = Cardinality(Images) BY DEF Longest
<1> QED BY <1>2, <1>3, FS_CardinalityType

LEMMA VWalkHops ==
  ASSUME NamesApart, NEW i
  PROVE  /\ PathFrom(i)[0] = i
         /\ \A n \in 0 .. Longest : n < Longest => PathFrom(i)[n + 1] = VHop(PathFrom(i)[n])
<1> DEFINE Is(f, N) == f = [n \in 0 .. N |-> IF n = 0 THEN i ELSE VHop(f[n - 1])]
<1> DEFINE N0 == Longest
<1>1. N0 \in Nat BY ImagesFinite
<1>2. PICK B : B = {n \in 0 .. N0 : \E f : Is(f, n)} OBVIOUS
<1>3. 0 \in B
  <2>1. PICK f : f = [n \in 0 .. 0 |-> i] OBVIOUS
  <2>2. Is(f, 0) BY <2>1
  <2> QED BY <1>1, <1>2, <2>2
<1>4. ASSUME NEW N \in 0 .. N0, N \in B, N < N0 PROVE N + 1 \in B
  <2>1. PICK f : Is(f, N) BY <1>2, <1>4
  <2>2. PICK g : g = [n \in 0 .. N + 1 |-> IF n = 0 THEN i ELSE VHop(f[n - 1])] OBVIOUS
  <2>3. ASSUME NEW n \in 0 .. N PROVE g[n] = f[n]
    BY <1>1, <2>1, <2>2
  <2>4. ASSUME NEW n \in 0 .. N + 1, n # 0 PROVE g[n - 1] = f[n - 1]
    <3>1. n - 1 \in 0 .. N BY <1>1, <2>4
    <3> QED BY <2>3, <3>1
  <2>5. Is(g, N + 1) BY <2>2, <2>4
  <2>6. N + 1 \in 0 .. N0 BY <1>1, <1>4
  <2> QED BY <1>2, <2>5, <2>6
<1>5. N0 \in B
  <2>1. \A n \in 0 .. N0 : n \in B BY <1>1, <1>3, <1>4, Upwards
  <2> QED BY <1>1, <2>1
<1>6. \E f : Is(f, N0) BY <1>2, <1>5
<1>7. PathFrom(i) = CHOOSE f : Is(f, N0) BY Zenon DEF PathFrom, VHop
<1>8. Is(PathFrom(i), N0) BY <1>6, <1>7, Zenon
<1> HIDE DEF Is, N0
<1>9. PICK w : w = PathFrom(i) OBVIOUS
<1>10. w = [n \in 0 .. N0 |-> IF n = 0 THEN i ELSE VHop(w[n - 1])] BY <1>8, <1>9 DEF Is
<1>11. w[0] = i BY <1>1, <1>10
<1>12. ASSUME NEW n \in 0 .. N0, n < N0 PROVE w[n + 1] = VHop(w[n])
  <2>1. n + 1 \in 0 .. N0 /\ n + 1 # 0 /\ (n + 1) - 1 = n BY <1>1, <1>12
  <2> QED BY <1>10, <2>1
<1> QED BY <1>9, <1>11, <1>12 DEF N0

(* A set that holds an image, and what the images of its trail in it back  *)
(* onto, holds its trail.                                                  *)
LEMMA TrailWithin ==
  ASSUME NamesApart, NEW i, NEW S, i \in S,
         \A x \in S \cap Images \cap OnPath(i) : back[x] \in S
  PROVE  OnPath(i) \subseteq S
<1>1. Longest \in Nat BY ImagesFinite
<1>2. PICK w : w = PathFrom(i) OBVIOUS
<1>3. w[0] = i /\ \A n \in 0 .. Longest : n < Longest => w[n + 1] = VHop(w[n]) BY <1>2, VWalkHops
<1>4. OnPath(i) = {w[n] : n \in 0 .. Longest} BY <1>2 DEF OnPath
<1>5. PICK B : B = {n \in 0 .. Longest : w[n] \in S} OBVIOUS
<1>6. 0 \in B BY <1>1, <1>3, <1>5
<1>7. ASSUME NEW n \in 0 .. Longest, n \in B, n < Longest PROVE n + 1 \in B
  <2>1. n + 1 \in 0 .. Longest BY <1>1, <1>7
  <2>2. w[n] \in S /\ w[n] \in OnPath(i) BY <1>4, <1>5, <1>7
  <2>3. VHop(w[n]) \in S BY <2>2 DEF VHop
  <2> QED BY <1>3, <1>5, <1>7, <2>1, <2>3
<1>8. \A n \in 0 .. Longest : n \in B BY <1>1, <1>6, <1>7, Upwards
<1> QED BY <1>4, <1>5, <1>8

(* As many hops as there are images are enough: a trail is closed. *)
LEMMA TrailFollows ==
  ASSUME NamesApart, BlocksOK, NEW i \in Images
  PROVE  i \in OnPath(i) /\ Follows(OnPath(i)) /\ OnPath(i) \subseteq Images \cup Ends
<1> DEFINE N == Longest
<1>1. N \in Nat /\ N = Cardinality(Images) /\ IsFiniteSet(Images) BY ImagesFinite
<1>2. PICK w : w = PathFrom(i) OBVIOUS
<1>3. w[0] = i /\ \A n \in 0 .. N : n < N => w[n + 1] = VHop(w[n]) BY <1>2, VWalkHops
<1>4. OnPath(i) = {w[n] : n \in 0 .. N} BY <1>2 DEF OnPath
<1> HIDE DEF N
<1>5. i \in OnPath(i) BY <1>1, <1>3, <1>4
<1>6. OnPath(i) \subseteq Images \cup Ends
  <2>1. \A x \in (Images \cup Ends) \cap Images : back[x] \in Images \cup Ends
    BY DEF BlocksOK
  <2>2. PICK S : S = Images \cup Ends OBVIOUS
  <2>3. i \in S /\ \A x \in S \cap Images \cap OnPath(i) : back[x] \in S BY <2>1, <2>2
  <2>4. OnPath(i) \subseteq S BY <2>3, TrailWithin
  <2> QED BY <2>2, <2>4
<1>7. ASSUME NEW n \in 0 .. N, w[n] \in Images PROVE back[w[n]] \in OnPath(i)
  <2>1. CASE n < N
    <3>1. n + 1 \in 0 .. N BY <1>1, <2>1
    <3> QED BY <1>3, <1>4, <1>7, <2>1, <3>1 DEF VHop
  <2>2. CASE n = N
    <3>1. ASSUME NEW m \in 0 .. N PROVE w[m] \in Images
      <4> SUFFICES ASSUME w[m] \notin Images PROVE FALSE OBVIOUS
      <4>1. PICK B : B = {j \in 0 .. N : j < m \/ w[j] = w[m]} OBVIOUS
      <4>2. 0 \in B BY <1>1, <4>1
      <4>3. ASSUME NEW j \in 0 .. N, j \in B, j < N PROVE j + 1 \in B
        <5>1. j + 1 \in 0 .. N BY <1>1, <4>3
        <5>2. CASE j + 1 < m BY <4>1, <5>1, <5>2
        <5>3. CASE j + 1 = m BY <4>1, <5>1, <5>3
        <5>4. CASE j + 1 > m
          <6>1. w[j] = w[m] BY <1>1, <4>1, <4>3, <5>4
          <6>2. w[j + 1] = w[m] BY <1>3, <4>3, <6>1 DEF VHop
          <6> QED BY <4>1, <5>1, <6>2
        <5> QED BY <1>1, <5>2, <5>3, <5>4
      <4>4. \A j \in 0 .. N : j \in B BY <1>1, <4>2, <4>3, Upwards
      <4>5. N \in B BY <1>1, <4>4
      <4>6. w[N] = w[m] BY <1>1, <4>1, <4>5
      <4> QED BY <1>7, <2>2, <4>6
    <3>2. PICK D : D = 0 .. N OBVIOUS
    <3>3. IsFiniteSet(D) /\ Cardinality(D) = N + 1 BY <1>1, <3>2, FS_Interval
    <3>4. PICK f : f = [m \in D |-> w[m]] OBVIOUS
    <3>5. f \in [D -> Images] BY <3>1, <3>2, <3>4
    <3>6. \E x, y \in D : x # y /\ f[x] = f[y] BY <1>1, <3>3, <3>5, FS_PigeonHole
    <3>7. PICK x \in D, y \in D : x < y /\ w[x] = w[y]
      <4>1. PICK a \in D, b \in D : a # b /\ f[a] = f[b] BY <3>6
      <4>2. w[a] = w[b] /\ a \in Int /\ b \in Int BY <1>1, <3>2, <3>4, <4>1
      <4>3. CASE a < b BY <4>2, <4>3
      <4>4. CASE b < a BY <4>2, <4>4
      <4> QED BY <4>1, <4>2, <4>3, <4>4
    <3>8. x \in 0 .. N /\ y \in 0 .. N /\ N - y \in Nat BY <1>1, <3>2
    <3>9. PICK B : B = {t \in 0 .. N - y : w[x + t] = w[y + t]} OBVIOUS
    <3>10. 0 \in B BY <3>7, <3>8, <3>9
    <3>11. ASSUME NEW t \in 0 .. N - y, t \in B, t < N - y PROVE t + 1 \in B
      <4>1. x + t \in 0 .. N /\ y + t \in 0 .. N /\ x + t < N /\ y + t < N BY <1>1, <3>7, <3>8, <3>11
      <4>2. w[(x + t) + 1] = VHop(w[x + t]) /\ w[(y + t) + 1] = VHop(w[y + t]) BY <1>3, <4>1
      <4>3. w[(x + t) + 1] = w[(y + t) + 1] BY <3>9, <3>11, <4>2
      <4>4. (x + t) + 1 = x + (t + 1) /\ (y + t) + 1 = y + (t + 1) /\ t + 1 \in 0 .. N - y
        BY <1>1, <3>8, <3>11
      <4> QED BY <3>9, <4>3, <4>4
    <3>12. \A t \in 0 .. N - y : t \in B BY <3>8, <3>10, <3>11, Upwards
    <3>13. PICK t : t = N - y OBVIOUS
    <3>14. t \in 0 .. N - y /\ y + t = N /\ x + t \in 0 .. N /\ x + t < N
      BY <1>1, <3>7, <3>8, <3>13
    <3>15. w[x + t] = w[N] BY <3>9, <3>12, <3>14
    <3>16. w[(x + t) + 1] = VHop(w[N]) BY <1>3, <3>14, <3>15
    <3>17. (x + t) + 1 \in 0 .. N BY <1>1, <3>14
    <3> QED BY <1>4, <1>7, <2>2, <3>16, <3>17 DEF VHop
  <2> QED BY <1>1, <2>1, <2>2
<1>8. Follows(OnPath(i)) BY <1>4, <1>7 DEF Follows
<1> QED BY <1>5, <1>6, <1>8

(* A step that changes the backing file of one image keeps the chains that *)
(* do not go through it.                                                   *)
LEMMA ChainedKept ==
  ASSUME VolInv, NEW v \in Images, \A i \in Images : i # v => back'[i] = back[i],
         Given \subseteq Given',
         \A i \in Images : \A S \in SUBSET (Images \cup Ends) :
           /\ back'[i] # "absent" /\ i \in S /\ (\A x \in S \cap Images : back'[x] \in S)
           /\ S \cap Given' = {} /\ v \in S
           => "flat" \in S
  PROVE  Chained'
<1> SUFFICES ASSUME NEW i \in Images, NEW S \in SUBSET (Images \cup Ends),
                    back'[i] # "absent", i \in S, \A x \in S \cap Images : back'[x] \in S,
                    S \cap Given' = {}
             PROVE  "flat" \in S
  BY DEF Chained, Follows, Images, Ends
<1>1. CASE v \in S BY <1>1
<1>2. CASE v \notin S
  <2>1. Follows(S) /\ back[i] # "absent" /\ S \cap Given = {} BY <1>2 DEF Follows
  <2> QED BY <2>1 DEF VolInv, Chained
<1> QED BY <1>1, <1>2

(* Nothing changes in the chains when no backing file does. *)
LEMMA ChainedSame ==
  ASSUME VolInv, UNCHANGED back, Given \subseteq Given'
  PROVE  Chained'
BY DEF VolInv, Chained, Follows, Images, Ends

(* A request that goes on, or ends, without a removal ahead of it. *)
LEMMA DoomedKept ==
  ASSUME VolInv, NEW k \in Handlers, \A o \in Handlers : o # k => req'[o] = req[o],
         req'[k].at # "remove", Given \subseteq Given',
         \A o \in Handlers, p \in Images :
           o # k /\ req[o].at = "remove" /\ p # req[o].v /\ back'[p] = req[o].v => back[p] = req[o].v \/ p \in Given'
  PROVE  Doomed'
BY DEF VolInv, Doomed, Images

(* The scan found nothing: what is on the image was skipped. *)
LEMMA DoomedNow ==
  ASSUME VolInv, NEW k \in Handlers, \A o \in Handlers : o # k => req'[o] = req[o],
         NamesApart, NEW v, req'[k].v = v, UNCHANGED back, ~hasBackingReference(v),
         raced' = raced \cup Skipped(v), crossed \subseteq crossed'
  PROVE  Doomed'
<1>1. \A p \in Images : p # v /\ back[p] = v => p \in Skipped(v)
  BY DEF hasBackingReference, hasBackingReferenceExcluding, Skipped, NamesApart, Images
<1>2. Given \subseteq Given' /\ Skipped(v) \subseteq Given' BY DEF Given
<1> QED BY <1>1, <1>2 DEF VolInv, Doomed, Images

LEMMA NotRemove == NoRequest.at # "remove"
BY DEF NoRequest

(* Requests that begin, and steps that leave the images alone. *)
LEMMA BeginsChains ==
  ASSUME NamesApart, VolInv, NEW k \in Handlers,
         \/ \E v \in Vols : PostBlock(k, v) \/ PostOther(k, v) \/ DeleteGet(k, v)
         \/ \E v, src \in Vols : CloneRecord(k, src, v)
         \/ \E s \in Snaps : DropCheck(k, s) \/ \E src \in Images : SnapCheck(k, src, s)
         \/ \E v \in Vols, s \in Snaps : RollbackCheck(k, v, s)
  PROVE  Chained' /\ Doomed'
<1>1. PICK op, at, v, src :
        /\ Begin(k, op, at, v, src) /\ UNCHANGED back
        /\ \/ at # "remove" /\ UNCHANGED raced
           \/ raced' = raced \cup Skipped(v) /\ ~hasBackingReference(v)
  BY DEF PostBlock, PostOther, DeleteGet, CloneRecord, DropCheck, SnapCheck,
         RollbackCheck
<1>2. /\ \A o \in Handlers : o # k => req'[o] = req[o]
      /\ req'[k] = [op |-> op, at |-> at, v |-> v, src |-> src]
      /\ crossed \subseteq crossed'
  BY <1>1, Begun DEF VolInv, BooksInv
<1>3. Chained' BY <1>1, <1>2, ChainedSame DEF Given
<1>4. req'[k].at = at /\ req'[k].v = v BY <1>2
<1>5. CASE at # "remove" /\ UNCHANGED raced
  BY <1>1, <1>2, <1>3, <1>4, <1>5, DoomedKept DEF Given
<1>6. CASE raced' = raced \cup Skipped(v) /\ ~hasBackingReference(v)
  BY <1>1, <1>2, <1>3, <1>4, <1>6, DoomedNow
<1> QED BY <1>1, <1>3, <1>5, <1>6

LEMMA ChecksChains ==
  ASSUME NamesApart, VolInv, NEW k \in Handlers,
         \/ Record(k) \/ Undo(k) \/ CloneCheck(k) \/ Unrecord(k)
         \/ DeleteCheck(k) \/ Forget(k)
  PROVE  Chained' /\ Doomed'
<1>1. UNCHANGED back /\ raced \subseteq raced' /\ crossed \subseteq crossed'
  BY DEF Record, Undo, CloneCheck, Unrecord, DeleteCheck, Forget
<1>2. Chained' BY <1>1, ChainedSame DEF Given
<1>3. CASE /\ Goto(k, "remove") /\ ~hasBackingReference(req[k].v)
           /\ raced' = raced \cup Skipped(req[k].v)
  <2>1. /\ \A o \in Handlers : o # k => req'[o] = req[o]
        /\ req'[k] = [op |-> req[k].op, at |-> "remove", v |-> req[k].v, src |-> req[k].src]
    BY <1>3, Goes DEF VolInv, BooksInv
  <2>2. PICK v : v = req[k].v OBVIOUS
  <2> QED BY <1>1, <1>2, <1>3, <2>1, <2>2, DoomedNow
<1>4. ASSUME NEW at, at \notin {"remove", "idle"}, Goto(k, at) PROVE Doomed'
  <2>1. /\ \A o \in Handlers : o # k => req'[o] = req[o]
        /\ req'[k] = [op |-> req[k].op, at |-> at, v |-> req[k].v, src |-> req[k].src]
    BY <1>4, Goes DEF VolInv, BooksInv
  <2> QED BY <1>1, <1>4, <2>1, DoomedKept DEF Given
<1>5. CASE Goto(k, "idle")
  <2>1. (\A o \in Handlers : o # k => req'[o] = req[o]) /\ req'[k] = NoRequest
    BY <1>5, Ended DEF VolInv, BooksInv
  <2> QED BY <1>1, <1>2, <2>1, NotRemove, DoomedKept DEF Given
<1>6. CASE Record(k) BY <1>2, <1>4, <1>5, <1>6 DEF Record, RecordFails
<1>7. CASE Undo(k) BY <1>2, <1>3, <1>5, <1>7 DEF Undo
<1>8. CASE CloneCheck(k) BY <1>2, <1>4, <1>8 DEF CloneCheck
<1>9. CASE DeleteCheck(k) BY <1>2, <1>3, <1>4, <1>5, <1>9 DEF DeleteCheck
<1>10. CASE Unrecord(k) \/ Forget(k) BY <1>2, <1>5, <1>10 DEF Unrecord, Forget
<1> QED BY <1>6, <1>7, <1>8, <1>9, <1>10

(* A new or restored image is an end of every chain through it. *)
LEMMA FlatChains ==
  ASSUME NamesApart, VolInv, NEW k \in Handlers, CreateBlock(k) \/ Convert(k)
  PROVE  Chained' /\ Doomed'
<1>1. req[k].v \in Images /\ req[k] # NoRequest
  BY NamesOf DEF VolInv, BooksInv, BlocksOK, Fits, CreateBlock, Convert, NoRequest
<1>2. /\ UNCHANGED <<raced, crossed>>
      /\ back' = back \/ back' = [back EXCEPT ![req[k].v] = "flat"]
  BY DEF CreateBlock, Convert
<1>3. (\A o \in Handlers : o # k => req'[o] = req[o]) /\ req'[k].at # "remove"
  <2>1. CASE CreateBlock(k)
    <3>1. Goto(k, "record") BY <2>1 DEF CreateBlock
    <3>2. /\ \A o \in Handlers : o # k => req'[o] = req[o]
          /\ req'[k] = [op |-> req[k].op, at |-> "record", v |-> req[k].v, src |-> req[k].src]
      BY <3>1, Goes DEF VolInv, BooksInv
    <3> QED BY <3>2
  <2>2. CASE Convert(k) BY <2>2, Ended, NotRemove DEF Convert, VolInv, BooksInv
  <2> QED BY <2>1, <2>2
<1>4. Given' = Given BY <1>2 DEF Given
<1>5. CASE back' = back
  BY <1>2, <1>3, <1>4, <1>5, ChainedSame, DoomedKept
<1>6. CASE back' = [back EXCEPT ![req[k].v] = "flat"]
  <2>1. /\ back'[req[k].v] = "flat" /\ \A i \in Images : i # req[k].v => back'[i] = back[i]
    BY <1>1, <1>6 DEF VolInv, BooksInv, BlocksOK
  <2>2. Chained' BY <1>1, <1>4, <2>1, ChainedKept
  <2>3. \A o \in Handlers : req[o].at = "remove" => req[o].v # "flat"
    BY NamesOf DEF VolInv, BooksInv, BlocksOK, Fits, NoRequest
  <2>4. Doomed' BY <1>1, <1>3, <1>4, <2>1, <2>3, DoomedKept
  <2> QED BY <2>2, <2>4
<1> QED BY <1>2, <1>5, <1>6

(* A removal takes an image that only given-up images overlay. *)
LEMMA RemoveChains ==
  ASSUME NamesApart, VolInv, NEW k \in Handlers, Remove(k)
  PROVE  Chained' /\ Doomed'
<1>1. req[k].v \in Images /\ req[k].at = "remove"
  BY NamesOf DEF VolInv, BooksInv, BlocksOK, Fits, Remove, NoRequest
<1>2. UNCHANGED <<raced, crossed>> /\ back' = [back EXCEPT ![req[k].v] = "absent"]
  BY DEF Remove
<1>3. back'[req[k].v] = "absent" /\ \A i \in Images : i # req[k].v => back'[i] = back[i]
  BY <1>1, <1>2 DEF VolInv, BooksInv, BlocksOK
<1>4. (\A o \in Handlers : o # k => req'[o] = req[o]) /\ req'[k].at # "remove"
  <2>1. CASE Goto(k, "idle") BY <2>1, Ended, NotRemove DEF VolInv, BooksInv
  <2>2. CASE Goto(k, "forget")
    <3>1. /\ \A o \in Handlers : o # k => req'[o] = req[o]
          /\ req'[k] = [op |-> req[k].op, at |-> "forget", v |-> req[k].v, src |-> req[k].src]
      BY <2>2, Goes DEF VolInv, BooksInv
    <3> QED BY <3>1
  <2> QED BY <2>1, <2>2 DEF Remove
<1>5. Given' = Given BY <1>2 DEF Given
<1>6. Chained'
  <2>1. ASSUME NEW i \in Images, NEW S \in SUBSET (Images \cup Ends),
               back'[i] # "absent", i \in S, \A x \in S \cap Images : back'[x] \in S,
               S \cap Given = {}
        PROVE  "flat" \in S
    <3>1. PICK R : R = S \ {req[k].v} OBVIOUS
    <3>2. i \in R /\ back[i] # "absent" BY <1>3, <2>1, <3>1
    <3>3. \A x \in R \cap Images : back[x] # req[k].v
      BY <1>1, <2>1, <3>1 DEF VolInv, Doomed, Given
    <3>4. Follows(R) BY <1>3, <2>1, <3>1, <3>3 DEF Follows
    <3>5. R \in SUBSET (Images \cup Ends) /\ R \cap Given = {} BY <2>1, <3>1
    <3>6. "flat" \in R BY <3>2, <3>4, <3>5 DEF VolInv, Chained
    <3> QED BY <3>1, <3>6
  <2> QED BY <1>1, <1>3, <1>5, <2>1, ChainedKept
<1>7. \A o \in Handlers : req[o].at = "remove" => req[o].v # "absent"
  BY NamesOf DEF VolInv, BooksInv, BlocksOK, Fits, NoRequest
<1>8. Doomed' BY <1>3, <1>4, <1>5, <1>7, DoomedKept
<1> QED BY <1>6, <1>8

(* An overlay is made on an image that opens, and is given up if that one  *)
(* is about to be removed.                                                 *)
LEMMA BranchChains ==
  ASSUME NamesApart, VolInv, NEW k \in Handlers, Branch(k)
  PROVE  Chained' /\ Doomed'
<1>1. /\ req[k].op \in {"clone", "snap"} /\ req[k] # NoRequest
      /\ req[k].v \in Images /\ req[k].src \in Images
  BY NamesOf DEF VolInv, BooksInv, BlocksOK, Fits, Branch, NoRequest
<1>2. req[k].v \notin crossed => back[req[k].v] = "absent"
  <2>1. req[k].v \notin crossed => Owes(req[k]) BY <1>1, Relies DEF VolInv
  <2> QED BY <1>1, <2>1 DEF Owes
<1>3. raced \subseteq raced' /\ UNCHANGED crossed BY DEF Branch
<1>4. Given \subseteq Given' BY <1>3 DEF Given
<1>5. (\A o \in Handlers : o # k => req'[o] = req[o]) /\ req'[k].at # "remove"
  <2>1. CASE Goto(k, "idle") BY <2>1, Ended, NotRemove DEF VolInv, BooksInv
  <2>2. CASE Goto(k, "unrecord")
    <3>1. /\ \A o \in Handlers : o # k => req'[o] = req[o]
          /\ req'[k] = [op |-> req[k].op, at |-> "unrecord", v |-> req[k].v, src |-> req[k].src]
      BY <2>2, Goes DEF VolInv, BooksInv
    <3> QED BY <3>1
  <2> QED BY <2>1, <2>2 DEF Branch
<1>6. CASE back' = back
  BY <1>4, <1>5, <1>6, ChainedSame, DoomedKept
<1>7. CASE back' = [back EXCEPT ![req[k].v] = "absent"]
  <2>1. back'[req[k].v] = "absent" /\ \A i \in Images : i # req[k].v => back'[i] = back[i]
    BY <1>1, <1>7 DEF VolInv, BooksInv, BlocksOK
  <2>2. Chained'
    <3>1. CASE req[k].v \in crossed
      <4>1. req[k].v \in Given' BY <1>4, <3>1 DEF Given
      <4> QED BY <1>1, <1>4, <2>1, <4>1, ChainedKept
    <3>2. CASE req[k].v \notin crossed
      <4>1. \A i \in Images : back'[i] = back[i] BY <1>2, <2>1, <3>2
      <4> QED BY <1>4, <4>1 DEF VolInv, Chained, Follows, Images, Ends
    <3> QED BY <3>1, <3>2
  <2>3. \A o \in Handlers : req[o].at = "remove" => req[o].v # "absent"
    BY NamesOf DEF VolInv, BooksInv, BlocksOK, Fits, NoRequest
  <2>4. Doomed' BY <1>4, <1>5, <2>1, <2>3, DoomedKept
  <2> QED BY <2>2, <2>4
<1>8. CASE /\ openGuestImage(req[k].src) /\ req[k].v \notin OnPath(req[k].src)
           /\ back' = [back EXCEPT ![req[k].v] = req[k].src]
           /\ raced' = IF \E o \in Handlers \ {k} : req[o].at = "remove" /\ req[o].v = req[k].src
                       THEN raced \cup {req[k].v} ELSE raced
  <2>1. back'[req[k].v] = req[k].src /\ \A i \in Images : i # req[k].v => back'[i] = back[i]
    BY <1>1, <1>8 DEF VolInv, BooksInv, BlocksOK
  <2>2. Chained'
    <3>1. ASSUME NEW S \in SUBSET (Images \cup Ends), req[k].v \in S,
                 \A x \in S \cap Images : back'[x] \in S
          PROVE  "flat" \in S
      <4>1. PICK src : src = req[k].src OBVIOUS
      <4>2. src \in S BY <1>1, <2>1, <3>1, <4>1
      <4>3. \A x \in S \cap Images \cap OnPath(src) : back[x] \in S
        BY <1>8, <2>1, <3>1, <4>1
      <4>4. OnPath(src) \subseteq S BY <4>2, <4>3, TrailWithin
      <4> QED BY <1>8, <4>1, <4>4 DEF openGuestImage
    <3> QED BY <1>1, <1>4, <2>1, <3>1, ChainedKept
  <2>3. ASSUME NEW o \in Handlers, NEW p \in Images, o # k, req[o].at = "remove",
               back'[p] = req[o].v
        PROVE  back[p] = req[o].v \/ p \in Given'
    BY <1>8, <2>1, <2>3 DEF Given
  <2>4. Doomed' BY <1>4, <1>5, <2>3, DoomedKept
  <2> QED BY <2>2, <2>4
<1> QED BY <1>6, <1>7, <1>8 DEF Branch

(* A step that fails leaves the images alone, or its own target, which is  *)
(* given up with it.                                                       *)
LEMMA FailChains ==
  ASSUME NamesApart, VolInv, NEW k \in Handlers, CreateFails(k) \/ BranchFails(k) \/ StepFails(k)
  PROVE  Chained' /\ Doomed'
<1>1. /\ req[k].v \in Images /\ req[k] # NoRequest
      /\ BranchFails(k) => req[k].op \in {"clone", "snap"}
  BY NamesOf DEF VolInv, BooksInv, BlocksOK, Fits, CreateFails, BranchFails, StepFails, NoRequest
<1>2. UNCHANGED raced /\ crossed \subseteq crossed' BY DEF CreateFails, BranchFails, StepFails
<1>3. Given \subseteq Given' BY <1>2 DEF Given
<1>4. back \in [Images -> Images \cup Ends] BY DEF VolInv, BooksInv, BlocksOK
<1>5. \A i \in Images : i # req[k].v => back'[i] = back[i]
  BY <1>4 DEF CreateFails, BranchFails, StepFails
<1>6. (\A i \in Images : back'[i] = back[i]) \/ req[k].v \in Given'
  <2>1. CASE req[k].v \in crossed BY <1>3, <2>1 DEF Given
  <2>2. CASE req[k].v \notin crossed /\ BranchFails(k)
    <3>1. back[req[k].v] = "absent" BY <1>1, <2>2, Relies DEF VolInv, Owes
    <3> QED BY <1>1, <1>4, <1>5, <2>2, <3>1 DEF BranchFails, Given
  <2>3. CASE CreateFails(k) BY <1>1, <1>4, <1>5, <2>3 DEF CreateFails, Given
  <2>4. CASE StepFails(k) BY <2>4 DEF StepFails
  <2> QED BY <2>1, <2>2, <2>3, <2>4
<1>7. (\A o \in Handlers : o # k => req'[o] = req[o]) /\ req'[k].at # "remove"
  <2>1. CASE Goto(k, "idle") BY <2>1, Ended, NotRemove DEF VolInv, BooksInv
  <2>2. CASE Goto(k, "unrecord")
    <3>1. /\ \A o \in Handlers : o # k => req'[o] = req[o]
          /\ req'[k] = [op |-> req[k].op, at |-> "unrecord", v |-> req[k].v, src |-> req[k].src]
      BY <2>2, Goes DEF VolInv, BooksInv
    <3> QED BY <3>1
  <2> QED BY <2>1, <2>2 DEF CreateFails, BranchFails, StepFails
<1>8. Chained'
  <2>1. CASE \A i \in Images : back'[i] = back[i]
    BY <1>3, <2>1 DEF VolInv, Chained, Follows, Images, Ends
  <2>2. CASE req[k].v \in Given' BY <1>1, <1>3, <1>5, <2>2, ChainedKept
  <2> QED BY <1>6, <2>1, <2>2
<1>9. \A p \in Images : back'[p] = back[p] \/ p \in Given' BY <1>5, <1>6
<1>10. Doomed' BY <1>3, <1>7, <1>9, DoomedKept
<1> QED BY <1>8, <1>10

LEMMA ServerCrashChains ==
  ASSUME NamesApart, VolInv, ServerCrash
  PROVE  Chained' /\ Doomed'
<1>1. /\ req' = [k \in Handlers |-> NoRequest] /\ UNCHANGED <<back, raced>>
      /\ crossed \subseteq crossed'
  BY DEF ServerCrash
<1>2. Chained' BY <1>1, ChainedSame DEF Given
<1>3. \A k \in Handlers : req'[k].at # "remove" BY <1>1, NotRemove
<1> QED BY <1>2, <1>3 DEF Doomed

LEMMA VolStep ==
  ASSUME NamesApart, VolInv, [VolumesNext]_volumeVars
  PROVE  VolInv'
<1>1. BooksInv' BY BooksStep DEF VolInv
<1>2. CASE UNCHANGED blockVars
  BY <1>1, <1>2 DEF blockVars, VolInv, Chained, Doomed, Given, Follows, Images
<1>3. CASE UNCHANGED volumeVars BY <1>2, <1>3 DEF volumeVars
<1>4. CASE MountNext
  <2>1. UNCHANGED blockVars
    BY <1>4 DEF MountNext, AttachVolumes, AttachOk, AttachCredsLeft, AttachRejected,
      CompensationFails, AttachRefused, Run, Exit, DetachOk, DetachFails, GaveUp, ManagerCrash
  <2> QED BY <1>2, <2>1
<1>5. CASE BlockNext
  <2>1. Chained' /\ Doomed'
    BY <1>5, BeginsChains, ChecksChains, FlatChains, RemoveChains, BranchChains,
       FailChains, ServerCrashChains
       DEF BlockNext
  <2> QED BY <1>1, <2>1 DEF VolInv
<1> QED BY <1>3, <1>4, <1>5 DEF VolumesNext

(* The invariant is enough. *)
LEMMA ChainsOfVolumes ==
  ASSUME NamesApart, VolInv
  PROVE  VolumeChains
<1>1. BlocksOK BY DEF VolInv, BooksInv
<1> SUFFICES ASSUME NEW i \in Images, back[i] # "absent", OnPath(i) \cap Given = {}
             PROVE  /\ openGuestImage(i)
                    /\ i \in Snaps => Cardinality({v \in Vols : i \in ListSnapshots(v)}) = 1
  BY DEF VolumeChains, Exists, Given
<1>2. i \in OnPath(i) /\ Follows(OnPath(i)) /\ OnPath(i) \subseteq Images \cup Ends
  BY <1>1, TrailFollows
<1>3. openGuestImage(i) BY <1>2 DEF VolInv, Chained, openGuestImage
<1>4. ASSUME i \in Snaps
      PROVE  Cardinality({v \in Vols : i \in ListSnapshots(v)}) = 1
  <2> DEFINE N == Longest
  <2>1. N \in Nat BY ImagesFinite
  <2>2. PICK w : w = PathFrom(i) OBVIOUS
  <2>3. w[0] = i /\ \A n \in 0 .. N : n < N => w[n + 1] = VHop(w[n]) BY <2>2, VWalkHops
  <2>4. OnPath(i) = {w[n] : n \in 0 .. N} BY <2>2 DEF OnPath
  <2> HIDE DEF N
  <2>5. PICK U : U = {n \in 0 .. N : w[n] \notin Snaps} OBVIOUS
  <2>6. U \in SUBSET Nat /\ U # {}
    <3>1. PICK n \in 0 .. N : w[n] = "flat" BY <1>3, <2>4 DEF openGuestImage
    <3> QED BY <2>1, <2>5, <3>1, NamesOf
  <2>7. PICK m : m = Min(U) OBVIOUS
  <2>8. m \in U /\ \A n \in U : m <= n BY <2>6, <2>7, LeastMember
  <2>9. m \in 0 .. N /\ w[m] \notin Snaps /\ m # 0 BY <1>4, <2>3, <2>5, <2>8
  <2>10. \A j \in 0 .. m - 1 : w[j] \in Snaps
    BY <2>1, <2>5, <2>8, <2>9
  <2>11. w[m] \in Vols
    <3>1. m - 1 \in 0 .. N /\ m - 1 < N /\ (m - 1) + 1 = m /\ m - 1 \in 0 .. m - 1
      BY <2>1, <2>9
    <3>2. w[m - 1] \in Snaps BY <2>10, <3>1
    <3>3. w[m] = back[w[m - 1]] BY <2>3, <3>1, <3>2, NamesOf DEF VHop
    <3>4. w[m] \in Images \cup Ends /\ w[m] # "flat" BY <1>1, <3>2, <3>3, NamesOf DEF BlocksOK
    <3>5. w[m] \notin {"absent", "torn"}
      <4> SUFFICES ASSUME w[m] \in {"absent", "torn"} PROVE FALSE OBVIOUS
      <4>1. PICK S : S = {w[n] : n \in 0 .. m} OBVIOUS
      <4>2. \A n \in 0 .. m : n \in 0 .. N /\ (n # m => n < N /\ n + 1 \in 0 .. m /\ n \in 0 .. m - 1)
        BY <2>1, <2>9
      <4>3. i \in S
        <5>1. 0 \in 0 .. m BY <2>1, <2>9
        <5> QED BY <2>3, <4>1, <5>1
      <4>4. ASSUME NEW x \in S \cap Images PROVE back[x] \in S
        <5>1. PICK n \in 0 .. m : x = w[n] BY <4>1, <4>4
        <5>2. n # m BY <4>4, <5>1, NamesOf DEF Ends
        <5>3. w[n + 1] = back[x] BY <2>3, <4>2, <4>4, <5>1, <5>2 DEF VHop
        <5> QED BY <4>1, <4>2, <5>2, <5>3
      <4>5. OnPath(i) \subseteq S BY <4>3, <4>4, TrailWithin
      <4>6. PICK n \in 0 .. m : w[n] = "flat" BY <1>3, <4>1, <4>5 DEF openGuestImage
      <4>7. n # m BY <4>6
      <4> QED BY <2>10, <4>2, <4>6, <4>7, NamesOf
    <3> QED BY <2>9, <3>4, <3>5 DEF Images, Ends
  <2>12. ASSUME NEW v \in Vols PROVE i \in ListSnapshots(v) <=> v = w[m]
    <3>1. i \in ListSnapshots(v) <=>
            \E n \in 0 .. N : w[n] = v /\ \A j \in 0 .. n - 1 : w[j] \in Snaps
      BY <1>3, <1>4, <2>2 DEF ListSnapshots, Exists, N
    <3>2. CASE v = w[m] BY <2>9, <2>10, <3>1, <3>2
    <3>3. CASE v # w[m]
      <4> SUFFICES ASSUME NEW n \in 0 .. N, w[n] = v, \A j \in 0 .. n - 1 : w[j] \in Snaps
                   PROVE  FALSE
        BY <3>1, <3>3
      <4>1. v \notin Snaps BY NamesOf
      <4>2. n \in U BY <2>5, <4>1
      <4>3. m <= n /\ m # n BY <2>8, <3>3, <4>2
      <4>4. m \in 0 .. n - 1 BY <2>1, <2>9, <4>3
      <4> QED BY <2>9, <4>4
    <3> QED BY <3>2, <3>3
  <2>13. {v \in Vols : i \in ListSnapshots(v)} = {w[m]} BY <2>11, <2>12
  <2> QED BY <2>13, FS_Singleton
<1> QED BY <1>3, <1>4

(* engine.go: whatever requests overlap, an image opens, and a snapshot is *)
(* listed under one volume, unless its chain holds one that was given up.  *)
THEOREM VolumesChained == VolumesSpec => []VolumeChains
<1> NamesApart BY VolumesAssumption
<1>1. VolumesInit => VolInv
  <2> SUFFICES ASSUME VolumesInit PROVE VolInv OBVIOUS
  <2>1. BooksInv BY BooksStart
  <2>2. \A i \in Images : back[i] = "absent" BY DEF VolumesInit
  <2>3. \A k \in Handlers : req[k].at # "remove" BY NotRemove DEF VolumesInit
  <2> QED BY <2>1, <2>2, <2>3 DEF VolInv, Chained, Doomed
<1>2. VolInv /\ [VolumesNext]_volumeVars => VolInv' BY VolStep
<1>3. VolInv => VolumeChains BY ChainsOfVolumes
<1> QED BY <1>1, <1>2, <1>3, PTL DEF VolumesSpec

-----------------------------------------------------------------------------
(* Mounts.                                                                 *)

Drivers == {"s3", "builtin"}

(* What Holdings counts: the places in the lists of held volumes. *)
Claims(m, b, d) ==
  {e \in UNION {{s} \X DOMAIN box[s].held : s \in Sandboxes} :
     wiring[e[1]] = m /\ box[e[1]].held[e[2]] = <<b, d>>}

MountsOK ==
  /\ wiring \in [Sandboxes -> Managers]
  /\ count \in [Managers -> [Buckets -> Nat]]
  /\ meta \in [Managers -> [Buckets -> Drivers \cup {"none"}]]
  /\ box = [s \in Sandboxes |-> box[s]]
  /\ \A s \in Sandboxes :
       /\ box[s] = [at |-> box[s].at, todo |-> box[s].todo, held |-> box[s].held]
       /\ box[s].todo \in Seq(Buckets \X Drivers) /\ box[s].held \in Seq(Buckets \X Drivers)
       /\ box[s].at = "off" => box[s].held = <<>>

Counted == \A m \in Managers, b \in Buckets, d \in Drivers : IsFiniteSet(Claims(m, b, d))

(* The books of a bucket that nothing spoiled: what the property says, that *)
(* the metadata kept for it names the one driver it is held through, and    *)
(* that one manager holds it.                                               *)
InOrder(b) ==
  /\ \A m \in Managers : count[m][b] = Held(m, b)
  /\ b \in mounted <=> \E m \in Managers : Holdings(m, b, "s3") > 0
  /\ b \notin creds
  /\ \A m \in Managers, d \in Drivers : Holdings(m, b, d) > 0 => meta[m][b] = d
  /\ \A m, n \in Managers : Held(m, b) > 0 /\ Held(n, b) > 0 => m = n

MountInv == MountsOK /\ Counted /\ \A b \in Buckets : b \notin spoiled => InOrder(b)

LEMMA HoldingsAre ==
  ASSUME NEW m, NEW b, NEW d
  PROVE  Holdings(m, b, d) = Cardinality(Claims(m, b, d))
BY DEF Holdings, Claims

LEMMA ClaimsAre ==
  ASSUME NEW m, NEW b, NEW d, NEW e
  PROVE  e \in Claims(m, b, d) <=>
           \E s \in Sandboxes : \E i \in DOMAIN box[s].held :
             e = <<s, i>> /\ wiring[s] = m /\ box[s].held[i] = <<b, d>>
BY DEF Claims

LEMMA HoldingsNat ==
  ASSUME Counted, NEW m \in Managers, NEW b \in Buckets, NEW d \in Drivers
  PROVE  Holdings(m, b, d) \in Nat
BY HoldingsAre, FS_CardinalityType DEF Counted

(* Nothing held changes. *)
LEMMA ClaimsSame ==
  ASSUME Counted, UNCHANGED wiring, \A s \in Sandboxes : box'[s].held = box[s].held
  PROVE  /\ Counted'
         /\ \A m, b, d : Holdings(m, b, d)' = Holdings(m, b, d)
<1>1. ASSUME NEW m, NEW b, NEW d PROVE Claims(m, b, d)' = Claims(m, b, d)
  <2>1. \A e : e \in Claims(m, b, d)' <=>
           \E s \in Sandboxes : \E i \in DOMAIN box'[s].held :
             e = <<s, i>> /\ wiring'[s] = m /\ box'[s].held[i] = <<b, d>>
    BY DEF Claims
  <2> QED BY <2>1, ClaimsAre
<1>2. ASSUME NEW m, NEW b, NEW d PROVE Holdings(m, b, d)' = Holdings(m, b, d)
  <2>1. Holdings(m, b, d)' = Cardinality(Claims(m, b, d)') BY DEF Holdings, Claims
  <2> QED BY <1>1, <2>1, HoldingsAre
<1>3. Counted' BY <1>1 DEF Counted, Drivers
<1> QED BY <1>2, <1>3

(* One more is held, at the end of a list. *)
LEMMA ClaimsGrow ==
  ASSUME MountsOK, Counted, NEW s \in Sandboxes, NEW b \in Buckets, NEW d \in Drivers,
         UNCHANGED wiring, \A o \in Sandboxes : o # s => box'[o].held = box[o].held,
         box'[s].held = Append(box[s].held, <<b, d>>)
  PROVE  /\ Counted'
         /\ \A m, c, e : m \in Managers /\ c \in Buckets /\ e \in Drivers =>
              Holdings(m, c, e)' = IF m = wiring[s] /\ c = b /\ e = d
                                     THEN Holdings(m, c, e) + 1 ELSE Holdings(m, c, e)
<1>1. /\ box[s].held \in Seq(Buckets \X Drivers) /\ <<b, d>> \in Buckets \X Drivers
  BY DEF MountsOK
<1>2. PICK l : l = Len(box[s].held) OBVIOUS
<1>3. /\ l \in Nat /\ DOMAIN box[s].held = 1 .. l /\ DOMAIN box'[s].held = 1 .. l + 1
      /\ \A i \in 1 .. l : box'[s].held[i] = box[s].held[i]
      /\ box'[s].held[l + 1] = <<b, d>>
  BY <1>1, <1>2, AppendProperties
<1>4. ASSUME NEW m, NEW c, NEW e
      PROVE  /\ m = wiring[s] /\ c = b /\ e = d =>
                  Claims(m, c, e)' = Claims(m, c, e) \cup {<<s, l + 1>>}
             /\ ~(m = wiring[s] /\ c = b /\ e = d) => Claims(m, c, e)' = Claims(m, c, e)
             /\ <<s, l + 1>> \notin Claims(m, c, e)
  <2>1. \A x : x \in Claims(m, c, e)' <=>
           \E o \in Sandboxes : \E i \in DOMAIN box'[o].held :
             x = <<o, i>> /\ wiring'[o] = m /\ box'[o].held[i] = <<c, e>>
    BY DEF Claims
  <2>2. \A x : x \in Claims(m, c, e) <=>
           \E o \in Sandboxes : \E i \in DOMAIN box[o].held :
             x = <<o, i>> /\ wiring[o] = m /\ box[o].held[i] = <<c, e>>
    BY ClaimsAre
  <2>3. <<s, l + 1>> \notin Claims(m, c, e) BY <1>3, <2>2
  <2>4. Claims(m, c, e) \subseteq Claims(m, c, e)'
    <3> SUFFICES ASSUME NEW x \in Claims(m, c, e) PROVE x \in Claims(m, c, e)' OBVIOUS
    <3>1. PICK o, i :
            /\ o \in Sandboxes /\ i \in DOMAIN box[o].held
            /\ x = <<o, i>> /\ wiring[o] = m /\ box[o].held[i] = <<c, e>>
      BY <2>2
    <3>2. i \in DOMAIN box'[o].held /\ box'[o].held[i] = box[o].held[i] BY <1>3, <3>1
    <3> QED BY <2>1, <3>1, <3>2
  <2>5. ASSUME NEW x \in Claims(m, c, e)', x # <<s, l + 1>> PROVE x \in Claims(m, c, e)
    <3>1. PICK o, i :
            /\ o \in Sandboxes /\ i \in DOMAIN box'[o].held
            /\ x = <<o, i>> /\ wiring[o] = m /\ box'[o].held[i] = <<c, e>>
      BY <2>1
    <3>2. i \in DOMAIN box[o].held /\ box'[o].held[i] = box[o].held[i] BY <1>3, <2>5, <3>1
    <3> QED BY <2>2, <3>1, <3>2
  <2>6. <<s, l + 1>> \in Claims(m, c, e)' <=> m = wiring[s] /\ c = b /\ e = d
    <3>1. l + 1 \in DOMAIN box'[s].held BY <1>3
    <3>2. CASE m = wiring[s] /\ c = b /\ e = d BY <1>3, <2>1, <3>1, <3>2
    <3>3. CASE ~(m = wiring[s] /\ c = b /\ e = d)
      <4> SUFFICES ASSUME <<s, l + 1>> \in Claims(m, c, e)' PROVE FALSE BY <3>3
      <4>1. PICK o, i :
            /\ o \in Sandboxes /\ i \in DOMAIN box'[o].held
            /\ <<s, l + 1>> = <<o, i>> /\ wiring[o] = m /\ box'[o].held[i] = <<c, e>>
        BY <2>1
      <4>2. o = s /\ i = l + 1 BY <4>1
      <4>3. <<b, d>> = <<c, e>> /\ wiring[s] = m BY <1>3, <4>1, <4>2
      <4> QED BY <3>3, <4>3
    <3> QED BY <3>2, <3>3
  <2> QED BY <2>3, <2>4, <2>5, <2>6
<1>5. ASSUME NEW m \in Managers, NEW c \in Buckets, NEW e \in Drivers
      PROVE  /\ IsFiniteSet(Claims(m, c, e)')
             /\ Holdings(m, c, e)' = IF m = wiring[s] /\ c = b /\ e = d
                                       THEN Holdings(m, c, e) + 1 ELSE Holdings(m, c, e)
  <2>1. Holdings(m, c, e)' = Cardinality(Claims(m, c, e)') BY DEF Holdings, Claims
  <2>2. IsFiniteSet(Claims(m, c, e)) BY DEF Counted
  <2>3. Holdings(m, c, e) = Cardinality(Claims(m, c, e)) BY HoldingsAre
  <2>4. CASE m = wiring[s] /\ c = b /\ e = d BY <1>4, <2>1, <2>2, <2>3, <2>4, FS_AddElement
  <2>5. CASE ~(m = wiring[s] /\ c = b /\ e = d) BY <1>4, <2>1, <2>2, <2>3, <2>5
  <2> QED BY <2>4, <2>5
<1>6. Counted' BY <1>5 DEF Counted, Drivers
<1> QED BY <1>5, <1>6

(* The first of a list is let go: the others move up. *)
LEMMA ClaimsShrink ==
  ASSUME MountsOK, Counted, NEW s \in Sandboxes, NEW b, NEW d,
         UNCHANGED wiring, \A o \in Sandboxes : o # s => box'[o].held = box[o].held,
         box[s].held # <<>>, Head(box[s].held) = <<b, d>>, box'[s].held = Tail(box[s].held)
  PROVE  /\ Counted'
         /\ \A m, c, e : m \in Managers /\ c \in Buckets /\ e \in Drivers =>
              Holdings(m, c, e)' = IF m = wiring[s] /\ c = b /\ e = d
                                     THEN Holdings(m, c, e) - 1 ELSE Holdings(m, c, e)
<1>1. box[s].held \in Seq(Buckets \X Drivers) BY DEF MountsOK
<1>2. PICK l : l = Len(box[s].held) OBVIOUS
<1>3. /\ l \in Nat \ {0} /\ DOMAIN box[s].held = 1 .. l /\ DOMAIN box'[s].held = 1 .. l - 1
      /\ \A i \in 1 .. l - 1 : box'[s].held[i] = box[s].held[i + 1]
      /\ box[s].held[1] = <<b, d>>
  BY <1>1, <1>2, HeadTailProperties
<1>4. ASSUME NEW m \in Managers, NEW c \in Buckets, NEW e \in Drivers
      PROVE  /\ IsFiniteSet(Claims(m, c, e)')
             /\ Holdings(m, c, e)' = IF m = wiring[s] /\ c = b /\ e = d
                                       THEN Holdings(m, c, e) - 1 ELSE Holdings(m, c, e)
  <2>1. \A x : x \in Claims(m, c, e)' <=>
           \E o \in Sandboxes : \E i \in DOMAIN box'[o].held :
             x = <<o, i>> /\ wiring'[o] = m /\ box'[o].held[i] = <<c, e>>
    BY DEF Claims
  <2>2. \A x : x \in Claims(m, c, e) <=>
           \E o \in Sandboxes : \E i \in DOMAIN box[o].held :
             x = <<o, i>> /\ wiring[o] = m /\ box[o].held[i] = <<c, e>>
    BY ClaimsAre
  <2>3. PICK A : A = Claims(m, c, e) \ {<<s, 1>>} OBVIOUS
  <2>4. PICK B : B = Claims(m, c, e)' OBVIOUS
  <2>5. PICK f : f = [x \in A |-> IF x[1] = s THEN <<s, x[2] - 1>> ELSE x] OBVIOUS
  <2>6. ASSUME NEW x \in A
        PROVE  \E o \in Sandboxes : \E i \in DOMAIN box[o].held :
                 /\ x = <<o, i>> /\ wiring[o] = m /\ box[o].held[i] = <<c, e>>
                 /\ x[1] = o /\ x[2] = i /\ (o = s => i # 1)
    <3>1. PICK o, i :
            /\ o \in Sandboxes /\ i \in DOMAIN box[o].held
            /\ x = <<o, i>> /\ wiring[o] = m /\ box[o].held[i] = <<c, e>>
      BY <2>2, <2>3
    <3> QED BY <2>3, <3>1
  <2>7. f \in [A -> B]
    <3> SUFFICES ASSUME NEW x \in A PROVE f[x] \in B BY <2>5
    <3>1. PICK o, i :
            /\ o \in Sandboxes /\ i \in DOMAIN box[o].held
            /\ x = <<o, i>> /\ wiring[o] = m /\ box[o].held[i] = <<c, e>>
            /\ x[1] = o /\ x[2] = i /\ (o = s => i # 1)
      BY <2>6
    <3>2. CASE o = s
      <4>1. i - 1 \in 1 .. l - 1 /\ (i - 1) + 1 = i BY <1>3, <3>1, <3>2
      <4>2. i - 1 \in DOMAIN box'[s].held /\ box'[s].held[i - 1] = <<c, e>> BY <1>3, <3>1, <3>2, <4>1
      <4>3. f[x] = <<s, i - 1>> BY <2>5, <3>1, <3>2
      <4> QED BY <2>1, <2>4, <3>1, <3>2, <4>2, <4>3
    <3>3. CASE o # s
      <4>1. f[x] = x BY <2>5, <3>1, <3>3
      <4> QED BY <2>1, <2>4, <3>1, <3>3, <4>1
    <3> QED BY <3>2, <3>3
  <2>8. \A x, y \in A : f[x] = f[y] => x = y
    <3> SUFFICES ASSUME NEW x \in A, NEW y \in A, f[x] = f[y] PROVE x = y OBVIOUS
    <3>1. PICK o, i :
            /\ o \in Sandboxes /\ i \in DOMAIN box[o].held
            /\ x = <<o, i>> /\ x[1] = o /\ x[2] = i
      BY <2>6
    <3>2. PICK p, j :
            /\ p \in Sandboxes /\ j \in DOMAIN box[p].held
            /\ y = <<p, j>> /\ y[1] = p /\ y[2] = j
      BY <2>6
    <3>3. f[x] = (IF o = s THEN <<s, i - 1>> ELSE <<o, i>>) /\ f[y] = (IF p = s THEN <<s, j - 1>> ELSE <<p, j>>)
      BY <2>5, <3>1, <3>2
    <3>4. o = p
      <4>1. CASE o = s /\ p # s
        <5>1. <<s, i - 1>> = <<p, j>> BY <3>3, <4>1
        <5> QED BY <4>1, <5>1
      <4>2. CASE o # s /\ p = s
        <5>1. <<o, i>> = <<s, j - 1>> BY <3>3, <4>2
        <5> QED BY <4>2, <5>1
      <4>3. CASE o # s /\ p # s
        <5>1. <<o, i>> = <<p, j>> BY <3>3, <4>3
        <5> QED BY <5>1
      <4> QED BY <4>1, <4>2, <4>3
    <3>5. CASE o = s
      <4>1. i \in Int /\ j \in Int /\ i - 1 = j - 1 BY <1>3, <3>1, <3>2, <3>3, <3>4, <3>5
      <4> QED BY <3>1, <3>2, <3>4, <4>1
    <3>6. CASE o # s BY <3>1, <3>2, <3>3, <3>4, <3>6
    <3> QED BY <3>5, <3>6
  <2>9. \A y \in B : \E x \in A : f[x] = y
    <3> SUFFICES ASSUME NEW y \in B PROVE \E x \in A : f[x] = y OBVIOUS
    <3>1. PICK o, i :
            /\ o \in Sandboxes /\ i \in DOMAIN box'[o].held
            /\ y = <<o, i>> /\ wiring[o] = m /\ box'[o].held[i] = <<c, e>>
      BY <2>1, <2>4
    <3>2. CASE o = s
      <4>0. i \in 1 .. l - 1 BY <1>3, <3>1, <3>2
      <4>1. i + 1 \in 1 .. l /\ i + 1 # 1 /\ (i + 1) - 1 = i BY <1>3, <4>0
      <4>2. PICK x : x = <<s, i + 1>> OBVIOUS
      <4>3. x \in Claims(m, c, e)
        <5>1. box[s].held[i + 1] = <<c, e>> BY <1>3, <3>1, <3>2, <4>0
        <5> QED BY <1>3, <2>2, <3>1, <3>2, <4>1, <4>2, <5>1
      <4>4. x[1] = s /\ x[2] = i + 1 /\ x # <<s, 1>> BY <4>1, <4>2
      <4>5. f[x] = y BY <2>3, <2>5, <3>1, <3>2, <4>1, <4>3, <4>4
      <4> QED BY <2>3, <4>3, <4>4, <4>5
    <3>3. CASE o # s
      <4>1. y \in Claims(m, c, e) BY <2>2, <3>1, <3>3
      <4>2. y[1] = o /\ y # <<s, 1>> BY <3>1, <3>3
      <4> QED BY <2>3, <2>5, <3>3, <4>1, <4>2
    <3> QED BY <3>2, <3>3
  <2>10. ExistsBijection(A, B)
    BY <2>7, <2>8, <2>9 DEF ExistsBijection, Bijection, Injection, Surjection, IsInjective
  <2>11. IsFiniteSet(Claims(m, c, e)) BY DEF Counted
  <2>12. /\ IsFiniteSet(A)
         /\ Cardinality(A) = IF <<s, 1>> \in Claims(m, c, e)
                             THEN Cardinality(Claims(m, c, e)) - 1 ELSE Cardinality(Claims(m, c, e))
    BY <2>3, <2>11, FS_RemoveElement
  <2>13. IsFiniteSet(B) /\ Cardinality(B) = Cardinality(A) BY <2>10, <2>12, FS_Bijection
  <2>14. <<s, 1>> \in Claims(m, c, e) <=> m = wiring[s] /\ c = b /\ e = d
    <3>1. 1 \in DOMAIN box[s].held BY <1>3
    <3>2. CASE m = wiring[s] /\ c = b /\ e = d BY <1>3, <2>2, <3>1, <3>2
    <3>3. CASE ~(m = wiring[s] /\ c = b /\ e = d)
      <4> SUFFICES ASSUME <<s, 1>> \in Claims(m, c, e) PROVE FALSE BY <3>3
      <4>1. PICK o, i :
            /\ o \in Sandboxes /\ i \in DOMAIN box[o].held
            /\ <<s, 1>> = <<o, i>> /\ wiring[o] = m /\ box[o].held[i] = <<c, e>>
        BY <2>2
      <4>2. o = s /\ i = 1 BY <4>1
      <4>3. <<b, d>> = <<c, e>> /\ wiring[s] = m BY <1>3, <4>1, <4>2
      <4> QED BY <3>3, <4>3
    <3> QED BY <3>2, <3>3
  <2>15. Holdings(m, c, e)' = Cardinality(B) BY <2>4 DEF Holdings, Claims
  <2>16. Holdings(m, c, e) = Cardinality(Claims(m, c, e)) BY HoldingsAre
  <2> QED BY <2>4, <2>12, <2>13, <2>14, <2>15, <2>16
<1>5. Counted' BY <1>4 DEF Counted, Drivers
<1> QED BY <1>4, <1>5

-----------------------------------------------------------------------------
(* Each step keeps the books of the mounts.                                *)

CountType == [Managers -> [Buckets -> Nat]]
MetaType == [Managers -> [Buckets -> Drivers \cup {"none"}]]

IsBox(r) ==
  /\ \E at, todo, held : r = [at |-> at, todo |-> todo, held |-> held]
  /\ r.todo \in Seq(Buckets \X Drivers) /\ r.held \in Seq(Buckets \X Drivers)
  /\ r.at = "off" => r.held = <<>>

(* One sandbox moves on. *)
LEMMA BoxStep ==
  ASSUME MountsOK, NEW s \in Sandboxes, NEW r, IsBox(r), box' = [box EXCEPT ![s] = r],
         UNCHANGED wiring, count' \in CountType, meta' \in MetaType
  PROVE  /\ MountsOK'
         /\ box'[s] = r
         /\ \A o \in Sandboxes : o # s => box'[o] = box[o]
<1>1. /\ box'[s] = r
      /\ \A o \in Sandboxes : o # s => box'[o] = box[o]
      /\ box' = [o \in Sandboxes |-> box'[o]]
  BY DEF MountsOK
<1>2. ASSUME NEW o \in Sandboxes
      PROVE  /\ box'[o] = [at |-> box'[o].at, todo |-> box'[o].todo, held |-> box'[o].held]
             /\ box'[o].todo \in Seq(Buckets \X Drivers) /\ box'[o].held \in Seq(Buckets \X Drivers)
             /\ box'[o].at = "off" => box'[o].held = <<>>
  <2>1. CASE o = s BY <1>1, <2>1 DEF IsBox
  <2>2. CASE o # s BY <1>1, <2>2 DEF MountsOK
  <2> QED BY <2>1, <2>2
<1>3. wiring' \in [Sandboxes -> Managers] BY DEF MountsOK
<1> QED BY <1>1, <1>2, <1>3 DEF MountsOK, CountType, MetaType

(* One entry of the count, or of the metadata, changes. *)
LEMMA OneCounted ==
  ASSUME count \in CountType, NEW m \in Managers, NEW b \in Buckets, NEW n \in Nat
  PROVE  [count EXCEPT ![m][b] = n] \in CountType
BY DEF CountType

LEMMA OneNoted ==
  ASSUME meta \in MetaType, NEW m \in Managers, NEW b \in Buckets, NEW d \in Drivers \cup {"none"}
  PROVE  [meta EXCEPT ![m][b] = d] \in MetaType
BY DEF MetaType

(* Nothing about bucket b changes. *)
LEMMA OrderSame ==
  ASSUME NEW b, InOrder(b),
         \A m \in Managers, d \in Drivers : Holdings(m, b, d)' = Holdings(m, b, d),
         \A m \in Managers : count'[m][b] = count[m][b] /\ meta'[m][b] = meta[m][b],
         b \in mounted' <=> b \in mounted, b \notin creds'
  PROVE  InOrder(b)'
<1>1. \A m \in Managers : Held(m, b)' = Held(m, b) BY DEF Held, Drivers
<1> QED BY <1>1 DEF InOrder, Drivers

LEMMA BoxShape ==
  ASSUME MountsOK, NEW s \in Sandboxes
  PROVE  /\ IsBox(box[s])
         /\ box[s].todo \in Seq(Buckets \X Drivers) /\ box[s].held \in Seq(Buckets \X Drivers)
         /\ wiring[s] \in Managers
         /\ count \in CountType /\ meta \in MetaType
BY DEF MountsOK, CountType, MetaType, IsBox

(* The records the steps put in place of a box. *)
LEMMA NewBox ==
  ASSUME NEW at, NEW todo \in Seq(Buckets \X Drivers), NEW held \in Seq(Buckets \X Drivers),
         at = "off" => held = <<>>, NEW r, r = [at |-> at, todo |-> todo, held |-> held]
  PROVE  IsBox(r) /\ r.held = held
BY DEF IsBox

LEMMA BoxMoves ==
  ASSUME NEW r, IsBox(r), NEW q, NEW at, at # "off",
         q = [r EXCEPT !.at = at] \/ q = [r EXCEPT !.at = at, !.todo = <<>>]
  PROVE  IsBox(q) /\ q.held = r.held
<1>1. PICK a, t, l : r = [at |-> a, todo |-> t, held |-> l] BY DEF IsBox
<1>2. t \in Seq(Buckets \X Drivers) /\ l \in Seq(Buckets \X Drivers) /\ r.held = l
  BY <1>1 DEF IsBox
<1>3. <<>> \in Seq(Buckets \X Drivers) OBVIOUS
<1>4. CASE q = [r EXCEPT !.at = at]
  <2>1. q = [at |-> at, todo |-> t, held |-> l] BY <1>1, <1>4
  <2> QED BY <1>2, <2>1, NewBox
<1>5. CASE q = [r EXCEPT !.at = at, !.todo = <<>>]
  <2>1. q = [at |-> at, todo |-> <<>>, held |-> l] BY <1>1, <1>5
  <2> QED BY <1>2, <1>3, <2>1, NewBox
<1> QED BY <1>4, <1>5

LEMMA BoxHolds ==
  ASSUME NEW r, IsBox(r), r.at # "off", NEW held \in Seq(Buckets \X Drivers),
         NEW q, q = [r EXCEPT !.held = held]
  PROVE  IsBox(q) /\ q.held = held
<1>1. PICK a, t, l : r = [at |-> a, todo |-> t, held |-> l] BY DEF IsBox
<1>2. t \in Seq(Buckets \X Drivers) /\ a # "off" BY <1>1 DEF IsBox
<1>3. q = [at |-> a, todo |-> t, held |-> held] BY <1>1
<1>4. held \in Seq(Buckets \X Drivers) OBVIOUS
<1> QED BY <1>2, <1>3, <1>4 DEF IsBox

LEMMA OffBox == IsBox(Off) /\ Off.held = <<>> /\ Off.at = "off"
<1>1. <<>> \in Seq(Buckets \X Drivers) OBVIOUS
<1> QED BY <1>1 DEF Off, IsBox

LEMMA QuietStep ==
  ASSUME ListsNameVolumes, MountInv, NEW s \in Sandboxes,
         \/ \E list \in Mounts : AttachVolumes(s, list)
         \/ \E late \in BOOLEAN : AttachRefused(s, late)
         \/ Run(s) \/ Exit(s) \/ GaveUp(s)
  PROVE  MountInv'
<1>1. UNCHANGED <<wiring, count, meta, mounted, spoiled>> /\ creds' \subseteq creds
  BY DEF AttachVolumes, AttachRefused, Run, Exit, GaveUp
<1>2. MountsOK /\ Counted BY DEF MountInv
<1>3. PICK r : box' = [box EXCEPT ![s] = r] /\ IsBox(r) /\ r.held = box[s].held
  <2>1. IsBox(box[s]) BY <1>2, BoxShape
  <2>2. ASSUME NEW list \in Mounts, AttachVolumes(s, list)
        PROVE  \E r : box' = [box EXCEPT ![s] = r] /\ IsBox(r) /\ r.held = box[s].held
    <3>1. /\ box' = [box EXCEPT ![s] = [at |-> "attach", todo |-> list, held |-> <<>>]]
          /\ list \in Seq(Buckets \X Drivers) /\ box[s].held = <<>>
      BY <2>2 DEF AttachVolumes, ListsNameVolumes, Drivers, Off
    <3>2. PICK r : r = [at |-> "attach", todo |-> list, held |-> <<>>] OBVIOUS
    <3>3. <<>> \in Seq(Buckets \X Drivers) /\ "attach" # "off" OBVIOUS
    <3>4. IsBox(r) /\ r.held = <<>> BY <3>1, <3>2, <3>3 DEF IsBox
    <3> QED BY <3>1, <3>2, <3>4
  <2>3. CASE \E late \in BOOLEAN : AttachRefused(s, late)
    <3>1. box' = [box EXCEPT ![s] = [box[s] EXCEPT !.at = "undo", !.todo = <<>>]]
      BY <2>3 DEF AttachRefused, GiveUp
    <3>2. PICK r : r = [box[s] EXCEPT !.at = "undo", !.todo = <<>>] OBVIOUS
    <3>3. IsBox(r) /\ r.held = box[s].held BY <2>1, <3>2, BoxMoves
    <3> QED BY <3>1, <3>2, <3>3
  <2>4. CASE Run(s)
    <3>1. box' = [box EXCEPT ![s] = [box[s] EXCEPT !.at = "run"]] BY <2>4 DEF Run
    <3>2. PICK r : r = [box[s] EXCEPT !.at = "run"] OBVIOUS
    <3>3. IsBox(r) /\ r.held = box[s].held BY <2>1, <3>2, BoxMoves
    <3> QED BY <3>1, <3>2, <3>3
  <2>5. CASE Exit(s)
    <3>1. box' = [box EXCEPT ![s] = [box[s] EXCEPT !.at = "undo"]] BY <2>5 DEF Exit
    <3>2. PICK r : r = [box[s] EXCEPT !.at = "undo"] OBVIOUS
    <3>3. IsBox(r) /\ r.held = box[s].held BY <2>1, <3>2, BoxMoves
    <3> QED BY <3>1, <3>2, <3>3
  <2>6. CASE GaveUp(s)
    <3>1. box' = [box EXCEPT ![s] = Off] /\ box[s].held = <<>> BY <2>6 DEF GaveUp
    <3> QED BY <3>1, OffBox
  <2> QED BY <2>2, <2>3, <2>4, <2>5, <2>6
<1>4. count' \in CountType /\ meta' \in MetaType BY <1>1, <1>2, BoxShape
<1>5. UNCHANGED wiring BY <1>1
<1>6. /\ MountsOK' /\ box'[s] = r
      /\ \A o \in Sandboxes : o # s => box'[o] = box[o]
  BY <1>2, <1>3, <1>4, <1>5, BoxStep
<1>7. \A o \in Sandboxes : box'[o].held = box[o].held BY <1>3, <1>6
<1>8. Counted' /\ \A m, b, d : Holdings(m, b, d)' = Holdings(m, b, d)
  BY <1>1, <1>2, <1>7, ClaimsSame
<1>9. ASSUME NEW b \in Buckets, b \notin spoiled' PROVE InOrder(b)'
  <2>1. InOrder(b) /\ b \notin creds' BY <1>1, <1>9 DEF MountInv, InOrder
  <2> QED BY <1>1, <1>8, <2>1, OrderSame
<1> QED BY <1>6, <1>8, <1>9 DEF MountInv

LEMMA AttachOkStep ==
  ASSUME MountInv, NEW s \in Sandboxes, AttachOk(s)
  PROVE  MountInv'
<1>1. MountsOK /\ Counted BY DEF MountInv
<1>2. box[s].at = "attach" /\ box[s].todo # <<>> /\ box[s].todo \in Seq(Buckets \X Drivers)
  BY <1>1, BoxShape DEF AttachOk, Attaching
<1>3. Head(box[s].todo) \in Buckets \X Drivers /\ Tail(box[s].todo) \in Seq(Buckets \X Drivers)
  BY <1>2, HeadTailProperties
<1>4. PICK m, b, d : /\ m = wiring[s] /\ b = Head(box[s].todo)[1] /\ d = Head(box[s].todo)[2]
                     /\ m \in Managers /\ b \in Buckets /\ d \in Drivers
  BY <1>1, <1>3, BoxShape
<1>5. PICK other : other = IF d = "s3" THEN "builtin" ELSE "s3" OBVIOUS
<1>6. /\ count' = [count EXCEPT ![m][b] = @ + 1]
      /\ meta' = [meta EXCEPT ![m][b] = d]
      /\ mounted' = IF d = "s3" THEN mounted \cup {b} ELSE mounted
      /\ box' = [box EXCEPT ![s] = [at |-> "attach", todo |-> Tail(@.todo), held |-> Append(@.held, <<b, d>>)]]
      /\ spoiled' = IF Holdings(m, b, other) > 0 \/ \E n \in Managers \ {m} : Held(n, b) > 0
                    THEN spoiled \cup {b} ELSE spoiled
      /\ UNCHANGED wiring /\ creds' \subseteq creds
  BY <1>4, <1>5 DEF AttachOk
<1>7. PICK held : held = Append(box[s].held, <<b, d>>) OBVIOUS
<1>8. PICK todo : todo = Tail(box[s].todo) OBVIOUS
<1>9. PICK r : r = [at |-> "attach", todo |-> todo, held |-> held] /\ box' = [box EXCEPT ![s] = r]
  BY <1>6, <1>7, <1>8
<1>10. held \in Seq(Buckets \X Drivers) BY <1>1, <1>4, <1>7, BoxShape, AppendProperties
<1>11. count' \in CountType /\ meta' \in MetaType
  <2>1. count[m][b] + 1 \in Nat BY <1>1, <1>4, BoxShape DEF CountType
  <2> QED BY <1>1, <1>4, <1>6, <2>1, OneCounted, OneNoted, BoxShape
<1>12. IsBox(r) /\ r.held = held
  <2>1. todo \in Seq(Buckets \X Drivers) BY <1>3, <1>8
  <2> QED BY <1>9, <1>10, <2>1, NewBox
<1>14. UNCHANGED wiring BY <1>6
<1>15. /\ MountsOK' /\ box'[s] = r
       /\ \A o \in Sandboxes : o # s => box'[o] = box[o]
  BY <1>1, <1>9, <1>11, <1>12, <1>14, BoxStep
<1>16. box'[s].held = Append(box[s].held, <<b, d>>) BY <1>7, <1>12, <1>15
<1>17. \A o \in Sandboxes : o # s => box'[o].held = box[o].held BY <1>15
<1>18. /\ Counted'
       /\ \A n, c, e : n \in Managers /\ c \in Buckets /\ e \in Drivers =>
            Holdings(n, c, e)' = IF n = wiring[s] /\ c = b /\ e = d
                                   THEN Holdings(n, c, e) + 1 ELSE Holdings(n, c, e)
  BY <1>1, <1>4, <1>14, <1>16, <1>17, ClaimsGrow
<1>19. \A n, c, e : n \in Managers /\ c \in Buckets /\ e \in Drivers =>
         Holdings(n, c, e)' = IF n = m /\ c = b /\ e = d
                                THEN Holdings(n, c, e) + 1 ELSE Holdings(n, c, e)
  BY <1>4, <1>18
<1>13. ASSUME NEW c \in Buckets, c \notin spoiled' PROVE InOrder(c)'
  <2>1. c \notin spoiled /\ InOrder(c) BY <1>6, <1>13 DEF MountInv
  <2>2. CASE c # b
    <3>1. \A n \in Managers : count'[n][c] = count[n][c] /\ meta'[n][c] = meta[n][c]
      BY <1>1, <1>4, <1>6, <2>2, BoxShape DEF CountType, MetaType
    <3>2. (c \in mounted' <=> c \in mounted) /\ c \notin creds' BY <1>6, <2>1, <2>2 DEF InOrder
    <3> QED BY <1>19, <2>1, <2>2, <3>1, <3>2, OrderSame
  <2>3. CASE c = b
    <3>1. ~(Holdings(m, b, other) > 0) /\ \A n \in Managers \ {m} : ~(Held(n, b) > 0)
      BY <1>6, <1>13, <2>3
    <3>2. \A n \in Managers, e \in Drivers : Holdings(n, b, e) \in Nat BY <1>1, <1>4, HoldingsNat
    <3>3. /\ Holdings(m, b, other) = 0 /\ other \in Drivers /\ Drivers = {d, other} /\ other # d
          /\ \A n \in Managers \ {m}, e \in Drivers : Holdings(n, b, e) = 0
      BY <1>4, <1>5, <3>1, <3>2 DEF Held, Drivers
    <3>4. /\ Holdings(m, b, d)' = Holdings(m, b, d) + 1 /\ Holdings(m, b, other)' = 0
          /\ \A n \in Managers \ {m}, e \in Drivers : Holdings(n, b, e)' = 0
      BY <1>4, <1>19, <3>3
    <3>5. /\ \A n \in Managers : Held(n, b) = Holdings(n, b, d) + Holdings(n, b, other)
          /\ \A n \in Managers : Held(n, b)' = Holdings(n, b, d)' + Holdings(n, b, other)'
      <4>1. CASE d = "s3" BY <1>5, <4>1 DEF Held
      <4>2. CASE d = "builtin"
        <5>1. other = "s3" BY <1>5, <4>2
        <5>2. /\ \A n \in Managers, e \in Drivers : Holdings(n, b, e) \in Nat
              /\ \A n \in Managers, e \in Drivers : Holdings(n, b, e)' \in Nat
          BY <1>4, <1>19, <3>2
        <5> QED BY <4>2, <5>1, <5>2 DEF Held, Drivers
      <4> QED BY <1>4, <4>1, <4>2 DEF Drivers
    <3>6. /\ Held(m, b)' = Held(m, b) + 1 /\ Held(m, b) \in Nat
          /\ \A n \in Managers \ {m} : Held(n, b)' = 0 /\ Held(n, b) = 0
      BY <1>4, <3>2, <3>3, <3>4, <3>5
    <3>7. \A n \in Managers : count'[n][b] = Held(n, b)'
      <4>1. count'[m][b] = count[m][b] + 1 /\ \A n \in Managers \ {m} : count'[n][b] = count[n][b]
        BY <1>1, <1>4, <1>6, BoxShape DEF CountType
      <4> QED BY <1>4, <2>1, <2>3, <3>6, <4>1 DEF InOrder
    <3>8. b \in mounted' <=> \E n \in Managers : Holdings(n, b, "s3")' > 0
      <4>1. CASE d = "s3"
        <5>1. Holdings(m, b, "s3")' > 0 BY <1>4, <3>2, <3>4, <4>1
        <5> QED BY <1>4, <1>6, <4>1, <5>1
      <4>2. CASE d = "builtin"
        <5>1. other = "s3" /\ mounted' = mounted BY <1>5, <1>6, <4>2
        <5>2. \A n \in Managers : ~(Holdings(n, b, "s3") > 0) BY <1>4, <3>3, <5>1
        <5>3. \A n \in Managers : ~(Holdings(n, b, "s3")' > 0) BY <1>4, <3>3, <3>4, <5>1
        <5> QED BY <2>1, <2>3, <5>1, <5>2, <5>3 DEF InOrder
      <4> QED BY <1>4, <4>1, <4>2 DEF Drivers
    <3>9. b \notin creds' BY <1>6, <2>1, <2>3 DEF InOrder
    <3>10. \A n \in Managers, e \in Drivers : Holdings(n, b, e)' > 0 => meta'[n][b] = e
      <4>1. meta'[m][b] = d BY <1>1, <1>4, <1>6, BoxShape DEF MetaType
      <4>2. \A n \in Managers, e \in Drivers : Holdings(n, b, e)' > 0 => n = m /\ e = d
        BY <1>4, <3>3, <3>4
      <4> QED BY <4>1, <4>2
    <3>11. \A n, o \in Managers : Held(n, b)' > 0 /\ Held(o, b)' > 0 => n = o
      <4>1. \A n \in Managers : Held(n, b)' > 0 => n = m BY <3>6
      <4> QED BY <4>1
    <3> QED BY <2>3, <3>7, <3>8, <3>9, <3>10, <3>11 DEF InOrder
  <2> QED BY <2>2, <2>3
<1> QED BY <1>13, <1>15, <1>18 DEF MountInv

(* The other failures of an attachment. *)
LEMMA GivenUp ==
  ASSUME MountsOK, Counted, NEW s \in Sandboxes, GiveUp(s), UNCHANGED <<wiring, count, meta>>
  PROVE  MountsOK' /\ Counted' /\ \A m, b, d : Holdings(m, b, d)' = Holdings(m, b, d)
<1>1. box' = [box EXCEPT ![s] = [box[s] EXCEPT !.at = "undo", !.todo = <<>>]] BY DEF GiveUp
<1>2. PICK r : r = [box[s] EXCEPT !.at = "undo", !.todo = <<>>] OBVIOUS
<1>3. IsBox(r) /\ r.held = box[s].held BY <1>2, BoxShape, BoxMoves
<1>4. box' = [box EXCEPT ![s] = r] /\ count' \in CountType /\ meta' \in MetaType /\ UNCHANGED wiring
  BY <1>1, <1>2, BoxShape
<1>5. MountsOK' /\ box'[s] = r /\ \A o \in Sandboxes : o # s => box'[o] = box[o]
  BY <1>3, <1>4, BoxStep
<1>6. \A o \in Sandboxes : box'[o].held = box[o].held BY <1>3, <1>5
<1> QED BY <1>4, <1>5, <1>6, ClaimsSame

LEMMA AttachingNames ==
  ASSUME MountsOK, NEW s \in Sandboxes, Attaching(s)
  PROVE  /\ Head(box[s].todo)[1] \in Buckets /\ Head(box[s].todo)[2] \in Drivers
         /\ wiring[s] \in Managers
<1>1. box[s].todo # <<>> /\ box[s].todo \in Seq(Buckets \X Drivers) BY BoxShape DEF Attaching
<1>2. Head(box[s].todo) \in Buckets \X Drivers BY <1>1, HeadTailProperties
<1> QED BY <1>2, BoxShape

LEMMA CredsLeftStep ==
  ASSUME MountInv, NEW s \in Sandboxes, AttachCredsLeft(s) \/ CompensationFails(s)
  PROVE  MountInv'
<1>1. MountsOK /\ Counted BY DEF MountInv
<1>2. GiveUp(s) /\ UNCHANGED <<wiring, count, meta>> BY DEF AttachCredsLeft, CompensationFails
<1>3. MountsOK' /\ Counted' /\ \A m, b, d : Holdings(m, b, d)' = Holdings(m, b, d)
  BY <1>1, <1>2, GivenUp
<1>4. PICK b : /\ mounted' = mounted \/ mounted' = mounted \cup {b}
               /\ creds' \subseteq creds \cup {b} /\ spoiled' = spoiled \cup {b}
  BY DEF AttachCredsLeft, CompensationFails
<1>5. ASSUME NEW c \in Buckets, c \notin spoiled' PROVE InOrder(c)'
  <2>1. c # b /\ InOrder(c) BY <1>4, <1>5 DEF MountInv
  <2>2. (c \in mounted' <=> c \in mounted) /\ c \notin creds' BY <1>4, <2>1 DEF InOrder
  <2> QED BY <1>2, <1>3, <2>1, <2>2, OrderSame
<1> QED BY <1>3, <1>5 DEF MountInv

(* A rejected answer: an unmount happens only when nobody holds the bucket. *)
LEMMA RejectedStep ==
  ASSUME MountInv, NEW s \in Sandboxes, AttachRejected(s)
  PROVE  MountInv'
<1>1. MountsOK /\ Counted BY DEF MountInv
<1>2. Attaching(s) /\ GiveUp(s) /\ UNCHANGED <<wiring, count, meta>> BY DEF AttachRejected
<1>3. MountsOK' /\ Counted' /\ \A m, b, d : Holdings(m, b, d)' = Holdings(m, b, d)
  BY <1>1, <1>2, GivenUp
<1>4. PICK m, b : m = wiring[s] /\ b = Head(box[s].todo)[1] /\ m \in Managers /\ b \in Buckets
  BY <1>1, <1>2, AttachingNames
<1>5. \/ UNCHANGED <<mounted, creds, spoiled>>
      \/ /\ compensateDetach(m, b)
         /\ spoiled' = IF Holdings(m, b, "builtin") > 0 \/ \E n \in Managers \ {m} : Held(n, b) > 0
                       THEN spoiled \cup {b} ELSE spoiled
  BY <1>4 DEF AttachRejected
<1>6. ASSUME NEW c \in Buckets, c \notin spoiled' PROVE InOrder(c)'
  <2>1. InOrder(c) /\ c \notin creds BY <1>5, <1>6 DEF MountInv, InOrder
  <2>2. (c \in mounted' <=> c \in mounted) /\ c \notin creds'
    <3>1. CASE UNCHANGED <<mounted, creds, spoiled>> BY <2>1, <3>1
    <3>2. CASE compensateDetach(m, b) /\ c # b
      BY <2>1, <3>2 DEF compensateDetach
    <3>3. CASE /\ compensateDetach(m, b) /\ c = b
               /\ ~(Holdings(m, b, "builtin") > 0) /\ \A n \in Managers \ {m} : ~(Held(n, b) > 0)
      <4>1. \A n \in Managers, e \in Drivers : Holdings(n, b, e) \in Nat BY <1>1, <1>4, HoldingsNat
      <4>2. /\ Holdings(m, b, "builtin") = 0
            /\ \A n \in Managers \ {m} : Holdings(n, b, "s3") = 0
        BY <1>4, <3>3, <4>1 DEF Held, Drivers
      <4>3. count[m][b] = Holdings(m, b, "s3") /\ Holdings(m, b, "s3") \in Nat
        BY <1>4, <2>1, <3>3, <4>1, <4>2 DEF InOrder, Held, Drivers
      <4>4. b \in mounted <=> Holdings(m, b, "s3") > 0
        BY <1>4, <2>1, <3>3, <4>2 DEF InOrder
      <4>5. CASE count[m][b] = 0
        <5>1. b \notin mounted BY <4>3, <4>4, <4>5
        <5> QED BY <2>1, <3>3, <4>5, <5>1 DEF compensateDetach
      <4>6. CASE count[m][b] # 0
        <5>1. b \in mounted BY <4>3, <4>4, <4>6
        <5> QED BY <2>1, <3>3, <4>6, <5>1 DEF compensateDetach
      <4> QED BY <4>5, <4>6
    <3> QED BY <1>5, <1>6, <3>1, <3>2, <3>3
  <2> QED BY <1>2, <1>3, <2>1, <2>2, OrderSame
<1> QED BY <1>3, <1>6 DEF MountInv

(* A detachment: the first of the list is let go. *)
LEMMA LetGo ==
  ASSUME MountsOK, Counted, NEW s \in Sandboxes, Detaching(s), Drop(s), UNCHANGED wiring,
         count' \in CountType, meta' \in MetaType
  PROVE  /\ MountsOK' /\ Counted'
         /\ \E m \in Managers, b \in Buckets, d \in Drivers :
              /\ m = wiring[s] /\ b = Head(box[s].held)[1] /\ d = Head(box[s].held)[2]
              /\ Holdings(m, b, d) > 0
              /\ \A n, c, e : n \in Managers /\ c \in Buckets /\ e \in Drivers =>
                   Holdings(n, c, e)' = IF n = m /\ c = b /\ e = d
                                          THEN Holdings(n, c, e) - 1 ELSE Holdings(n, c, e)
<1>1. box[s].at = "undo" /\ box[s].held # <<>> /\ box[s].held \in Seq(Buckets \X Drivers)
  BY BoxShape DEF Detaching
<1>2. Head(box[s].held) \in Buckets \X Drivers /\ Tail(box[s].held) \in Seq(Buckets \X Drivers)
  BY <1>1, HeadTailProperties
<1>3. PICK m, b, d : /\ m = wiring[s] /\ b = Head(box[s].held)[1] /\ d = Head(box[s].held)[2]
                     /\ Head(box[s].held) = <<b, d>>
                     /\ m \in Managers /\ b \in Buckets /\ d \in Drivers
  BY <1>2, BoxShape
<1>4. PICK rest : rest = Tail(box[s].held) OBVIOUS
<1>5. PICK r : box' = [box EXCEPT ![s] = r] /\ IsBox(r) /\ r.held = rest
  <2>0. box' = [box EXCEPT ![s] = IF rest = <<>> THEN Off ELSE [box[s] EXCEPT !.held = rest]]
    BY <1>4 DEF Drop
  <2>1. CASE rest = <<>>
    <3>1. box' = [box EXCEPT ![s] = Off] BY <2>0, <2>1
    <3> QED BY <2>1, <3>1, OffBox
  <2>2. CASE rest # <<>>
    <3>1. PICK r : r = [box[s] EXCEPT !.held = rest] OBVIOUS
    <3>2. box' = [box EXCEPT ![s] = r] BY <2>0, <2>2, <3>1
    <3>3. IsBox(box[s]) /\ box[s].at # "off" BY <1>1, BoxShape
    <3>4. rest \in Seq(Buckets \X Drivers) BY <1>2, <1>4
    <3>5. PICK x : x = box[s] OBVIOUS
    <3>6. IsBox(x) /\ x.at # "off" /\ r = [x EXCEPT !.held = rest] BY <3>1, <3>3, <3>5
    <3>7. IsBox(r) /\ r.held = rest BY ONLY <3>4, <3>6, BoxHolds
    <3> QED BY <3>2, <3>7
  <2> QED BY <2>1, <2>2
<1>6. MountsOK' /\ box'[s] = r /\ \A o \in Sandboxes : o # s => box'[o] = box[o]
  BY <1>5, BoxStep
<1>7. /\ \A o \in Sandboxes : o # s => box'[o].held = box[o].held
      /\ box'[s].held = Tail(box[s].held)
  BY <1>4, <1>5, <1>6
<1>8. /\ Counted'
      /\ \A n, c, e : n \in Managers /\ c \in Buckets /\ e \in Drivers =>
           Holdings(n, c, e)' = IF n = wiring[s] /\ c = b /\ e = d
                                  THEN Holdings(n, c, e) - 1 ELSE Holdings(n, c, e)
  BY <1>1, <1>3, <1>7, ClaimsShrink
<1>9. Holdings(m, b, d) > 0
  <2>1. 1 \in DOMAIN box[s].held /\ box[s].held[1] = <<b, d>>
    BY <1>1, <1>3
  <2>2. <<s, 1>> \in Claims(m, b, d) BY <1>3, <2>1, ClaimsAre
  <2>3. IsFiniteSet(Claims(m, b, d)) BY <1>3 DEF Counted
  <2>4. Cardinality(Claims(m, b, d)) # 0 /\ Cardinality(Claims(m, b, d)) \in Nat
    BY <2>2, <2>3, FS_EmptySet, FS_CardinalityType
  <2> QED BY <2>4, HoldingsAre
<1> QED BY <1>3, <1>6, <1>8, <1>9

LEMMA DetachFailsStep ==
  ASSUME MountInv, NEW s \in Sandboxes, DetachFails(s)
  PROVE  MountInv'
<1>1. MountsOK /\ Counted BY DEF MountInv
<1>2. Detaching(s) /\ Drop(s) /\ UNCHANGED <<wiring, count, meta, mounted, creds>>
  BY DEF DetachFails
<1>3. count' \in CountType /\ meta' \in MetaType /\ UNCHANGED wiring BY <1>1, <1>2, BoxShape
<1>4. MountsOK' /\ Counted' BY <1>1, <1>2, <1>3, LetGo
<1>5. PICK m \in Managers, b \in Buckets, d \in Drivers :
        /\ m = wiring[s] /\ b = Head(box[s].held)[1] /\ d = Head(box[s].held)[2]
        /\ Holdings(m, b, d) > 0
        /\ \A n, c, e : n \in Managers /\ c \in Buckets /\ e \in Drivers =>
             Holdings(n, c, e)' = IF n = m /\ c = b /\ e = d
                                    THEN Holdings(n, c, e) - 1 ELSE Holdings(n, c, e)
  BY <1>1, <1>2, <1>3, LetGo
<1>6. spoiled' = spoiled \cup {b} BY <1>5 DEF DetachFails
<1>7. ASSUME NEW c \in Buckets, c \notin spoiled' PROVE InOrder(c)'
  <2>1. c # b /\ InOrder(c) BY <1>6, <1>7 DEF MountInv
  <2>2. c \notin creds' BY <1>2, <2>1 DEF InOrder
  <2>3. \A n \in Managers, e \in Drivers : Holdings(n, c, e)' = Holdings(n, c, e)
    BY <1>5, <2>1
  <2> QED BY <1>2, <2>1, <2>2, <2>3, OrderSame
<1> QED BY <1>4, <1>7 DEF MountInv

(* The last detachment unmounts, and no other does. *)
LEMMA DetachOkStep ==
  ASSUME MountInv, NEW s \in Sandboxes, DetachOk(s)
  PROVE  MountInv'
<1>1. MountsOK /\ Counted BY DEF MountInv
<1>2. Detaching(s) /\ Drop(s) /\ UNCHANGED wiring /\ UNCHANGED spoiled BY DEF DetachOk
<1>3. PICK m, b, d : m = wiring[s] /\ b = Head(box[s].held)[1] /\ d = Head(box[s].held)[2] OBVIOUS
<1>4. PICK unmounts \in BOOLEAN :
        /\ unmounts <=> count[m][b] = 1 /\ d = "s3" /\ (b \in mnts[m] \/ meta[m][b] = "s3")
        /\ count[m][b] > 0
        /\ count' = [count EXCEPT ![m][b] = @ - 1]
        /\ meta' = IF count[m][b] = 1 THEN [meta EXCEPT ![m][b] = "none"] ELSE meta
        /\ mounted' = IF unmounts THEN mounted \ {b} ELSE mounted
        /\ creds' = IF unmounts THEN creds \ {b} ELSE creds
  BY <1>3 DEF DetachOk
<1>5. m \in Managers /\ b \in Buckets /\ d \in Drivers
  <2>1. box[s].held # <<>> /\ box[s].held \in Seq(Buckets \X Drivers)
    BY <1>1, <1>2, BoxShape DEF Detaching
  <2>2. Head(box[s].held) \in Buckets \X Drivers BY <2>1, HeadTailProperties
  <2> QED BY <1>1, <1>3, <2>2, BoxShape
<1>6. count' \in CountType /\ meta' \in MetaType
  <2>1. count[m][b] - 1 \in Nat /\ "none" \in Drivers \cup {"none"}
    BY <1>1, <1>4, <1>5, BoxShape DEF CountType
  <2>2. count' \in CountType BY <1>1, <1>4, <1>5, <2>1, OneCounted, BoxShape
  <2>3. [meta EXCEPT ![m][b] = "none"] \in MetaType /\ meta \in MetaType
    BY <1>1, <1>5, <2>1, OneNoted, BoxShape
  <2> QED BY <1>4, <2>2, <2>3
<1>7. MountsOK' /\ Counted' BY <1>1, <1>2, <1>6, LetGo
<1>8. /\ Holdings(m, b, d) > 0
      /\ \A n, c, e : n \in Managers /\ c \in Buckets /\ e \in Drivers =>
           Holdings(n, c, e)' = IF n = m /\ c = b /\ e = d
                                  THEN Holdings(n, c, e) - 1 ELSE Holdings(n, c, e)
  BY <1>1, <1>2, <1>3, <1>6, LetGo
<1>9. /\ count'[m][b] = count[m][b] - 1
      /\ \A n \in Managers, c \in Buckets : ~(n = m /\ c = b) =>
           count'[n][c] = count[n][c] /\ meta'[n][c] = meta[n][c]
      /\ meta'[m][b] = IF count[m][b] = 1 THEN "none" ELSE meta[m][b]
  BY <1>1, <1>4, <1>5, BoxShape DEF CountType, MetaType
<1>10. ASSUME NEW c \in Buckets, c \notin spoiled' PROVE InOrder(c)'
  <2>1. InOrder(c) /\ c \notin creds' BY <1>2, <1>4, <1>10 DEF MountInv, InOrder
  <2>2. CASE c # b
    <3>1. c \in mounted' <=> c \in mounted BY <1>4, <2>2
    <3>2. \A n \in Managers, e \in Drivers : Holdings(n, c, e)' = Holdings(n, c, e)
      BY <1>8, <2>2
    <3> QED BY <1>9, <2>1, <2>2, <3>1, <3>2, OrderSame
  <2>3. CASE c = b
    <3>1. \A n \in Managers, e \in Drivers : Holdings(n, b, e) \in Nat BY <1>1, <1>5, HoldingsNat
    <3>2. PICK other : other = IF d = "s3" THEN "builtin" ELSE "s3" OBVIOUS
    <3>3. other \in Drivers /\ Drivers = {d, other} /\ other # d BY <1>5, <3>2 DEF Drivers
    <3>4. \A n \in Managers : Held(n, b) = Holdings(n, b, d) + Holdings(n, b, other)
      <4>1. CASE d = "s3" BY <3>2, <4>1 DEF Held
      <4>2. CASE d = "builtin" BY <3>1, <3>2, <4>2 DEF Held, Drivers
      <4> QED BY <1>5, <4>1, <4>2 DEF Drivers
    <3>5. Holdings(m, b, other) = 0 /\ meta[m][b] = d
      BY <1>5, <1>8, <2>1, <2>3, <3>1, <3>3 DEF InOrder
    <3>6. \A n \in Managers \ {m} : Held(n, b) = 0 /\ \A e \in Drivers : Holdings(n, b, e) = 0
      <4>1. Held(m, b) > 0 BY <1>5, <1>8, <3>1, <3>3, <3>4, <3>5
      <4>2. \A n \in Managers \ {m} : ~(Held(n, b) > 0) BY <1>5, <2>1, <2>3, <4>1 DEF InOrder
      <4> QED BY <1>5, <3>1, <3>3, <3>4, <4>2
    <3>7. /\ count[m][b] = Holdings(m, b, d) /\ Holdings(m, b, d)' = Holdings(m, b, d) - 1
          /\ Holdings(m, b, other)' = 0
          /\ \A n \in Managers \ {m}, e \in Drivers : Holdings(n, b, e)' = 0
      BY <1>5, <1>8, <2>1, <2>3, <3>1, <3>3, <3>4, <3>5, <3>6 DEF InOrder
    <3>8. /\ Held(m, b)' = Holdings(m, b, d) - 1
          /\ \A n \in Managers \ {m} : Held(n, b)' = 0
      <4>1. Holdings(m, b, d) - 1 \in Int BY <1>5, <3>1
      <4>2. CASE d = "s3" BY <1>5, <3>2, <3>3, <3>7, <4>1, <4>2 DEF Held, Drivers
      <4>3. CASE d = "builtin" BY <1>5, <3>2, <3>3, <3>7, <4>1, <4>3 DEF Held, Drivers
      <4> QED BY <1>5, <4>2, <4>3 DEF Drivers
    <3>9. \A n \in Managers : count'[n][b] = Held(n, b)'
      <4>1. \A n \in Managers \ {m} : count'[n][b] = 0
        BY <1>5, <1>9, <2>1, <2>3, <3>6 DEF InOrder
      <4> QED BY <1>5, <1>9, <3>7, <3>8, <4>1
    <3>10. b \in mounted' <=> \E n \in Managers : Holdings(n, b, "s3")' > 0
      <4>1. CASE d = "s3"
        <5>1. b \in mounted BY <1>5, <1>8, <2>1, <2>3, <4>1 DEF InOrder
        <5>2. b \in mounted' <=> count[m][b] # 1 BY <1>4, <3>5, <4>1, <5>1
        <5>3. (\E n \in Managers : Holdings(n, b, "s3")' > 0) <=> Holdings(m, b, "s3")' > 0
          BY <1>5, <3>7, <4>1
        <5>4. Holdings(m, b, "s3")' > 0 <=> Holdings(m, b, "s3") # 1
          BY <1>5, <1>8, <3>1, <3>7, <4>1
        <5> QED BY <3>7, <4>1, <5>2, <5>3, <5>4
      <4>2. CASE d = "builtin"
        <5>1. other = "s3" /\ mounted' = mounted BY <1>4, <3>2, <4>2
        <5>2. \A n \in Managers : Holdings(n, b, "s3") = 0 BY <1>5, <3>3, <3>5, <3>6, <5>1
        <5>3. \A n \in Managers : Holdings(n, b, "s3")' = 0 BY <1>5, <3>3, <3>7, <5>1
        <5> QED BY <2>1, <2>3, <5>1, <5>2, <5>3 DEF InOrder
      <4> QED BY <1>5, <4>1, <4>2 DEF Drivers
    <3>11. \A n \in Managers, e \in Drivers : Holdings(n, b, e)' > 0 => meta'[n][b] = e
      <4>1. \A n \in Managers, e \in Drivers : Holdings(n, b, e)' > 0 => n = m /\ e = d
        BY <1>5, <3>3, <3>7
      <4>2. Holdings(m, b, d)' > 0 => meta'[m][b] = d
        BY <1>5, <1>9, <3>1, <3>5, <3>7
      <4> QED BY <4>1, <4>2
    <3>12. \A n, o \in Managers : Held(n, b)' > 0 /\ Held(o, b)' > 0 => n = o
      <4>1. \A n \in Managers : Held(n, b)' > 0 => n = m BY <3>8
      <4> QED BY <4>1
    <3> QED BY <2>1, <2>3, <3>9, <3>10, <3>11, <3>12 DEF InOrder
  <2> QED BY <2>2, <2>3
<1> QED BY <1>7, <1>10 DEF MountInv

(* A manager dies: what its sandboxes held is spoiled. *)
LEMMA ManagerCrashStep ==
  ASSUME MountInv, NEW m \in Managers, ManagerCrash(m)
  PROVE  MountInv'
<1>1. MountsOK /\ Counted BY DEF MountInv
<1>2. /\ count' = [count EXCEPT ![m] = [b \in Buckets |-> 0]]
      /\ meta' = [meta EXCEPT ![m] = [b \in Buckets |-> "none"]]
      /\ box' = [s \in Sandboxes |-> IF wiring[s] = m THEN Off ELSE box[s]]
      /\ UNCHANGED wiring
  BY DEF ManagerCrash
<1>0. PICK keys, made : /\ creds' = creds \cup keys /\ mounted' = mounted \cup made
                        /\ spoiled' = spoiled \cup keys \cup made \cup {b \in Buckets : Held(m, b) > 0}
  BY DEF ManagerCrash
<1>3. /\ \A s \in Sandboxes : wiring[s] = m => box'[s] = Off
      /\ \A s \in Sandboxes : wiring[s] # m => box'[s] = box[s]
  BY <1>2
<1>4. MountsOK'
  <2>1. ASSUME NEW s \in Sandboxes
        PROVE  /\ box'[s] = [at |-> box'[s].at, todo |-> box'[s].todo, held |-> box'[s].held]
               /\ box'[s].todo \in Seq(Buckets \X Drivers) /\ box'[s].held \in Seq(Buckets \X Drivers)
               /\ box'[s].at = "off" => box'[s].held = <<>>
    <3>1. CASE wiring[s] = m BY <1>3, <3>1, OffBox DEF IsBox
    <3>2. CASE wiring[s] # m BY <1>1, <1>3, <3>2 DEF MountsOK
    <3> QED BY <3>1, <3>2
  <2>2. box' = [s \in Sandboxes |-> box'[s]] BY <1>2
  <2>3. count' \in [Managers -> [Buckets -> Nat]] BY <1>1, <1>2 DEF MountsOK
  <2>4. meta' \in [Managers -> [Buckets -> Drivers \cup {"none"}]] BY <1>1, <1>2 DEF MountsOK
  <2>5. wiring' \in [Sandboxes -> Managers] BY <1>1, <1>2 DEF MountsOK
  <2> QED BY <2>1, <2>2, <2>3, <2>4, <2>5 DEF MountsOK
<1>5. ASSUME NEW n \in Managers, NEW b \in Buckets, NEW d \in Drivers
      PROVE  Claims(n, b, d)' = IF n = m THEN {} ELSE Claims(n, b, d)
  <2>1. \A x : x \in Claims(n, b, d)' <=>
           \E s \in Sandboxes : \E i \in DOMAIN box'[s].held :
             x = <<s, i>> /\ wiring'[s] = n /\ box'[s].held[i] = <<b, d>>
    BY DEF Claims
  <2>2. CASE n = m
    <3>1. \A s \in Sandboxes : wiring'[s] = n => box'[s].held = <<>> BY <1>2, <1>3, <2>2, OffBox
    <3>2. DOMAIN <<>> = {} OBVIOUS
    <3>3. \A x : x \notin Claims(n, b, d)' BY <2>1, <3>1, <3>2
    <3> QED BY <2>2, <3>3
  <2>3. CASE n # m
    <3>1. \A s \in Sandboxes : wiring[s] = n => box'[s] = box[s] BY <1>3, <2>3
    <3>2. \A x : x \in Claims(n, b, d)' <=> x \in Claims(n, b, d) BY <1>2, <2>1, <3>1, ClaimsAre
    <3> QED BY <2>3, <3>2
  <2> QED BY <2>2, <2>3
<1>6. ASSUME NEW n \in Managers, NEW b \in Buckets, NEW d \in Drivers
      PROVE  /\ IsFiniteSet(Claims(n, b, d)')
             /\ Holdings(n, b, d)' = IF n = m THEN 0 ELSE Holdings(n, b, d)
  <2>1. Holdings(n, b, d)' = Cardinality(Claims(n, b, d)') BY DEF Holdings, Claims
  <2>2. Holdings(n, b, d) = Cardinality(Claims(n, b, d)) BY HoldingsAre
  <2>3. IsFiniteSet(Claims(n, b, d)) BY <1>1 DEF Counted
  <2>4. Claims(n, b, d)' = IF n = m THEN {} ELSE Claims(n, b, d) BY <1>5
  <2> QED BY <2>1, <2>2, <2>3, <2>4, FS_EmptySet
<1>7. Counted' BY <1>6 DEF Counted, Drivers
<1>8. ASSUME NEW c \in Buckets, c \notin spoiled' PROVE InOrder(c)'
  <2>1. InOrder(c) /\ ~(Held(m, c) > 0) /\ c \notin keys /\ c \notin made BY <1>0, <1>8 DEF MountInv
  <2>2. \A d \in Drivers : Holdings(m, c, d) = 0
    <3>1. \A d \in Drivers : Holdings(m, c, d) \in Nat BY <1>1, HoldingsNat
    <3> QED BY <2>1, <3>1 DEF Held, Drivers
  <2>3. \A n \in Managers, d \in Drivers : Holdings(n, c, d)' = Holdings(n, c, d) BY <1>6, <2>2
  <2>4. \A n \in Managers : Held(n, c)' = Held(n, c) BY <2>3 DEF Held, Drivers
  <2>5. Held(m, c) = 0 BY <2>2 DEF Held, Drivers
  <2>6. \A n \in Managers : count'[n][c] = count[n][c] /\ (n # m => meta'[n][c] = meta[n][c])
    <3>1. count[m][c] = 0 BY <2>1, <2>5 DEF InOrder
    <3> QED BY <1>1, <1>2, <3>1 DEF MountsOK
  <2>7. \A n \in Managers, d \in Drivers : Holdings(n, c, d)' > 0 => meta'[n][c] = d
    BY <2>1, <2>2, <2>3, <2>6 DEF InOrder
  <2>8. \A n \in Managers : count'[n][c] = Held(n, c)' BY <2>1, <2>4, <2>6 DEF InOrder
  <2>9. c \in mounted' <=> \E n \in Managers : Holdings(n, c, "s3")' > 0
    BY <1>0, <2>1, <2>3 DEF InOrder, Drivers
  <2>10. c \notin creds' /\ \A n, o \in Managers : Held(n, c)' > 0 /\ Held(o, c)' > 0 => n = o
    BY <1>0, <2>1, <2>4 DEF InOrder
  <2> QED BY <2>7, <2>8, <2>9, <2>10 DEF InOrder
<1> QED BY <1>4, <1>7, <1>8 DEF MountInv

LEMMA MountInit ==
  ASSUME ListsNameVolumes, VolumesInit
  PROVE  MountInv
<1>1. /\ wiring \in [Sandboxes -> Managers]
      /\ count = [m \in Managers |-> [b \in Buckets |-> 0]]
      /\ meta = [m \in Managers |-> [b \in Buckets |-> "none"]]
      /\ box = [s \in Sandboxes |-> Off] /\ mounted = {} /\ creds = {}
  BY DEF VolumesInit, ListsNameVolumes
<1>2. \A s \in Sandboxes : box[s] = Off BY <1>1
<1>3. MountsOK
  <2>1. \A s \in Sandboxes : /\ box[s] = [at |-> box[s].at, todo |-> box[s].todo, held |-> box[s].held]
                             /\ box[s].todo \in Seq(Buckets \X Drivers)
                             /\ box[s].held \in Seq(Buckets \X Drivers) /\ box[s].held = <<>>
    BY <1>2, OffBox DEF IsBox
  <2> QED BY <1>1, <2>1 DEF MountsOK
<1>4. ASSUME NEW m, NEW b, NEW d PROVE Claims(m, b, d) = {}
  <2>1. \A s \in Sandboxes : box[s].held = <<>> BY <1>2, OffBox
  <2>2. DOMAIN <<>> = {} OBVIOUS
  <2> QED BY <2>1, <2>2, ClaimsAre
<1>5. Counted BY <1>4, FS_EmptySet DEF Counted
<1>6. \A m, b, d : Holdings(m, b, d) = 0 BY <1>4, HoldingsAre, FS_EmptySet
<1>7. \A m, b : Held(m, b) = 0 BY <1>6 DEF Held
<1>8. ASSUME NEW b \in Buckets PROVE InOrder(b) BY <1>1, <1>6, <1>7 DEF InOrder
<1> QED BY <1>3, <1>5, <1>8 DEF MountInv

LEMMA MountSame ==
  ASSUME MountInv, UNCHANGED mountVars
  PROVE  MountInv'
<1>1. UNCHANGED <<wiring, count, meta, mounted, creds, box, spoiled>> BY DEF mountVars
<1>2. MountsOK' BY <1>1 DEF MountInv, MountsOK
<1>3. Counted' /\ \A m, b, d : Holdings(m, b, d)' = Holdings(m, b, d)
  BY <1>1, ClaimsSame DEF MountInv
<1>4. ASSUME NEW b \in Buckets, b \notin spoiled' PROVE InOrder(b)'
  <2>1. InOrder(b) /\ b \notin creds' BY <1>1, <1>4 DEF MountInv, InOrder
  <2> QED BY <1>1, <1>3, <2>1, OrderSame
<1> QED BY <1>2, <1>3, <1>4 DEF MountInv

LEMMA MountStep ==
  ASSUME ListsNameVolumes, MountInv, [VolumesNext]_volumeVars
  PROVE  MountInv'
<1>1. CASE UNCHANGED volumeVars BY <1>1, MountSame DEF volumeVars
<1>2. CASE BlockNext
  <2>1. UNCHANGED mountVars
    BY <1>2 DEF BlockNext, PostBlock, PostOther, DeleteGet, CloneRecord, DropCheck,
                SnapCheck, RollbackCheck, CreateBlock, Record, Undo, CloneCheck,
                Unrecord, Branch, DeleteCheck, Remove, Forget, Convert, CreateFails,
                BranchFails, StepFails, ServerCrash
  <2> QED BY <2>1, MountSame
<1>3. CASE MountNext
  <2>1. ASSUME NEW s \in Sandboxes, AttachOk(s) PROVE MountInv' BY <2>1, AttachOkStep
  <2>2. ASSUME NEW s \in Sandboxes, AttachCredsLeft(s) \/ CompensationFails(s) PROVE MountInv'
    BY <2>2, CredsLeftStep
  <2>3. ASSUME NEW s \in Sandboxes, AttachRejected(s) PROVE MountInv' BY <2>3, RejectedStep
  <2>4. ASSUME NEW s \in Sandboxes, DetachOk(s) PROVE MountInv' BY <2>4, DetachOkStep
  <2>5. ASSUME NEW s \in Sandboxes, DetachFails(s) PROVE MountInv' BY <2>5, DetachFailsStep
  <2>6. ASSUME NEW m \in Managers, ManagerCrash(m) PROVE MountInv' BY <2>6, ManagerCrashStep
  <2>7. ASSUME NEW s \in Sandboxes,
               \/ \E list \in Mounts : AttachVolumes(s, list)
               \/ \E late \in BOOLEAN : AttachRefused(s, late)
               \/ Run(s) \/ Exit(s) \/ GaveUp(s)
        PROVE  MountInv'
    BY <2>7, QuietStep
  <2> QED BY <1>3, <2>1, <2>2, <2>3, <2>4, <2>5, <2>6, <2>7 DEF MountNext
<1> QED BY <1>1, <1>2, <1>3 DEF VolumesNext

(* Whatever volumes are attached and detached by however many sandboxes and *)
(* managers, and whichever attachment is refused, the manager's count, the  *)
(* node's mounts and what the tasks hold agree, and no credentials file is  *)
(* left; a failed unmount, a failed write or removal of the credentials, a  *)
(* second driver or manager, or a death are what spoils a bucket.           *)
THEOREM MountsKept == VolumesSpec => []MountsMatchHolders
<1> ListsNameVolumes BY VolumesAssumption
<1>1. VolumesInit => MountInv BY MountInit
<1>2. MountInv /\ [VolumesNext]_volumeVars => MountInv' BY MountStep
<1>3. MountInv => MountsMatchHolders BY DEF MountInv, InOrder, MountsMatchHolders
<1> QED BY <1>1, <1>2, <1>3, PTL DEF VolumesSpec
=============================================================================
