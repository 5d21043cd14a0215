------------------------------ MODULE Snapshots ------------------------------
(***************************************************************************)
(* Event snapshots, instant clones, rollback, deletion, export and restore *)
(* of task directories (internal/snapshot, with the handlers of            *)
(* internal/api that call it and the overlay that a launch creates).       *)
(*                                                                         *)
(* The disk of a task is a chain of qcow2 files in several directories,    *)
(* joined by absolute backing paths.  Four mutexes that exclude nothing of *)
(* each other guard the operations (eventSnapshotMu, cloneMu, rollbackMu   *)
(* and the task lock that only some handlers take), so every operation is  *)
(* cut into the steps between which another one may run.                   *)
(*                                                                         *)
(* A disk is one block: 0 is a hole that reads through to the backing, any *)
(* other number is what a guest wrote.  Path <<t, 0>> is                   *)
(* <dir of t>/overlay.qcow2, <<t, k>> the overlay of t's k-th snapshot.    *)
(* The tasks modelled name their overlay so (spec.Workspace.Overlay).      *)
(***************************************************************************)
EXTENDS Integers, FiniteSets, FiniteSetsExt

CONSTANTS
  Task,       \* container ids
  Slot,       \* names of event snapshots within a task (positive numbers)
  RestoredId, \* the id that a restore creates, <id>-restored
  Root,       \* the image store, which no operation here removes
  Profiles,   \* bounds: records [ops, kinds, specs], one of which Init chooses
  MaxValue    \* a guest writes the values 2 .. MaxValue

ASSUME SnapshotsAssumption ==
  /\ IsFiniteSet(Task) /\ Root \notin Task /\ RestoredId \in Task
  /\ Slot \subseteq Nat \ {0} /\ IsFiniteSet(Slot)
  /\ MaxValue \in Nat \ {0}

VARIABLES
  img,      \* image files: path -> [data, back]
  dir,      \* the container directories that exist
  st,       \* state.json of each task; status "none" when there is none
  marks,    \* <dir>/.clones: the ids that branch from the task
  parent,   \* <dir>/clone-of, or Root when there is no such file
  snaps,    \* snapshot directories
  guest,    \* guest processes
  sn,       \* the holder of eventSnapshotMu
  cl,       \* the holder of cloneMu
  rb,       \* the holder of rollbackMu (and of a task lock)
  del,      \* a DELETE handler
  arch,     \* an exported archive
  excused,  \* history: tasks whose chain an operation below gave up
  crashed,  \* history: the server has crashed
  left,     \* operations that may still start
  lim       \* the bounds of this behaviour

files == <<img, dir, st, marks, parent, snaps>>
vars  == <<files, guest, sn, cl, rb, del, arch, excused, crashed, left, lim>>

Base   == <<Root, 0>>
None   == <<Root, 1>>          \* "no backing file"
Live(t) == <<t, 0>>
Paths  == {<<t, k>> : t \in Task, k \in Slot \cup {0}}

NoState == [status |-> "none", pid |-> Root, spec |-> 0]

(* A snapshot directory.  copy is its state.json; disk says that an overlay *)
(* was captured, which snapshot.json then names.  bare and cut are history: *)
(* state.json could not be read, and a removal has begun to take the files. *)
NoSnap  == [at |-> "none", status |-> "none", spec |-> 0, copy |-> FALSE, disk |-> FALSE,
            taken |-> 0, bare |-> FALSE, cut |-> FALSE]

Dead    == [alive |-> FALSE, stopped |-> FALSE, orphan |-> FALSE]
Idle    == [pc |-> "idle"]

(* Takes one operation of the given kind from the budget. *)
May(kind) == kind \in lim.kinds /\ left > 0 /\ left' = left - 1

-----------------------------------------------------------------------------
(* Backing chains.                                                         *)

(* The path that n hops from p lead to; a missing file, or no backing file, *)
(* is where a chain ends.                                                   *)
Hops == Cardinality(Paths) + 2

Walk(p) ==
  LET at[n \in 0 .. Hops] ==
        IF n = 0 THEN p
        ELSE LET q == at[n - 1] IN IF q \in DOMAIN img THEN img[q].back ELSE q
  IN  at

(* The paths met on the way from p to the end of its chain. *)
Trail(p) == LET at == Walk(p) IN {at[n] : n \in 0 .. Hops}

(* openGuestImage succeeds: every file is there and the chain ends.  Its   *)
(* bound on the length (maxBackingChainDepth, 33 files) is left out: what  *)
(* it makes fail may fail here anyway, and chains within it open.          *)
Opens(p) == None \in Trail(p)

(* What a read through the chain of p returns: the block of the nearest    *)
(* file that has one; 0 is a block of zeroes.                              *)
Content(p) ==
  LET at   == Walk(p)
      full == {n \in 0 .. Hops : at[n] \in DOMAIN img /\ img[at[n]].data # 0}
  IN  IF full = {} THEN 0 ELSE img[at[Min(full)]].data

With(p, i)   == [q \in DOMAIN img \cup {p} |-> IF q = p THEN i ELSE img[q]]
Without(P)   == [q \in DOMAIN img \ P |-> img[q]]
Overlay(p)   == [data |-> 0, back |-> p]
BelongsTo(t) == {<<t, k>> : k \in Slot \cup {0}}

(* The tasks whose directories the chain of p goes through. *)
TasksOn(p) == {q[1] : q \in Trail(p)} \cap Task

Init ==
  /\ img = [p \in {Base} |-> [data |-> 1, back |-> None]]
  /\ dir = {}
  /\ st = [t \in Task |-> NoState]
  /\ marks = [t \in Task |-> {}]
  /\ parent = [t \in Task |-> Root]
  /\ snaps = [p \in Paths |-> NoSnap]
  /\ guest = [t \in Task |-> Dead]
  /\ sn = Idle /\ cl = Idle /\ rb = Idle /\ del = Idle
  /\ arch = Idle
  /\ excused = {} /\ crashed = FALSE
  /\ lim \in Profiles
  /\ left = lim.ops

-----------------------------------------------------------------------------
(* Launches and guests.                                                    *)

(***************************************************************************)
(* StartTask: the spec and a fresh state are written whatever was there,   *)
(* and CreateOverlay replaces the overlay by an empty one over the base.   *)
(***************************************************************************)
Launch(t, spec) ==
  /\ May("launch")
  /\ ~guest[t].alive
  /\ dir' = dir \cup {t}
  /\ img' = With(Live(t), Overlay(Base))
  /\ st' = [st EXCEPT ![t] = [status |-> "running", pid |-> t, spec |-> spec]]
  /\ guest' = [guest EXCEPT ![t] = [Dead EXCEPT !.alive = TRUE]]
  /\ UNCHANGED <<marks, parent, snaps, sn, cl, rb, del, arch, excused, crashed, lim>>

(***************************************************************************)
(* A launch that fails after the overlay was created removes it, although  *)
(* images of other tasks may back onto it.                                 *)
(***************************************************************************)
LaunchFails(t, spec) ==
  /\ May("launch")
  /\ "relaunch" \in lim.kinds
  /\ ~guest[t].alive
  /\ dir' = dir \cup {t}
  /\ img' = Without({Live(t)})
  /\ st' = [st EXCEPT ![t] = [status |-> "failed", pid |-> Root, spec |-> spec]]
  /\ excused' = excused \cup {t} \cup {u \in Task : t \in TasksOn(Live(u))}
  /\ UNCHANGED <<marks, parent, snaps, guest, sn, cl, rb, del, arch, crashed, lim>>

(* The guest writes its block.  After a rollback it still holds the inode  *)
(* that was unlinked, and its writes reach no path.                        *)
GuestWrite(t, v) ==
  /\ May("write")
  /\ guest[t].alive /\ ~guest[t].stopped
  /\ ~guest[t].orphan
  /\ Live(t) \in DOMAIN img
  /\ img' = [img EXCEPT ![Live(t)].data = v]
  /\ UNCHANGED <<dir, st, marks, parent, snaps, guest, sn, cl, rb, del, arch, excused,
                 crashed, lim>>

-----------------------------------------------------------------------------
(* CreateEventSnapshot, under eventSnapshotMu.                             *)

(* A recorded pid whose process is the one that was started. *)
pidMatches(g) == g # Root /\ guest[g].alive

(* ListEventSnapshots and GetEventSnapshot: snapshot.json can be read. *)
Listed(p) == snaps[p].at = "meta"

(***************************************************************************)
(* The directory and the state are checked, the snapshot directory is      *)
(* made, and a running guest whose recorded pid is alive is stopped.  The  *)
(* pid may be another task's: a restored state.json names the guest of the *)
(* task it was exported from.                                              *)
(***************************************************************************)
SnapBegin(t, k) ==
  /\ May("snapshot")
  /\ sn = Idle
  /\ t \in dir /\ st[t].status # "none"
  /\ \A j \in Slot : j < k => snaps[<<t, j>>].at # "none"
  /\ snaps[<<t, k>>].at = "none"
  /\ snaps' = [snaps EXCEPT ![<<t, k>>].at = "dir"]
  /\ LET g == st[t].pid
         freeze == st[t].status = "running" /\ pidMatches(g)
     IN  /\ guest' = IF freeze THEN [guest EXCEPT ![g].stopped = TRUE] ELSE guest
         /\ sn' = [pc |-> "state", t |-> t, k |-> k, status |-> st[t].status,
                   frozen |-> IF freeze THEN g ELSE Root]
  /\ UNCHANGED <<img, dir, st, marks, parent, cl, rb, del, arch, excused, crashed, lim>>

(* The SIGCONT of the handle, sent through its pidfd. *)
Thawed(g) == IF g = Root THEN guest ELSE [guest EXCEPT ![g].stopped = FALSE]

(* Mutant: the failure path returns without the deferred thaw. *)
SnapAbort_NoThaw ==
  /\ snaps' = [snaps EXCEPT ![<<sn.t, sn.k>>] = NoSnap]
  /\ img' = Without({<<sn.t, sn.k>>})
  /\ guest' = guest
  /\ sn' = Idle

(* A snapshot that fails removes its directory; the deferred call thaws.   *)
(* What a removal that fails too leaves is what a crash leaves: it has no  *)
(* snapshot.json and is never listed.                                      *)
SnapAbort ==
  /\ snaps' = [snaps EXCEPT ![<<sn.t, sn.k>>] = NoSnap]
  /\ img' = Without({<<sn.t, sn.k>>})
  /\ guest' = Thawed(sn.frozen)
  /\ sn' = Idle

(* The copy of state.json.  It is skipped when there is none and when it   *)
(* cannot be read, and fails when the snapshot's directory is gone.        *)
SnapState ==
  /\ sn.pc = "state"
  /\ \/ /\ snaps[<<sn.t, sn.k>>].at # "none"
        /\ \/ snaps' = IF st[sn.t].status = "none" THEN snaps
                       ELSE [snaps EXCEPT ![<<sn.t, sn.k>>] =
                               [@ EXCEPT !.copy = TRUE, !.spec = st[sn.t].spec]]
           \/ snaps' = [snaps EXCEPT ![<<sn.t, sn.k>>].bare = TRUE]
        /\ sn' = [sn EXCEPT !.pc = "disk"]
        /\ UNCHANGED <<img, guest>>
     \/ SnapAbort
  /\ UNCHANGED <<dir, st, marks, parent, cl, rb, del, arch, excused, crashed, left, lim>>

(* Mutant: the failure of the fallback copy is not looked at. *)
CaptureFails_Ignored ==
  /\ snaps' = [snaps EXCEPT ![<<sn.t, sn.k>>].disk = TRUE]
  /\ img' = img
  /\ guest' = Thawed(sn.frozen)
  /\ sn' = [sn EXCEPT !.pc = "meta"]

(* Neither the branch nor the copy of the disk could be made. *)
CaptureFails == SnapAbort

(***************************************************************************)
(* The disk: an overlay branched from the LIVE one, else a copy of the     *)
(* file, else the snapshot fails.  It is left out when there is none and   *)
(* when Stat fails on it.  The guest is continued afterwards.              *)
(***************************************************************************)
SnapDisk ==
  LET p == <<sn.t, sn.k>>
      here == snaps[p].at # "none"
      captured(i) == /\ here
                     /\ img' = With(p, i)
                     /\ snaps' = [snaps EXCEPT ![p] =
                          [@ EXCEPT !.disk = TRUE,
                             !.taken = IF Opens(Live(sn.t)) THEN Content(Live(sn.t)) ELSE 0]]
  IN  /\ sn.pc = "disk"
      /\ \/ /\ \/ Opens(Live(sn.t)) /\ captured(Overlay(Live(sn.t)))
               \/ Live(sn.t) \in DOMAIN img /\ captured(img[Live(sn.t)])
               \/ UNCHANGED <<img, snaps>>
            /\ sn' = [sn EXCEPT !.pc = "meta"]
            /\ guest' = Thawed(sn.frozen)
         \/ Live(sn.t) \in DOMAIN img /\ CaptureFails
      /\ UNCHANGED <<dir, st, marks, parent, cl, rb, del, arch, excused, crashed, left, lim>>

(* snapshot.json, which is what lists the snapshot. *)
SnapMeta ==
  LET p == <<sn.t, sn.k>>
  IN  /\ sn.pc = "meta"
      /\ \/ /\ snaps[p].at # "none"
            /\ snaps' = [snaps EXCEPT ![p].at = "meta", ![p].status = sn.status]
            /\ img' = img
            /\ guest' = guest
            /\ sn' = Idle
         \/ SnapAbort
      /\ UNCHANGED <<dir, st, marks, parent, cl, rb, del, arch, excused, crashed, left, lim>>

-----------------------------------------------------------------------------
(* DeleteEventSnapshot, under eventSnapshotMu.                             *)

(* The clones of t, and theirs, as the markers tell. *)
ClonesOf(t) ==
  LET grow[n \in 0 .. Cardinality(Task)] ==
        IF n = 0 THEN {t}
        ELSE LET found == grow[n - 1] IN found \cup UNION {marks[u] : u \in found}
  IN  grow[Cardinality(Task)] \ {t}

dependentOverlays(t, k) ==
  ((BelongsTo(t) \cup {Live(u) : u \in ClonesOf(t)}) \ {<<t, k>>}) \cap DOMAIN img

(* PrepareDeleteEventSnapshot: no dependent reaches the snapshot, and none *)
(* has a chain that cannot be read.                                        *)
SnapUnused(t, k) ==
  <<t, k>> \in DOMAIN img =>
    \A p \in dependentOverlays(t, k) : Opens(p) /\ <<t, k>> \notin Trail(p)

DropBegin(t, k) ==
  /\ May("drop")
  /\ sn = Idle
  /\ snaps[<<t, k>>].at # "none"
  /\ SnapUnused(t, k)
  /\ sn' = [pc |-> "drop", t |-> t, k |-> k]
  /\ UNCHANGED <<files, guest, cl, rb, del, arch, excused, crashed, lim>>

(* What is left of a snapshot without its snapshot.json or state.json. *)
Fewer(r) == {[r EXCEPT !.at = "dir", !.cut = TRUE], [r EXCEPT !.copy = FALSE, !.cut = TRUE]}

(* os.RemoveAll takes the files of the snapshot one by one, in any order; *)
(* it may fail, or the server die, after any of them.                      *)
DropPart ==
  LET p == <<sn.t, sn.k>>
  IN  /\ sn.pc = "drop" /\ "part" \in lim.kinds
      /\ \/ /\ snaps[p].at # "none"
            /\ \/ (\E r \in Fewer(snaps[p]) : snaps' = [snaps EXCEPT ![p] = r]) /\ img' = img
               \/ snaps' = [snaps EXCEPT ![p].cut = TRUE] /\ img' = Without({p})
            /\ sn' = sn
         \/ sn' = Idle /\ UNCHANGED <<img, snaps>>
      /\ UNCHANGED <<dir, st, marks, parent, guest, cl, rb, del, arch, excused, crashed, left,
                     lim>>

(* The rest of them, and the directory. *)
DropRemove ==
  /\ sn.pc = "drop"
  /\ snaps' = [snaps EXCEPT ![<<sn.t, sn.k>>] = NoSnap]
  /\ img' = Without({<<sn.t, sn.k>>})
  /\ sn' = Idle
  /\ UNCHANGED <<dir, st, marks, parent, guest, cl, rb, del, arch, excused, crashed, left, lim>>

-----------------------------------------------------------------------------
(* Clone, under cloneMu.                                                   *)

CloneBegin(s, d) ==
  /\ May("clone")
  /\ cl = Idle
  /\ s # d /\ s \in dir /\ d \notin dir
  /\ dir' = dir \cup {d}
  /\ cl' = [pc |-> "branch", src |-> s, dst |-> d]
  /\ UNCHANGED <<img, st, marks, parent, snaps, guest, sn, rb, del, arch, excused, crashed, lim>>

(* The end of an os.RemoveAll of a task's directory: nothing is left. *)
RemoveDir(t) ==
  /\ dir' = dir \ {t}
  /\ img' = Without(BelongsTo(t))
  /\ st' = [st EXCEPT ![t] = NoState]
  /\ marks' = [marks EXCEPT ![t] = {}]
  /\ parent' = [parent EXCEPT ![t] = Root]
  /\ snaps' = [p \in Paths |-> IF p \in BelongsTo(t) THEN NoSnap ELSE snaps[p]]

(* The snapshots when the removal of the directory of t has begun. *)
Cut(t) == [p \in Paths |-> IF p \in BelongsTo(t) /\ snaps[p].at # "none"
                            THEN [snaps[p] EXCEPT !.cut = TRUE] ELSE snaps[p]]

(* On the way there: a file, or the directory of a snapshot, is gone. *)
RemovePart(t) ==
  /\ "part" \in lim.kinds
  /\ \/ /\ st' = [st EXCEPT ![t] = NoState]
        /\ snaps' = Cut(t)
        /\ UNCHANGED <<img, marks, parent>>
     \/ /\ marks' = [marks EXCEPT ![t] = {}]
        /\ snaps' = Cut(t)
        /\ UNCHANGED <<img, st, parent>>
     \/ /\ parent' = [parent EXCEPT ![t] = Root]
        /\ snaps' = Cut(t)
        /\ UNCHANGED <<img, st, marks>>
     \/ \E p \in BelongsTo(t) :
          /\ img' = Without({p})
          /\ snaps' \in {Cut(t), [Cut(t) EXCEPT ![p] = NoSnap]}
          /\ UNCHANGED <<st, marks, parent>>
     \/ \E p \in BelongsTo(t) :
          /\ snaps[p].at # "none"
          /\ \E r \in Fewer(snaps[p]) : snaps' = [Cut(t) EXCEPT ![p] = r]
          /\ UNCHANGED <<img, st, marks, parent>>
  /\ dir' = dir

(* A clone that fails: what it made of the new directory is given up. *)
CloneFails(m) ==
  /\ marks' = m
  /\ cl' = [cl EXCEPT !.pc = "undo"]
  /\ excused' = excused \cup {cl.dst}
  /\ UNCHANGED <<img, dir, st, parent, snaps>>

(* The removal of it, whose failure nobody looks at. *)
CloneUndo ==
  /\ cl.pc = "undo"
  /\ \/ RemovePart(cl.dst) /\ UNCHANGED <<cl, excused>>
     \/ /\ RemoveDir(cl.dst)
        /\ cl' = Idle
        /\ excused' = IF del.pc = "remove" /\ del.t = cl.dst THEN excused
                      ELSE excused \ {cl.dst}
     \/ /\ "part" \in lim.kinds
        /\ cl' = Idle
        /\ UNCHANGED <<files, excused>>
  /\ UNCHANGED <<guest, sn, rb, del, arch, crashed, left, lim>>

(***************************************************************************)
(* The new overlay backs onto the source's live one, or is a copy of it;   *)
(* there is no overlay when Stat finds none, or fails.                     *)
(* The history variable records a clone of a task that is past the guard   *)
(* of its own deletion, or whose chain is already given up.                *)
(***************************************************************************)
CloneBranch ==
  LET p == Live(cl.src)
      made(i) == /\ img' = With(Live(cl.dst), i)
                 /\ dir' = dir \cup {cl.dst}
                 /\ cl' = [cl EXCEPT !.pc = "mark"]
                 /\ excused' = IF \/ TasksOn(p) \cap excused # {}
                                  \/ del.pc = "remove" /\ del.t = cl.src
                               THEN excused \cup {cl.dst} ELSE excused
                 /\ UNCHANGED <<st, marks, parent, snaps>>
  IN  /\ cl.pc = "branch"
      /\ \/ Opens(p) /\ made(Overlay(p))
         \/ p \in DOMAIN img /\ made(img[p])
         \/ /\ cl' = [cl EXCEPT !.pc = "save"]
            /\ UNCHANGED <<files, excused>>
         \/ p \in DOMAIN img /\ CloneFails(marks)
      /\ UNCHANGED <<guest, sn, rb, del, arch, crashed, left, lim>>

(* registerCloneRef makes <source>/.clones, and the directory if it went;  *)
(* when it fails, the marker may be there or not.                          *)
CloneMark ==
  LET marked == [marks EXCEPT ![cl.src] = @ \cup {cl.dst}]
  IN  /\ cl.pc = "mark"
      /\ \/ /\ marks' = marked
            /\ dir' = dir \cup {cl.src}
            /\ cl' = [cl EXCEPT !.pc = "parent"]
            /\ UNCHANGED <<img, st, parent, snaps, excused>>
         \/ CloneFails(marks)
         \/ cl.src \in dir /\ CloneFails(marked)
      /\ UNCHANGED <<guest, sn, rb, del, arch, crashed, left, lim>>

(* clone-of is written, or the marker is taken back and the clone fails. *)
CloneParent ==
  /\ cl.pc = "parent"
  /\ \/ /\ cl.dst \in dir
        /\ parent' = [parent EXCEPT ![cl.dst] = cl.src]
        /\ cl' = [cl EXCEPT !.pc = "save"]
        /\ UNCHANGED <<img, dir, st, marks, snaps, excused>>
     \/ CloneFails([marks EXCEPT ![cl.src] = @ \ {cl.dst}])
  /\ UNCHANGED <<guest, sn, rb, del, arch, crashed, left, lim>>

(* The state of the clone; a failure here leaves the marker at the parent. *)
CloneSave ==
  /\ cl.pc = "save"
  /\ \/ /\ dir' = dir \cup {cl.dst}
        /\ st' = [st EXCEPT ![cl.dst] =
                    [status |-> "ready", pid |-> Root, spec |-> st[cl.src].spec]]
        /\ cl' = Idle
        /\ UNCHANGED <<img, marks, parent, snaps, excused>>
     \/ CloneFails(marks)
  /\ UNCHANGED <<guest, sn, rb, del, arch, crashed, left, lim>>

-----------------------------------------------------------------------------
(* RollbackWithForce, under rollbackMu and the task lock.                  *)

(***************************************************************************)
(* Everything that can refuse: the metadata, the copy of the state and the *)
(* current state must load, and the spec fingerprints must agree (0 is a   *)
(* legacy state without one).  force overrides all but the metadata.       *)
(***************************************************************************)
RollbackBegin(t, k, force) ==
  LET s == snaps[<<t, k>>]
  IN  /\ May("rollback")
      /\ rb = Idle
      /\ ~(del.pc # "idle" /\ del.locked /\ del.t = t)
      /\ Listed(<<t, k>>)
      /\ \/ force
         \/ /\ s.copy /\ st[t].status # "none"
            /\ s.spec = 0 \/ st[t].spec = 0 \/ s.spec = st[t].spec
      /\ rb' = [pc |-> "convert", t |-> t, k |-> k, buf |-> 0, status |-> s.status, cur |-> st[t]]
      /\ UNCHANGED <<files, guest, sn, cl, del, arch, excused, crashed, lim>>

(* ConvertToQcow2 into a temporary file; skipped when Stat finds no disk in *)
(* the snapshot, or fails.                                                  *)
RollbackConvert ==
  LET p == <<rb.t, rb.k>>
  IN  /\ rb.pc = "convert"
      /\ \/ rb' = [rb EXCEPT !.pc = "save"]
         \/ Opens(p) /\ rb' = [rb EXCEPT !.pc = "rename", !.buf = Content(p)]
         \/ p \in DOMAIN img /\ rb' = Idle
      /\ UNCHANGED <<files, guest, sn, cl, del, arch, excused, crashed, left, lim>>

(* Mutant: the restored disk is branched from the snapshot. *)
Restored_Branches == Overlay(<<rb.t, rb.k>>)

(* The restored disk: a standalone image with the converted content. *)
Restored == [data |-> rb.buf, back |-> None]

(* The rename onto the live path.  The guest, which nobody stops, keeps    *)
(* the file that was there.                                                *)
RollbackRename ==
  /\ rb.pc = "rename"
  /\ \/ /\ rb.t \in dir
        /\ img' = With(Live(rb.t), Restored)
        /\ guest' = [guest EXCEPT ![rb.t].orphan = @ \/ guest[rb.t].alive]
        /\ rb' = [rb EXCEPT !.pc = "save"]
     \/ rb' = Idle /\ UNCHANGED <<img, guest>>
  /\ UNCHANGED <<dir, st, marks, parent, snaps, sn, cl, del, arch, excused, crashed, left, lim>>

(* The state of the snapshot, or the current one if there is none to read, *)
(* with the recorded status and no pid; saving it makes the directory.     *)
RollbackSave ==
  LET s == snaps[<<rb.t, rb.k>>]
  IN  /\ rb.pc = "save"
      /\ rb' = Idle
      /\ \/ /\ dir' = dir \cup {rb.t}
            /\ st' = [st EXCEPT ![rb.t] =
                 [status |-> rb.status, pid |-> Root,
                  spec |-> IF s.copy THEN s.spec ELSE rb.cur.spec]]
         \/ UNCHANGED <<dir, st>>
      /\ UNCHANGED <<img, marks, parent, snaps, guest, sn, cl, del, arch, excused, crashed,
                     left, lim>>

-----------------------------------------------------------------------------
(* DELETE /containers (unlocked) and DELETE /sandboxes (with the task      *)
(* lock): the guest is killed first, then the clones are looked for.       *)

DeleteKill(t, locked) ==
  /\ May("delete")
  /\ del = Idle
  /\ t \in dir
  /\ ~(locked /\ rb.pc # "idle" /\ rb.t = t)
  /\ guest' = IF st[t].pid = t THEN [guest EXCEPT ![t] = Dead] ELSE guest
  /\ del' = [pc |-> "guard", t |-> t, locked |-> locked]
  /\ UNCHANGED <<files, sn, cl, rb, arch, excused, crashed, lim>>

(***************************************************************************)
(* PrepareDelete: refused while a marker is there, otherwise the marker at *)
(* the parent is dropped.  From here on the task's chain is given up, and  *)
(* so is that of a clone that has branched but not yet registered.         *)
(***************************************************************************)
DeleteGuard ==
  /\ del.pc = "guard"
  /\ \/ /\ marks[del.t] # {}
        /\ del' = Idle
        /\ UNCHANGED <<marks, excused>>
     \/ /\ marks[del.t] = {}
        /\ marks' = [u \in Task |-> IF u = parent[del.t] THEN marks[u] \ {del.t} ELSE marks[u]]
        /\ excused' = excused \cup {del.t}
             \cup (IF cl.pc = "mark" /\ cl.src = del.t THEN {cl.dst} ELSE {})
        /\ del' = [del EXCEPT !.pc = "remove"]
  /\ UNCHANGED <<img, dir, st, parent, snaps, guest, sn, cl, rb, arch, crashed, left, lim>>

(* The directory goes file by file, or RemoveAll fails on the way. *)
DeletePart ==
  /\ del.pc = "remove"
  /\ \/ RemovePart(del.t) /\ UNCHANGED del
     \/ "part" \in lim.kinds /\ del' = Idle /\ UNCHANGED files
  /\ UNCHANGED <<guest, sn, cl, rb, arch, excused, crashed, left, lim>>

DeleteRemove ==
  /\ del.pc = "remove"
  /\ RemoveDir(del.t)
  /\ excused' = IF cl.pc = "undo" /\ cl.dst = del.t THEN excused ELSE excused \ {del.t}
  /\ del' = Idle
  /\ UNCHANGED <<guest, sn, cl, rb, arch, crashed, left, lim>>

-----------------------------------------------------------------------------
(* Export and restore.                                                     *)

(* tar of the whole directory: markers and clone-of with the rest. *)
Export(t) ==
  /\ May("export")
  /\ arch = Idle
  /\ t \in dir \ {RestoredId}
  /\ arch' = [pc |-> "held",
              img |-> [k \in {k \in Slot \cup {0} : <<t, k>> \in DOMAIN img} |-> img[<<t, k>>]],
              snaps |-> [k \in Slot \cup {0} |-> snaps[<<t, k>>]],
              st |-> st[t], marks |-> marks[t], parent |-> parent[t]]
  /\ UNCHANGED <<files, guest, sn, cl, rb, del, excused, crashed, lim>>

(* The archive is unpacked into a new directory.  Backing paths, markers   *)
(* and the pid stay those of the original, and no parent learns of it.  A  *)
(* snapshot's name holds the task and the time (snap-<task>-<nanoseconds>) *)
(* so none in the archive is the one being taken in a deleted directory.   *)
Import ==
  LET d == RestoredId
      here(p) == p[1] = d /\ p[2] \in DOMAIN arch.img
  IN  /\ arch.pc = "held"
      /\ d \notin dir
      /\ sn.pc \in {"state", "disk", "meta"} /\ sn.t = d => arch.snaps[sn.k] = NoSnap
      /\ dir' = dir \cup {d}
      /\ img' = [p \in DOMAIN img \cup {q \in Paths : here(q)} |->
                   IF here(p) THEN arch.img[p[2]] ELSE img[p]]
      /\ snaps' = [p \in Paths |-> IF p[1] = d THEN arch.snaps[p[2]] ELSE snaps[p]]
      /\ st' = [st EXCEPT ![d] = arch.st]
      /\ marks' = [marks EXCEPT ![d] = arch.marks]
      /\ parent' = [parent EXCEPT ![d] = arch.parent]
      /\ excused' = excused \cup {d}
      /\ arch' = Idle
      /\ UNCHANGED <<guest, sn, cl, rb, del, crashed, left, lim>>

(* The server dies: every handler is lost where it was, files stay. *)
Crash ==
  /\ May("crash")
  /\ crashed' = TRUE
  /\ sn' = Idle /\ cl' = Idle /\ rb' = Idle /\ del' = Idle
  /\ excused' = IF cl.pc = "mark" THEN excused \cup {cl.dst} ELSE excused
  /\ UNCHANGED <<files, guest, arch, lim>>

Done == /\ left = 0 /\ sn = Idle /\ cl = Idle /\ rb = Idle /\ del = Idle
        /\ UNCHANGED vars

Next ==
  \/ \E t \in Task, spec \in lim.specs : Launch(t, spec) \/ LaunchFails(t, spec)
  \/ \E t \in Task, v \in 2 .. MaxValue : GuestWrite(t, v)
  \/ \E t \in Task, k \in Slot : SnapBegin(t, k) \/ DropBegin(t, k)
  \/ SnapState \/ SnapDisk \/ SnapMeta \/ DropPart \/ DropRemove
  \/ \E s, d \in Task : CloneBegin(s, d)
  \/ CloneBranch \/ CloneMark \/ CloneParent \/ CloneSave \/ CloneUndo
  \/ \E t \in Task, k \in Slot, force \in BOOLEAN : RollbackBegin(t, k, force)
  \/ RollbackConvert \/ RollbackRename \/ RollbackSave
  \/ \E t \in Task, locked \in BOOLEAN : DeleteKill(t, locked)
  \/ DeleteGuard \/ DeletePart \/ DeleteRemove
  \/ \E t \in Task : Export(t)
  \/ Import
  \/ Crash
  \/ Done

Spec == Init /\ [][Next]_vars

-----------------------------------------------------------------------------
TypeOK ==
  /\ DOMAIN img \subseteq Paths \cup {Base}
  /\ \A p \in DOMAIN img : /\ img[p].data \in 0 .. MaxValue
                            /\ img[p].back \in Paths \cup {Base, None}
  /\ dir \subseteq Task
  /\ marks \in [Task -> SUBSET Task]
  /\ parent \in [Task -> Task \cup {Root}]
  /\ excused \subseteq Task

(***************************************************************************)
(* clone_refs.go and rollback.go: a task that has a state, and every       *)
(* snapshot that is listed, has a disk that can be opened: no file of its  *)
(* chain has been removed and the chain has no cycle.  The exceptions are  *)
(* the six ways, recorded in excused where they happen, in which the code  *)
(* gives a chain up: the deletion of the task itself is under way or was   *)
(* cut short, the clone was branched from a task that had already passed   *)
(* the check of its deletion or was lost half-registered in a crash, it    *)
(* failed and is being removed, it was restored from an archive, or a      *)
(* relaunch of a task it backs onto failed.                                *)
(***************************************************************************)
ChainsResolve ==
  /\ TypeOK
  /\ \A t \in Task : st[t].status # "none" =>
       \A p \in BelongsTo(t) \cap DOMAIN img :
         (p = Live(t) \/ Listed(p)) => Opens(p) \/ TasksOn(p) \cap excused # {}

(***************************************************************************)
(* event.go: a snapshot that is listed is complete: it has the copy of the *)
(* state that rollback's guard reads, and the disk its metadata names      *)
(* ("recording a DiskOverlay that was never written and reporting success  *)
(* would corrupt later rollbacks"), whatever failed or crashed while it    *)
(* was taken.  The exceptions are the two the code makes: state.json could *)
(* not be read, which the snapshot does not report (then only the copy is  *)
(* missing), and os.RemoveAll has begun to take the files of the snapshot  *)
(* or of its task, without its snapshot.json going first.                  *)
(***************************************************************************)
CompleteWhenListed ==
  \A p \in Paths : Listed(p) /\ ~snaps[p].cut =>
    /\ snaps[p].copy \/ snaps[p].bare
    /\ snaps[p].disk => p \in DOMAIN img

(***************************************************************************)
(* event.go: a guest is stopped only while the snapshot that stopped it is *)
(* capturing it; every way out of the capture continues it, unless the     *)
(* server itself crashed.                                                  *)
(***************************************************************************)
FrozenOnlyWhileCaptured ==
  \A g \in Task : guest[g].stopped =>
    crashed \/ (sn.pc \in {"state", "disk"} /\ sn.frozen = g)

(***************************************************************************)
(* rollback.go: "Rollback restores a container's filesystem state ... back *)
(* to a specified historical EventSnapshot": the disk that a rollback puts *)
(* in place reads as the disk did when the snapshot was taken.             *)
(***************************************************************************)
RollbackRestores ==
  [][rb.pc = "rename" /\ rb'.pc = "save"
       => Content(Live(rb.t))' = snaps[<<rb.t, rb.k>>].taken]_vars
=============================================================================
