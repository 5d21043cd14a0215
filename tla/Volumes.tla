------------------------------- MODULE Volumes -------------------------------
(***************************************************************************)
(* Persistent volumes, the two halves that share the name.                 *)
(*                                                                         *)
(* BLOCKS.  The API keeps a registry record per volume (volume/store.go)   *)
(* and, for the builtin driver, a qcow2 image (cow/engine.go) with         *)
(* snapshots and clones as overlays on it.  Every request makes its own    *)
(* engine, so the engine's mutex excludes nobody: what a request checked   *)
(* may have changed when it acts, and each engine operation is therefore a *)
(* check and an act.  The registry's own mutex is shared, so its           *)
(* operations are single steps.                                            *)
(*                                                                         *)
(* MOUNTS.  volume/manager.go attaches volumes to sandboxes through driver *)
(* plugins and counts the holders; the per-volume lock makes each Attach   *)
(* and each Detach one step.  StartTask attaches a task's volumes one by   *)
(* one and detaches what it attached when one of them fails, and when the  *)
(* task ends.  The s3 driver is modelled as it is; the builtin driver      *)
(* keeps no mount.  A manager belongs to a process, the mounts to the node.*)
(***************************************************************************)
EXTENDS Naturals, FiniteSets, Sequences

CONSTANTS Vols, Snaps,      \* names of volumes and of snapshots
          Handlers,         \* requests that can be under way at once
          Buckets,          \* names of attachable volumes
          Sandboxes, Managers,
          Wirings,          \* which manager serves which sandbox
          Mounts,           \* the "volumes" lists of task specifications
          Budgets,          \* bounds: records [blocks, mounts] of requests and launches
          MaxFaults         \* bound: failures of a file or a mount, crashes

(* The engine reserves the prefix "snap-" for the files of snapshots, and  *)
(* a name is not empty: "-" stands for none.                               *)
NamesApart == /\ IsFiniteSet(Vols) /\ IsFiniteSet(Snaps) /\ Vols \cap Snaps = {}
              /\ {"-", "absent", "flat", "torn"} \cap (Vols \cup Snaps) = {}

(* A task specification lists volumes with the driver each is attached by. *)
ListsNameVolumes ==
  /\ IsFiniteSet(Sandboxes) /\ Wirings \subseteq [Sandboxes -> Managers]
  /\ \A list \in Mounts : list \in Seq(Buckets \X {"s3", "builtin"})

ASSUME VolumesAssumption == NamesApart /\ ListsNameVolumes

VARIABLES back,     \* back[i]: "absent", "flat", "torn" (it does not open) or the
                    \* image that i overlays
          rec,      \* rec[v]: "none" or the driver in the registry record
          req,      \* the requests under way
          raced,    \* history: images branched while their source was being removed, or
                    \* that could not be opened when the scan before a removal met them
          crossed,  \* history: targets two requests had at once, that a crash cut off,
                    \* whose making failed and left a file, or whose undoing failed
          wiring,   \* wiring[s]: the manager of sandbox s
          count, meta, mnts,   \* Manager.refCounts, Manager.extraMeta, S3Plugin.mnts
          mounted, creds,      \* the node: s3fs mounts and credentials files
          box,      \* StartTask per sandbox: its phase, the mounts to do and those held
          spoiled,  \* history: volumes whose bookkeeping a failure or a neighbour broke
          budget, faults

blockVars == <<back, rec, req, raced, crossed>>
mountVars == <<wiring, count, meta, mnts, mounted, creds, box, spoiled>>
volumeVars == <<blockVars, mountVars, budget, faults>>

Images == Vols \cup Snaps
NoRequest == [op |-> "none", at |-> "idle", v |-> "-", src |-> "-"]
Off == [at |-> "off", todo |-> <<>>, held |-> <<>>]

VolumesInit ==
  /\ back = [i \in Images |-> "absent"]
  /\ rec = [v \in Vols |-> "none"]
  /\ req = [k \in Handlers |-> NoRequest]
  /\ raced = {} /\ crossed = {}
  /\ wiring \in Wirings
  /\ count = [m \in Managers |-> [b \in Buckets |-> 0]]
  /\ meta = [m \in Managers |-> [b \in Buckets |-> "none"]]
  /\ mnts = [m \in Managers |-> {}]
  /\ mounted = {} /\ creds = {} /\ spoiled = {}
  /\ box = [s \in Sandboxes |-> Off]
  /\ budget \in Budgets /\ faults = MaxFaults

Spend(part) == budget[part] > 0 /\ budget' = [budget EXCEPT ![part] = @ - 1] /\ UNCHANGED faults
Fault == faults > 0 /\ faults' = faults - 1 /\ UNCHANGED budget
Free == UNCHANGED <<budget, faults>>

-----------------------------------------------------------------------------
(* Images.                                                                 *)

\* What the opener meets from image i on: i, its backing image, and so on.
\* (A chain of more images than there are is a cycle, which is refused; the
\* bound of 33 images, maxBackingChainDepth, is left out.)
Longest == Cardinality(Images)
PathFrom(i) ==
  LET at[n \in 0 .. Longest] ==
        IF n = 0 THEN i
        ELSE LET q == at[n - 1] IN IF q \in Images THEN back[q] ELSE q
  IN  at
OnPath(i) == LET at == PathFrom(i) IN {at[n] : n \in 0 .. Longest}
openGuestImage(i) == "flat" \in OnPath(i)
Exists(i) == back[i] # "absent"

\* Engine.ListSnapshots(v): the snapshots that open and whose chain meets v
\* before any other volume.
ListSnapshots(v) ==
  {s \in Snaps :
     /\ Exists(s) /\ openGuestImage(s)
     /\ LET at == PathFrom(s) IN
        \E n \in 0 .. Longest : at[n] = v /\ \A j \in 0 .. n - 1 : at[j] \in Snaps}

(* Mutant: the scan looks at snapshots only. *)
hasBackingReferenceExcluding_SnapsOnly(target, exclude) ==
  \E p \in Snaps \ {target, exclude} : back[p] = target /\ openGuestImage(p)

\* Some other image that can be opened has target as its direct backing file.
hasBackingReferenceExcluding(target, exclude) ==
  \E p \in Images \ {target, exclude} : back[p] = target /\ openGuestImage(p)
hasBackingReference(target) == hasBackingReferenceExcluding(target, "-")

\* The images on target that the scan skips, because they cannot be opened.
Skipped(target) == {p \in Images \ {target} : back[p] = target /\ ~openGuestImage(p)}

-----------------------------------------------------------------------------
(* Requests.                                                               *)

Names(r) == {r.v, r.src} \ {"-"}
NamedBy(ks) == UNION {Names(req[k]) : k \in ks}

\* A request gets under way: op on v (and src), next at the step `at`.
Begin(k, op, at, v, src) ==
  /\ req[k] = NoRequest
  /\ req' = [req EXCEPT ![k] = [op |-> op, at |-> at, v |-> v, src |-> src]]
  /\ crossed' = crossed \cup ({v} \cap {req[o].v : o \in Handlers})
  /\ Spend("blocks")
Goto(k, at) == req' = [req EXCEPT ![k] = IF at = "idle" THEN NoRequest ELSE [@ EXCEPT !.at = at]]

\* POST /volumes.  A builtin volume gets its image first; the name must be
\* free.  Other drivers are records only.
PostBlock(k, v) ==
  /\ ~Exists(v)
  /\ Begin(k, "post", "create", v, "-")
  /\ UNCHANGED <<back, rec, raced, mountVars>>
PostOther(k, v) ==
  /\ Begin(k, "postother", "record", v, "-")
  /\ UNCHANGED <<back, rec, raced, mountVars>>

CreateBlock(k) ==
  /\ req[k].at = "create"
  /\ back' = [back EXCEPT ![req[k].v] = "flat"]
  /\ Goto(k, "record")
  /\ Free /\ UNCHANGED <<rec, raced, crossed, mountVars>>

\* What createQcow2 leaves of the image v when it fails: what was there, half
\* a file, or, if only the space behind the tables was refused, an image.
Leaves(v, whole) == {back[v], "torn", whole}

\* createQcow2 fails.  POST answers 500 and cleans nothing up: blockCreated
\* is not set yet.
CreateFails(k) ==
  /\ req[k].at = "create"
  /\ \E b \in Leaves(req[k].v, "flat") :
       /\ back' = [back EXCEPT ![req[k].v] = b]
       /\ crossed' = IF b = back[req[k].v] THEN crossed ELSE crossed \cup {req[k].v}
  /\ Goto(k, "idle")
  /\ Fault /\ UNCHANGED <<rec, raced, mountVars>>

\* volStore.Create.  A record that is there already, or that cannot be
\* written, undoes the block.
(* Mutant: the block of a failed POST stays. *)
RecordFails_Keeps(k) == Goto(k, "idle")
RecordFails(k) == Goto(k, IF req[k].op = "post" THEN "undo" ELSE "idle")
Record(k) ==
  /\ req[k].at = "record"
  /\ LET v == req[k].v IN
     \/ /\ rec[v] = "none"
        /\ rec' = [rec EXCEPT ![v] = IF req[k].op = "post" THEN "builtin" ELSE "other"]
        /\ Goto(k, "idle") /\ Free
     \/ /\ rec[v] = "none"
        /\ RecordFails(k) /\ Fault /\ UNCHANGED rec
     \/ /\ rec[v] # "none"
        /\ RecordFails(k) /\ Free /\ UNCHANGED rec
  /\ UNCHANGED <<back, raced, crossed, mountVars>>

\* The check of Engine.DeleteVolume when POST undoes its block.
Undo(k) ==
  /\ req[k].at = "undo"
  /\ LET goes == Exists(req[k].v) /\ ~hasBackingReference(req[k].v) IN
     /\ Goto(k, IF goes THEN "remove" ELSE "idle")
     /\ raced' = IF goes THEN raced \cup Skipped(req[k].v) ELSE raced
  /\ crossed' = IF hasBackingReference(req[k].v) THEN crossed \cup {req[k].v} ELSE crossed
  /\ Free /\ UNCHANGED <<back, rec, mountVars>>

\* POST /volumes/:id/clone.  The record first, then the image.
CloneRecord(k, src, v) ==
  /\ rec[src] # "none" /\ rec[v] = "none" /\ v # src
  /\ rec' = [rec EXCEPT ![v] = rec[src]]
  /\ Begin(k, "clone", "stat", v, src)
  /\ UNCHANGED <<back, raced, mountVars>>
CloneCheck(k) ==
  /\ req[k].at = "stat"
  /\ Goto(k, IF Exists(req[k].src) /\ ~Exists(req[k].v) THEN "branch" ELSE "unrecord")
  /\ Free /\ UNCHANGED <<back, rec, raced, crossed, mountVars>>
Unrecord(k) ==
  /\ req[k].at = "unrecord"
  /\ rec' = [rec EXCEPT ![req[k].v] = "none"]
  /\ Goto(k, "idle")
  /\ Free /\ UNCHANGED <<back, raced, crossed, mountVars>>

\* POST /volumes/:id/snapshots: the check of Engine.CreateSnapshot.
SnapCheck(k, src, s) ==
  /\ Exists(src) /\ ~Exists(s) /\ src # s
  /\ Begin(k, "snap", "branch", s, src)
  /\ UNCHANGED <<back, rec, raced, mountVars>>

\* CreateOverlay for a clone or a snapshot: the source must be there, a stale
\* target is removed, and then the source must open.
Branch(k) ==
  /\ req[k].at = "branch"
  /\ LET v == req[k].v
         src == req[k].src
         cleared == [back EXCEPT ![v] = "absent"]
         failed == IF req[k].op = "clone" THEN "unrecord" ELSE "idle"
     IN
     \/ /\ ~Exists(src)
        /\ Goto(k, failed) /\ UNCHANGED <<back, raced>>
     \/ /\ Exists(src)
        /\ LET ok == openGuestImage(src) /\ v \notin OnPath(src) IN
           /\ back' = IF ok THEN [back EXCEPT ![v] = src] ELSE cleared
           /\ Goto(k, IF ok THEN "idle" ELSE failed)
           /\ raced' = IF ok /\ \E o \in Handlers \ {k} : req[o].at = "remove" /\ req[o].v = src
                       THEN raced \cup {v} ELSE raced
  /\ Free /\ UNCHANGED <<rec, crossed, mountVars>>

\* CreateOverlay fails once the stale target is gone and the source is open:
\* the clone takes its record back and not what there is of the image.
BranchFails(k) ==
  /\ req[k].at = "branch" /\ openGuestImage(req[k].src)
  /\ \E b \in {"absent", "torn", req[k].src} :
       /\ back' = [back EXCEPT ![req[k].v] = b]
       /\ crossed' = IF b = "absent" THEN crossed ELSE crossed \cup {req[k].v}
  /\ Goto(k, IF req[k].op = "clone" THEN "unrecord" ELSE "idle")
  /\ Fault /\ UNCHANGED <<rec, raced, mountVars>>

\* DELETE /volumes/:id.  The registry's refcount (which nothing increments)
\* is consulted, then the engine's reference guard, then the record goes.
DeleteGet(k, v) ==
  /\ rec[v] # "none"
  /\ Begin(k, "delete", "got", v, "-")
  /\ UNCHANGED <<back, rec, raced, mountVars>>
DeleteCheck(k) ==
  /\ req[k].at = "got"
  /\ \/ ~Exists(req[k].v) /\ Goto(k, "forget") /\ UNCHANGED raced
     \/ /\ Exists(req[k].v) /\ hasBackingReference(req[k].v)
        /\ Goto(k, "idle") /\ UNCHANGED raced
     \/ /\ Exists(req[k].v) /\ ~hasBackingReference(req[k].v)
        /\ Goto(k, "remove")
        /\ raced' = raced \cup Skipped(req[k].v)
  /\ Free /\ UNCHANGED <<back, rec, crossed, mountVars>>

\* DELETE /volumes/:id/snapshots/:snap: the check of Engine.DeleteSnapshot.
DropCheck(k, s) ==
  /\ Exists(s) /\ ~hasBackingReference(s)
  /\ Begin(k, "drop", "remove", s, "-")
  /\ raced' = raced \cup Skipped(s)
  /\ UNCHANGED <<back, rec, mountVars>>

\* os.Remove; a file that is gone by then is an error, and a DELETE that
\* fails here leaves the record.
Remove(k) ==
  /\ req[k].at = "remove"
  /\ back' = [back EXCEPT ![req[k].v] = "absent"]
  /\ Goto(k, IF req[k].op = "delete" /\ Exists(req[k].v) THEN "forget" ELSE "idle")
  /\ Free /\ UNCHANGED <<rec, raced, crossed, mountVars>>
Forget(k) ==
  /\ req[k].at = "forget"
  /\ rec' = [rec EXCEPT ![req[k].v] = "none"]
  /\ Goto(k, "idle")
  /\ Free /\ UNCHANGED <<back, raced, crossed, mountVars>>

\* POST /volumes/:id/rollback: the target snapshot is the one image that may
\* overlay the volume.  The volume becomes a standalone copy, renamed over it.
RollbackCheck(k, v, s) ==
  /\ Exists(v) /\ Exists(s)
  /\ ~hasBackingReferenceExcluding(v, s)
  /\ Begin(k, "roll", "convert", v, s)
  /\ UNCHANGED <<back, rec, raced, mountVars>>
Convert(k) ==
  /\ req[k].at = "convert"
  /\ back' = IF openGuestImage(req[k].src) THEN [back EXCEPT ![req[k].v] = "flat"] ELSE back
  /\ Goto(k, "idle")
  /\ Free /\ UNCHANGED <<rec, raced, crossed, mountVars>>

\* The scan, the removal, the conversion or the registry fails and the request
\* ends there.  Those that compensate (POST, clone) ignore the error.
StepFails(k) ==
  /\ req[k].at \in {"undo", "unrecord", "got", "remove", "forget", "convert"}
  /\ crossed' = IF req[k].op = "post" THEN crossed \cup {req[k].v} ELSE crossed
  /\ Goto(k, "idle")
  /\ Fault /\ UNCHANGED <<back, rec, raced, mountVars>>

\* The server dies; what its requests had done stays.
ServerCrash ==
  /\ NamedBy(Handlers) # {}
  /\ req' = [k \in Handlers |-> NoRequest]
  /\ crossed' = crossed \cup NamedBy(Handlers)
  /\ Fault /\ UNCHANGED <<back, rec, raced, mountVars>>

BlockNext ==
  \/ \E k \in Handlers :
       \/ \E v \in Vols : PostBlock(k, v) \/ PostOther(k, v) \/ DeleteGet(k, v)
       \/ \E v, src \in Vols : CloneRecord(k, src, v)
       \/ \E s \in Snaps : DropCheck(k, s) \/ \E src \in Images : SnapCheck(k, src, s)
       \/ \E v \in Vols, s \in Snaps : RollbackCheck(k, v, s)
       \/ CreateBlock(k) \/ Record(k) \/ Undo(k) \/ CloneCheck(k) \/ Unrecord(k)
       \/ Branch(k) \/ DeleteCheck(k) \/ Remove(k) \/ Forget(k) \/ Convert(k)
       \/ CreateFails(k) \/ BranchFails(k) \/ StepFails(k)
  \/ ServerCrash

-----------------------------------------------------------------------------
(* Mounts.                                                                 *)

\* How often the sandboxes of manager m hold bucket b through driver d.
Holdings(m, b, d) ==
  Cardinality({e \in UNION {{s} \X DOMAIN box[s].held : s \in Sandboxes} :
                 wiring[e[1]] = m /\ box[e[1]].held[e[2]] = <<b, d>>})
Held(m, b) == Holdings(m, b, "s3") + Holdings(m, b, "builtin")

\* StartTask reaches its volumes.
AttachVolumes(s, list) ==
  /\ box[s] = Off
  /\ box' = [box EXCEPT ![s] = [at |-> "attach", todo |-> list, held |-> <<>>]]
  /\ Spend("mounts") /\ UNCHANGED <<blockVars, wiring, count, meta, mnts, mounted, creds, spoiled>>

Attaching(s) == box[s].at = "attach" /\ box[s].todo # <<>>
\* An attachment failed: StartTask detaches what it holds and gives up.
GiveUp(s) == box' = [box EXCEPT ![s] = [@ EXCEPT !.at = "undo", !.todo = <<>>]]

\* Manager.Attach and the plugin succeed: the s3 driver mounts the bucket or
\* finds it mounted.  From here on a bucket that another manager, or another
\* driver of this one, holds too is beyond what this manager's count can say.
AttachOk(s) ==
  /\ Attaching(s)
  /\ LET m == wiring[s]
         b == Head(box[s].todo)[1]
         d == Head(box[s].todo)[2]
         other == IF d = "s3" THEN "builtin" ELSE "s3"
     IN
     /\ count' = [count EXCEPT ![m][b] = @ + 1]
     /\ meta' = [meta EXCEPT ![m][b] = d]
     /\ mnts' = IF d = "s3" THEN [mnts EXCEPT ![m] = @ \cup {b}] ELSE mnts
     /\ mounted' = IF d = "s3" THEN mounted \cup {b} ELSE mounted
     /\ creds' = IF d = "s3" /\ b \notin mounted THEN creds \ {b} ELSE creds
     /\ box' = [box EXCEPT ![s] = [at |-> "attach", todo |-> Tail(@.todo), held |-> Append(@.held, <<b, d>>)]]
     /\ spoiled' = IF Holdings(m, b, other) > 0 \/ \E n \in Managers \ {m} : Held(n, b) > 0
                   THEN spoiled \cup {b} ELSE spoiled
  /\ Free /\ UNCHANGED <<blockVars, wiring>>

\* The plugin refuses, before or (late) after it has noted the mountpoint and
\* written the credentials, whose removal is deferred; the manager takes its
\* reservation back.
AttachRefused(s, late) ==
  /\ Attaching(s)
  /\ LET b == Head(box[s].todo)[1] IN
     IF late /\ Head(box[s].todo)[2] = "s3" /\ b \notin mounted
     THEN /\ mnts' = [mnts EXCEPT ![wiring[s]] = @ \cup {b}]
          /\ creds' = creds \ {b}
     ELSE UNCHANGED <<mnts, creds>>
  /\ GiveUp(s)
  /\ Fault /\ UNCHANGED <<blockVars, wiring, count, meta, mounted, spoiled>>

\* The s3 driver leaves the credentials file: its write fails halfway, before
\* the removal is deferred, or the removal fails, with the bucket mounted or
\* not.  The manager only takes its reservation back.
AttachCredsLeft(s) ==
  /\ Attaching(s)
  /\ LET b == Head(box[s].todo)[1] IN
     /\ Head(box[s].todo)[2] = "s3" /\ b \notin mounted
     /\ mounted' \in {mounted, mounted \cup {b}}
     /\ creds' = creds \cup {b}
     /\ mnts' = [mnts EXCEPT ![wiring[s]] = @ \cup {b}]
     /\ spoiled' = spoiled \cup {b}
  /\ GiveUp(s)
  /\ Fault /\ UNCHANGED <<blockVars, wiring, count, meta>>

\* The manager's checks reject the plugin's answer: the attachment is
\* undone, with an unmount only if it was this manager's first.
(* Mutant: the attachment is not undone at the plugin. *)
compensateDetach_Skipped(m, b) ==
  /\ mounted' = mounted \cup {b}
  /\ mnts' = [mnts EXCEPT ![m] = @ \cup {b}]
  /\ UNCHANGED creds
compensateDetach(m, b) ==
  IF count[m][b] = 0
  THEN /\ mounted' = mounted \ {b}
       /\ mnts' = [mnts EXCEPT ![m] = @ \ {b}]
       /\ creds' = creds \ {b}
  ELSE /\ mounted' = mounted \cup {b}
       /\ mnts' = [mnts EXCEPT ![m] = @ \cup {b}]
       /\ UNCHANGED creds
AttachRejected(s) ==
  /\ Attaching(s)
  /\ LET m == wiring[s]
         b == Head(box[s].todo)[1]
     IN
     IF Head(box[s].todo)[2] # "s3" THEN UNCHANGED <<mounted, mnts, creds, spoiled>>
     ELSE /\ compensateDetach(m, b)
          /\ spoiled' = IF \/ Holdings(m, b, "builtin") > 0
                           \/ \E n \in Managers \ {m} : Held(n, b) > 0
                        THEN spoiled \cup {b} ELSE spoiled
  /\ GiveUp(s)
  /\ Fault /\ UNCHANGED <<blockVars, wiring, count, meta>>

\* The unmount of that compensation fails, and the error is dropped.
CompensationFails(s) ==
  /\ Attaching(s)
  /\ LET m == wiring[s]
         b == Head(box[s].todo)[1]
     IN
     /\ Head(box[s].todo)[2] = "s3" /\ count[m][b] = 0
     /\ mounted' = mounted \cup {b}
     /\ mnts' = [mnts EXCEPT ![m] = @ \ {b}]
     /\ spoiled' = spoiled \cup {b}
  /\ GiveUp(s)
  /\ Fault /\ UNCHANGED <<blockVars, wiring, count, meta, creds>>

\* Every volume is attached and the task runs; later it ends.
Run(s) ==
  /\ box[s].at = "attach" /\ box[s].todo = <<>>
  /\ box' = [box EXCEPT ![s].at = "run"]
  /\ Free /\ UNCHANGED <<blockVars, wiring, count, meta, mnts, mounted, creds, spoiled>>
Exit(s) ==
  /\ box[s].at = "run"
  /\ box' = [box EXCEPT ![s].at = "undo"]
  /\ Free /\ UNCHANGED <<blockVars, wiring, count, meta, mnts, mounted, creds, spoiled>>

Detaching(s) == box[s].at = "undo" /\ box[s].held # <<>>
Drop(s) ==
  LET rest == Tail(box[s].held) IN
  box' = [box EXCEPT ![s] = IF rest = <<>> THEN Off ELSE [@ EXCEPT !.held = rest]]

\* Manager.Detach.  The s3 driver unmounts on the last detachment, at the
\* mountpoint it noted or, failing that, at the one in the replayed metadata.
DetachOk(s) ==
  /\ Detaching(s)
  /\ LET m == wiring[s]
         b == Head(box[s].held)[1]
         last == count[m][b] = 1
         unmounts == /\ last /\ Head(box[s].held)[2] = "s3"
                     /\ b \in mnts[m] \/ meta[m][b] = "s3"
     IN
     /\ count[m][b] > 0
     /\ count' = [count EXCEPT ![m][b] = @ - 1]
     /\ meta' = IF last THEN [meta EXCEPT ![m][b] = "none"] ELSE meta
     /\ mounted' = IF unmounts THEN mounted \ {b} ELSE mounted
     /\ creds' = IF unmounts THEN creds \ {b} ELSE creds
     /\ mnts' = IF unmounts THEN [mnts EXCEPT ![m] = @ \ {b}] ELSE mnts
  /\ Drop(s)
  /\ Free /\ UNCHANGED <<blockVars, wiring, spoiled>>

\* fusermount fails: the noted mountpoint is lost, the count stays, and the
\* caller, which ignores the error, no longer holds the volume.
DetachFails(s) ==
  /\ Detaching(s)
  /\ LET m == wiring[s]
         b == Head(box[s].held)[1]
     IN
     /\ count[m][b] = 1 /\ Head(box[s].held)[2] = "s3"
     /\ mnts' = [mnts EXCEPT ![m] = @ \ {b}]
     /\ spoiled' = spoiled \cup {b}
  /\ Drop(s)
  /\ Fault /\ UNCHANGED <<blockVars, wiring, count, meta, mounted, creds>>

GaveUp(s) ==
  /\ box[s].at = "undo" /\ box[s].held = <<>>
  /\ box' = [box EXCEPT ![s] = Off]
  /\ Free /\ UNCHANGED <<blockVars, wiring, count, meta, mnts, mounted, creds, spoiled>>

\* The buckets that manager m may be about to mount.
Amid(m) ==
  {b \in Buckets \ mounted :
     \E s \in Sandboxes : wiring[s] = m /\ Attaching(s) /\ Head(box[s].todo) = <<b, "s3">>}

\* A manager's process dies: its books go, the node's mounts stay.  Inside an
\* Attach it may have written the credentials (keys), or mounted (made).
ManagerCrash(m) ==
  /\ \E s \in Sandboxes : wiring[s] = m /\ box[s] # Off
  /\ count' = [count EXCEPT ![m] = [b \in Buckets |-> 0]]
  /\ meta' = [meta EXCEPT ![m] = [b \in Buckets |-> "none"]]
  /\ mnts' = [mnts EXCEPT ![m] = {}]
  /\ box' = [s \in Sandboxes |-> IF wiring[s] = m THEN Off ELSE box[s]]
  /\ \E keys, made \in SUBSET Amid(m) :
       /\ creds' = creds \cup keys
       /\ mounted' = mounted \cup made
       /\ spoiled' = spoiled \cup keys \cup made \cup {b \in Buckets : Held(m, b) > 0}
  /\ Fault /\ UNCHANGED <<blockVars, wiring>>

MountNext ==
  \/ \E s \in Sandboxes :
       \/ \E list \in Mounts : AttachVolumes(s, list)
       \/ AttachOk(s) \/ AttachCredsLeft(s) \/ AttachRejected(s) \/ CompensationFails(s)
       \/ \E late \in BOOLEAN : AttachRefused(s, late)
       \/ Run(s) \/ Exit(s) \/ DetachOk(s) \/ DetachFails(s) \/ GaveUp(s)
  \/ \E m \in Managers : ManagerCrash(m)

VolumesNext == BlockNext \/ MountNext
VolumesSpec == VolumesInit /\ [][VolumesNext]_volumeVars

-----------------------------------------------------------------------------
(* Properties.                                                             *)

\* No volume or snapshot is orphaned: whatever requests overlap and whichever
\* step of them fails, the image a volume or snapshot overlays stays there and
\* opens, unless its chain holds an image that was branched while its source
\* was being removed (the guard of Engine.DeleteVolume had already looked), one
\* that such a guard skipped because it could not be opened, one that was the
\* target of two requests at once, or one whose making failed halfway.  And
\* such a snapshot is listed under one volume.
VolumeChains ==
  \A i \in Images :
    Exists(i) /\ OnPath(i) \cap (raced \cup crossed) = {} =>
      /\ openGuestImage(i)
      /\ i \in Snaps => Cardinality({v \in Vols : i \in ListSnapshots(v)}) = 1

\* A block image never outlives its record: once nobody works on a volume,
\* its image implies its record (a block without one refuses its name to
\* every later POST), unless requests crossed on it, a createQcow2 that failed
\* left it, or the undoing of a failed POST failed in turn.
NoOrphanBlock ==
  \A v \in Vols \ (crossed \cup NamedBy(Handlers)) : Exists(v) => rec[v] # "none"

\* The manager's count, the mounts of the node and what the tasks hold agree:
\* no unmount under a holder, no mount or credentials file left behind,
\* whichever attachment of a list the plugin or the manager refuses.  A failed
\* unmount, a failed write or removal of the credentials, a second driver or a
\* second manager on the same bucket, and a death while the bucket is held or
\* being attached are the exceptions the code leaves.
MountsMatchHolders ==
  \A b \in Buckets \ spoiled :
    /\ \A m \in Managers : count[m][b] = Held(m, b)
    /\ b \in mounted <=> \E m \in Managers : Holdings(m, b, "s3") > 0
    /\ b \notin creds
=============================================================================
