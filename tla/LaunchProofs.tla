---------------------------- MODULE LaunchProofs ----------------------------
(***************************************************************************)
(* Theorems about Launch, for any number of launches, tasks, uid ranges    *)
(* and failures, and any specifications: as long as no task is launched    *)
(* while a launch of it is under way (~Overlap).                           *)
(*                                                                         *)
(* The invariant has a local part, what a launch holds, owes and has       *)
(* recorded at each stage, and a shared part: the uid table, the state     *)
(* files, the rules and the overlays are traced to the launch that has to  *)
(* clean them up or to a crash.                                            *)
(***************************************************************************)
EXTENDS Launch, SequenceTheorems, WellFoundedInduction, NaturalsInduction, TLAPS

\* The stages from which on something is there, innermost first.
Guarded == {"cgroup", "release", "start", "wait"}
FromLaunch == {"launch"} \cup Guarded
FromJail == {"jail"} \cup FromLaunch
FromLogs == {"logs"} \cup FromJail
FromMint == {"mint", "tap", "net", "ipam", "l7", "filter", "ports", "dns", "args"} \cup FromLogs
FromEgress == {"egress", "listen", "loopback"} \cup FromMint
FromDisk == {"disk", "vhost"} \cup FromEgress
FromVolumes == {"volumes"} \cup FromDisk
Early == {"evidence", "security", "uid"}
Settled == {"compact", "compacting", "unwind", "returned"}

\* The deferred functions that have not run.
Stack(s) == {s[i] : i \in DOMAIN s}
Due(r) == Stack(r.defers)

Lives(r) == r.guest \in {"barrier", "free"}

\* What surrounds the guest.
Caged(r) ==
    /\ r.pc \in FromJail => "logs" \in r.held
    /\ r.pc \in FromLaunch => "jail" \in r.held
    /\ r.pc \in Guarded => "console" \in r.held
    /\ r.pc \in FromEgress /\ SpecOf[r.task].disk # "ubd" => {"backend", "socket"} \subseteq r.held
    /\ r.pc \in FromMint /\ SpecOf[r.task].net # "none" => "listener" \in r.held
    /\ r.pc \in FromDisk => r.vols = SpecOf[r.task].vols
    /\ r.pc \in Settled /\ r.vols # 0 => "volume" \in r.left
    /\ r.pc = "compacting" => "backend" \notin r.held
    /\ r.addr # 0 => "ip" \in r.held

\* What has been written down about it.
Papered(r) ==
    /\ Lives(r) => r.pc \in Guarded
    /\ r.pc \notin {"unwind", "returned", "crashed"} => r.degr \subseteq r.warned
    /\ r.pc \in {"release", "start", "wait"} /\ SpecOf[r.task].limits => r.limited
    /\ r.pc = "cgroup" /\ r.guest = "free" => "namespaces" \in r.degr
    /\ r.pc = "wait" => r.started

\* Everything held is released by a function that is still due.
Owed(r) ==
    /\ r.pc # "crashed" => \A y \in r.held : y \in r.left \/ \E f \in Due(r) : y \in Releases[f]
    /\ r.pc \in {"idle", "returned", "crashed"} => Due(r) = {}
    /\ r.pc \in {"ipam", "l7", "filter", "ports"} => "net" \in Due(r)
    /\ r.pc \in {"logs", "jail", "launch", "cgroup", "release", "start"} => "timer" \in Due(r)
    /\ r.pc = "idle" => r.left = {} /\ ~r.committed
    /\ r.pc \in {"idle", "volumes", "disk"} \cup Early => ~r.created
    /\ r.pc \in {"idle"} \cup Early => r.slot = 0

Statused(r) ==
    /\ r.pc \in Early => r.status = "pending"
    /\ r.pc \in FromVolumes \ FromJail => r.status = "provisioning"
    /\ r.pc \in {"jail", "launch", "cgroup", "release"} => r.status = "ready"
    /\ r.pc \in {"start", "wait"} => r.status = "running"
    /\ r.pc \in Settled => r.status \in {"failed", "review"}

Local(r) == r \in Launches /\ Caged(r) /\ Papered(r) /\ Owed(r)

\* At most one launch of a task is under way, the newest, and state.json is its.
Newest ==
    /\ \A p \in Procs : Running(p) => last[run[p].task] = p
    /\ \A t \in Tasks : last[t] # NoProc =>
          /\ run[last[t]].task = t /\ run[last[t]].pc # "idle" /\ Statused(run[last[t]])
          /\ last[t] \in unsaved \/ status[t] = run[last[t]].status

\* The uid table.
Ranged ==
    /\ \A t, u \in Tasks : t # u /\ uids[t] # 0 => uids[t] # uids[u]
    /\ \A p \in Procs : run[p].pc \in FromVolumes /\ run[p].slot # 0 =>
          p \in wiped \/ uids[run[p].task] = run[p].slot

\* Who will remove a rule, an overlay or a range, or has failed to.
Rules(m, r) ==
    /\ r.task = m[2]
    /\ r.pc = "crashed" \/ "rules" \in r.left \/ ("net" \in Due(r) /\ r.loaded /\ m \in r.mem)
Overlays(t, r) ==
    /\ r.task = t
    /\ r.pc = "crashed" \/ "overlay" \in r.left \/ r.committed \/ (r.created /\ "overlay" \in Due(r))
Ranges(t, r) == r.task = t /\ (r.pc = "crashed" \/ "uid" \in r.left \/ "uid" \in Due(r))
Traced ==
    /\ \A m \in rules : \E q \in Procs : Rules(m, run[q])
    /\ \A t \in overlays : \E q \in Procs : Overlays(t, run[q])
    /\ \A t \in Tasks : uids[t] # 0 => \E q \in Procs : Ranges(t, run[q])

IInv == ~Overlap /\ TypeOK /\ (\A p \in Procs : Local(run[p])) /\ Newest /\ Ranged /\ Traced

-----------------------------------------------------------------------------

(* The stack of deferred functions, and the uid table. *)

LEMMA PushDue ==
    ASSUME NEW s \in Seq(Deferred), NEW f \in Deferred
    PROVE  <<f>> \o s \in Seq(Deferred) /\ Stack(<<f>> \o s) = Stack(s) \cup {f}
<1>1. PICK t : t = <<f>> \o s  OBVIOUS
<1>2. <<f>> \in Seq(Deferred) /\ Len(<<f>>) = 1 /\ <<f>>[1] = f  OBVIOUS
<1>3. /\ t \in Seq(Deferred) /\ Len(t) = 1 + Len(s)
      /\ \A i \in 1 .. 1 + Len(s) : t[i] = IF i <= 1 THEN f ELSE s[i - 1]
  BY <1>1, <1>2, ConcatProperties
<1>4. DOMAIN t = 1 .. 1 + Len(s) /\ DOMAIN s = 1 .. Len(s) /\ Len(s) \in Nat  BY <1>3
<1>5. Stack(t) \subseteq Stack(s) \cup {f}  BY <1>3, <1>4 DEF Stack
<1>6. f \in Stack(t)  BY <1>3, <1>4 DEF Stack
<1>7. ASSUME NEW i \in DOMAIN s PROVE s[i] \in Stack(t)
  <2>1. i + 1 \in DOMAIN t /\ t[i + 1] = s[i]  BY <1>3, <1>4
  <2>2. QED  BY <2>1 DEF Stack
<1>8. Stack(s) \cup {f} \subseteq Stack(t)
  <2>1. Stack(s) \subseteq Stack(t)  BY <1>7 DEF Stack
  <2>2. QED  BY <1>6, <2>1
<1>9. QED  BY <1>1, <1>3, <1>5, <1>8

LEMMA PopDue ==
    ASSUME NEW s \in Seq(Deferred), s # <<>>
    PROVE  /\ Head(s) \in Deferred /\ Tail(s) \in Seq(Deferred) /\ Head(s) \in Stack(s)
           /\ Stack(s) = Stack(Tail(s)) \cup {Head(s)}
<1>1. /\ Head(s) \in Deferred /\ Tail(s) \in Seq(Deferred) /\ Len(Tail(s)) = Len(s) - 1
      /\ \A i \in 1 .. Len(Tail(s)) : Tail(s)[i] = s[i + 1]
  BY HeadTailProperties
<1>2. DOMAIN s = 1 .. Len(s) /\ DOMAIN Tail(s) = 1 .. Len(s) - 1 /\ Len(s) \in Nat /\ Len(s) > 0
      /\ Head(s) = s[1]
  BY <1>1
<1>3. Head(s) \in Stack(s)  BY <1>2 DEF Stack
<1>4. ASSUME NEW i \in DOMAIN s PROVE s[i] \in Stack(Tail(s)) \cup {Head(s)}
  <2>1. CASE i = 1  BY <1>2, <2>1
  <2>2. CASE i # 1
    <3>1. i - 1 \in DOMAIN Tail(s) /\ Tail(s)[i - 1] = s[i]  BY <1>1, <1>2, <2>2
    <3>2. QED  BY <3>1 DEF Stack
  <2>3. QED  BY <2>1, <2>2
<1>5. ASSUME NEW i \in DOMAIN Tail(s) PROVE Tail(s)[i] \in Stack(s)
  <2>1. i + 1 \in DOMAIN s /\ Tail(s)[i] = s[i + 1]  BY <1>1, <1>2
  <2>2. QED  BY <2>1 DEF Stack
<1>6. QED  BY <1>1, <1>3, <1>4, <1>5 DEF Stack

LEMMA EmptyDue == ASSUME NEW s \in Seq(Deferred) PROVE Stack(s) = {} <=> s = <<>>
<1>1. s = <<>> => Stack(s) = {}  BY DEF Stack
<1>2. s # <<>> => Head(s) \in Stack(s)  BY PopDue
<1>3. QED  BY <1>1, <1>2

\* The range that Allocate gives is free.
LEMMA LowestIsFree == ASSUME Free # {} PROVE lowestFree \in Free
<1>1. PICK R : R = {e \in Nat \X Nat : e[1] < e[2]}  OBVIOUS
<1>2. IsWellFoundedOn(R, Nat)  BY <1>1, NatLessThanWellFounded, Zenon DEF OpToRel
<1>3. Free \subseteq Nat  BY LaunchAssumption DEF Free
<1>4. PICK x \in Free : \A y \in Free : <<y, x>> \notin R  BY <1>2, <1>3, WFMin
<1>5. ASSUME NEW y \in Free PROVE x <= y
  <2>1. x \in Nat /\ y \in Nat /\ <<y, x>> \notin R  BY <1>3, <1>4
  <2>2. PICK e : e = <<y, x>>  OBVIOUS
  <2>3. e \in Nat \X Nat /\ e[1] = y /\ e[2] = x  BY <2>1, <2>2
  <2>4. ~(y < x)  BY <1>1, <2>1, <2>2, <2>3
  <2>5. QED  BY <2>1, <2>4
<1>6. QED  BY <1>5 DEF lowestFree

-----------------------------------------------------------------------------
(* Steps of one launch. *)

\* A launch never comes back to life, and keeps what it owes.
Keeps(x, r) ==
    /\ r.task = x.task /\ r.slot = x.slot /\ Due(x) \subseteq Due(r)
    /\ x.loaded => r.loaded /\ x.mem \subseteq r.mem
    /\ x.created => r.created
    /\ x.committed => r.committed
    /\ x.left \subseteq r.left
Grows(x, r) ==
    /\ r.pc \notin {"idle", "crashed"}
    /\ r.pc \in FromVolumes /\ r.slot # 0 => x.pc \in FromVolumes
    /\ Keeps(x, r)

\* The launch becomes r, and its state file follows or the write fails.
Saves(p, r) ==
    /\ run' = [run EXCEPT ![p] = r]
    /\ \/ status' = [status EXCEPT ![r.task] = r.status] /\ unsaved' = unsaved \ {p}
       \/ status' = status /\ unsaved' = unsaved \cup {p}
    /\ last' = last

LEMMA FaultType ==
    ASSUME IInv, NEW n \in Nat, Fault(n)
    PROVE  faults' \in 0 .. MaxFaults
BY LaunchAssumption DEF IInv, TypeOK, Fault

LEMMA SaveType ==
    ASSUME IInv, NEW p \in Procs, NEW r, NEW n \in Nat, Save(p, r, n)
    PROVE  Saves(p, r) /\ faults' \in 0 .. MaxFaults
<1>1. n + 1 \in Nat /\ (Fault(n) \/ Fault(n + 1))  BY DEF Save, SaveState
<1>2. faults' \in 0 .. MaxFaults  BY <1>1, FaultType
<1>3. QED  BY <1>2 DEF Save, SaveState, Saves

\* A step that does not change the status may as well save it.
LEMMA KeepSaves ==
    ASSUME IInv, NEW p \in Procs, Running(p), NEW r \in Launches, Keep(p, r),
           r.task = run[p].task, r.status = run[p].status
    PROVE  Saves(p, r)
<1>1. run[p] \in Launches /\ last[run[p].task] = p /\ status \in [Tasks -> Status] /\ unsaved \subseteq Procs
  BY DEF IInv, TypeOK, Newest
<1>2. run[p].task \in Tasks  BY <1>1 DEF Launches
<1>3. p # NoProc  BY LaunchAssumption
<1>4. p \in unsaved \/ status[run[p].task] = run[p].status  BY <1>1, <1>2, <1>3 DEF IInv, Newest
<1>5. CASE p \in unsaved
  <2>1. unsaved = unsaved \cup {p}  BY <1>5
  <2>2. QED  BY <2>1 DEF Keep, Saves
<1>6. CASE p \notin unsaved
  <2>1. unsaved = unsaved \ {p} /\ status = [status EXCEPT ![r.task] = r.status]  BY <1>1, <1>2, <1>4, <1>6
  <2>2. QED  BY <2>1 DEF Keep, Saves
<1>7. QED  BY <1>5, <1>6

\* The step is seen in the launch itself and in its state file.
LEMMA OneLaunch ==
    ASSUME IInv, NEW p \in Procs, Running(p), NEW r, Local(r), Statused(r), r.pc # "idle",
           r.task = run[p].task, Saves(p, r)
    PROVE  /\ run' \in [Procs -> Launches] /\ run'[p] = r
           /\ \A q \in Procs \ {p} : run'[q] = run[q]
           /\ status' \in [Tasks -> Status] /\ unsaved' \subseteq Procs /\ last' = last
           /\ \A q \in Procs : Local(run[q])'
           /\ Newest'
<1>1. run \in [Procs -> Launches] /\ status \in [Tasks -> Status] /\ Newest /\ r \in Launches
      /\ last \in [Tasks -> Procs \cup {NoProc}] /\ unsaved \subseteq Procs
  BY DEF IInv, TypeOK, Local
<1>2. /\ run' = [run EXCEPT ![p] = r] /\ last' = last
      /\ \/ status' = [status EXCEPT ![r.task] = r.status] /\ unsaved' = unsaved \ {p}
         \/ status' = status /\ unsaved' = unsaved \cup {p}
  BY DEF Saves
<1>3. r.task \in Tasks /\ r.status \in Status  BY <1>1 DEF Launches
<1>4. run' \in [Procs -> Launches] /\ run'[p] = r /\ status' \in [Tasks -> Status] /\ unsaved' \subseteq Procs
      /\ \A q \in Procs \ {p} : run'[q] = run[q]
  BY <1>1, <1>2, <1>3
<1>5. ASSUME NEW q \in Procs PROVE Local(run[q])'
  <2>1. Local(run'[q])  BY <1>4 DEF IInv
  <2>2. QED  BY <2>1 DEF Local, Caged, Papered, Owed, Due, Lives
<1>6. last[r.task] = p  BY <1>1 DEF Newest
<1>7. ASSUME NEW q \in Procs, Running(q)' PROVE last'[run'[q].task] = q
  <2>1. CASE q = p  BY <1>2, <1>4, <1>6, <2>1
  <2>2. CASE q # p  BY <1>1, <1>2, <1>4, <1>7, <2>2 DEF Running, Newest
  <2>3. QED  BY <2>1, <2>2
<1>8. ASSUME NEW t \in Tasks, last'[t] # NoProc
      PROVE  /\ run'[last'[t]].task = t /\ run'[last'[t]].pc # "idle" /\ Statused(run'[last'[t]])
             /\ last'[t] \in unsaved' \/ status'[t] = run'[last'[t]].status
  <2>1. /\ last[t] \in Procs /\ run[last[t]].task = t /\ run[last[t]].pc # "idle" /\ Statused(run[last[t]])
        /\ last[t] \in unsaved \/ status[t] = run[last[t]].status
    BY <1>1, <1>2, <1>8 DEF Newest
  <2>2. CASE t = r.task
    <3>1. p \in unsaved' \/ status'[t] = r.status  BY <1>1, <1>2, <1>3, <2>2
    <3>2. QED  BY <1>1, <1>2, <1>4, <1>6, <2>2, <3>1
  <2>3. CASE t # r.task
    <3>1. last[t] # p  BY <2>1, <2>3
    <3>2. run'[last'[t]] = run[last[t]] /\ status'[t] = status[t] /\ (last[t] \in unsaved => last[t] \in unsaved')
      BY <1>1, <1>2, <1>3, <1>4, <2>1, <2>3, <3>1
    <3>3. QED  BY <1>2, <2>1, <3>2
  <2>4. QED  BY <2>2, <2>3
<1>9. Newest'  BY <1>7, <1>8 DEF Newest, Statused
<1>10. QED  BY <1>2, <1>4, <1>5, <1>9

\* The launch p has become r, and no other has moved.
Became(p, r) == run'[p] = r /\ (\A q \in Procs \ {p} : run'[q] = run[q]) /\ last' = last

LEMMA RangedKept ==
    ASSUME IInv, NEW p \in Procs, NEW r, Became(p, r), r.task = run[p].task, r.slot = run[p].slot,
           r.pc \in FromVolumes /\ r.slot # 0 => run[p].pc \in FromVolumes, UNCHANGED <<uids, wiped>>
    PROVE  Ranged'
<1>1. /\ \A t, u \in Tasks : t # u /\ uids[t] # 0 => uids[t] # uids[u]
      /\ \A q \in Procs : run[q].pc \in FromVolumes /\ run[q].slot # 0 =>
            q \in wiped \/ uids[run[q].task] = run[q].slot
  BY DEF IInv, Ranged
<1>2. ASSUME NEW q \in Procs
      PROVE  /\ run'[q].task = run[q].task /\ run'[q].slot = run[q].slot
             /\ run'[q].pc \in FromVolumes /\ run'[q].slot # 0 => run[q].pc \in FromVolumes
  <2>1. CASE q = p  BY <2>1 DEF Became
  <2>2. CASE q # p  BY <2>2 DEF Became
  <2>3. QED  BY <2>1, <2>2
<1>3. \A q \in Procs : run'[q].pc \in FromVolumes /\ run'[q].slot # 0 =>
          q \in wiped' \/ uids'[run'[q].task] = run'[q].slot
  BY <1>1, <1>2
<1>4. QED  BY <1>1, <1>3 DEF Ranged

\* What a launch that has become r answers for, and what the others did.
Answers(p, r) ==
    /\ \A m \in rules' : Rules(m, r) \/ (m \in rules /\ ~Rules(m, run[p]))
    /\ \A t \in overlays' : Overlays(t, r) \/ (t \in overlays /\ ~Overlays(t, run[p]))
    /\ \A t \in Tasks : uids'[t] # 0 => Ranges(t, r) \/ (uids[t] # 0 /\ ~Ranges(t, run[p]))

LEMMA TracedKept ==
    ASSUME IInv, NEW p \in Procs, NEW r, Became(p, r), Answers(p, r)
    PROVE  Traced'
<1>1. ASSUME NEW m \in rules' PROVE \E q \in Procs : Rules(m, run'[q])
  <2>1. CASE Rules(m, r)  BY <2>1 DEF Became
  <2>2. CASE m \in rules /\ ~Rules(m, run[p])
    <3>1. PICK q \in Procs : Rules(m, run[q])  BY <2>2 DEF IInv, Traced
    <3>2. q # p  BY <2>2, <3>1
    <3>3. QED  BY <3>1, <3>2 DEF Became
  <2>3. QED  BY <2>1, <2>2 DEF Answers
<1>2. ASSUME NEW t \in overlays' PROVE \E q \in Procs : Overlays(t, run'[q])
  <2>1. CASE Overlays(t, r)  BY <2>1 DEF Became
  <2>2. CASE t \in overlays /\ ~Overlays(t, run[p])
    <3>1. PICK q \in Procs : Overlays(t, run[q])  BY <2>2 DEF IInv, Traced
    <3>2. q # p  BY <2>2, <3>1
    <3>3. QED  BY <3>1, <3>2 DEF Became
  <2>3. QED  BY <2>1, <2>2 DEF Answers
<1>3. ASSUME NEW t \in Tasks, uids'[t] # 0 PROVE \E q \in Procs : Ranges(t, run'[q])
  <2>1. CASE Ranges(t, r)  BY <2>1 DEF Became
  <2>2. CASE uids[t] # 0 /\ ~Ranges(t, run[p])
    <3>1. PICK q \in Procs : Ranges(t, run[q])  BY <2>2 DEF IInv, Traced
    <3>2. q # p  BY <2>2, <3>1
    <3>3. QED  BY <3>1, <3>2 DEF Became
  <2>3. QED  BY <1>3, <2>1, <2>2 DEF Answers
<1>4. QED  BY <1>1, <1>2, <1>3 DEF Traced, Rules, Overlays, Ranges, Due

\* What a launch that keeps what it owes answers for, it goes on answering for.
StillOwns(x, r) ==
    /\ \A m : Rules(m, x) => Rules(m, r)
    /\ \A t : Overlays(t, x) => Overlays(t, r)
StillAnswers(x, r) == StillOwns(x, r) /\ \A t : Ranges(t, x) => Ranges(t, r)

LEMMA StillTraced ==
    ASSUME NEW x, NEW r, Keeps(x, r), x.pc # "crashed"
    PROVE  StillAnswers(x, r)
BY DEF StillAnswers, StillOwns, Keeps, Rules, Overlays, Ranges

LEMMA AnswersAsBefore ==
    ASSUME NEW p \in Procs, NEW r, StillAnswers(run[p], r), UNCHANGED <<uids, overlays, rules>>
    PROVE  Answers(p, r)
BY DEF StillAnswers, StillOwns, Answers

LEMMA Assemble ==
    ASSUME IInv, NEW p \in Procs, Running(p), NEW r, Local(r), Statused(r), r.pc # "idle", r.task = run[p].task,
           Saves(p, r) \/ (Keep(p, r) /\ r.status = run[p].status), faults' \in 0 .. MaxFaults,
           uids' \in [Tasks -> 0 .. Slots], corrupt' \in BOOLEAN, wiped' \subseteq Procs,
           overlays' \subseteq Tasks, portFile' \subseteq Mappings, rules' \subseteq Mappings,
           Became(p, r) => Ranged' /\ Traced'
    PROVE  IInv'
<1>1. r \in Launches  BY DEF Local
<1>2. Saves(p, r)  BY <1>1, KeepSaves
<1>3. /\ run' \in [Procs -> Launches] /\ run'[p] = r /\ \A q \in Procs \ {p} : run'[q] = run[q]
      /\ status' \in [Tasks -> Status] /\ unsaved' \subseteq Procs /\ last' = last
      /\ (\A q \in Procs : Local(run[q])') /\ Newest'
  BY <1>2, OneLaunch
<1>4. TypeOK'  BY <1>3 DEF IInv, TypeOK
<1>5. Ranged' /\ Traced'  BY <1>3 DEF Became
<1>6. QED  BY <1>3, <1>4, <1>5 DEF IInv

\* What a step on the uid table has to see to, when the launch p becomes r.
TableOk(p, r) ==
    /\ uids' \in [Tasks -> 0 .. Slots] /\ corrupt' \in BOOLEAN /\ wiped' \subseteq Procs
    /\ Became(p, r) => Ranged'
    /\ \A t \in Tasks : uids'[t] # 0 => Ranges(t, r) \/ (uids[t] # 0 /\ ~Ranges(t, run[p]))

\* A step that touches nothing shared but the uid table and the state file.
LEMMA MovesWith ==
    ASSUME IInv, NEW p \in Procs, Running(p), NEW r, Local(r), Statused(r), StillOwns(run[p], r),
           r.task = run[p].task, r.pc # "idle", TableOk(p, r), UNCHANGED <<overlays, portFile, rules>>,
           Saves(p, r) \/ (Keep(p, r) /\ r.status = run[p].status), faults' \in 0 .. MaxFaults
    PROVE  IInv'
<1>1. ASSUME Became(p, r) PROVE Ranged' /\ Traced'
  <2>1. Ranged'  BY <1>1 DEF TableOk
  <2>2. Answers(p, r)  BY DEF StillOwns, Answers, TableOk
  <2>3. QED  BY <1>1, <2>1, <2>2, TracedKept
<1>2. /\ uids' \in [Tasks -> 0 .. Slots] /\ corrupt' \in BOOLEAN /\ wiped' \subseteq Procs
      /\ overlays' \subseteq Tasks /\ portFile' \subseteq Mappings /\ rules' \subseteq Mappings
  BY DEF IInv, TypeOK, TableOk
<1>3. QED  BY <1>1, <1>2, Assemble

LEMMA TableKept ==
    ASSUME IInv, NEW p \in Procs, NEW r, StillAnswers(run[p], r), r.task = run[p].task, r.slot = run[p].slot,
           r.pc \in FromVolumes /\ r.slot # 0 => run[p].pc \in FromVolumes, UNCHANGED uidVars
    PROVE  TableOk(p, r)
<1>1. UNCHANGED <<uids, wiped>> /\ corrupt' = corrupt  BY DEF uidVars
<1>2. Became(p, r) => Ranged'  BY <1>1, RangedKept
<1>3. QED  BY <1>1, <1>2 DEF TableOk, StillAnswers, IInv, TypeOK

\* The same when a rewrite of the table is cut short.
LEMMA TornOk ==
    ASSUME IInv, NEW p \in Procs, NEW r, StillAnswers(run[p], r), r.task = run[p].task, r.slot = run[p].slot,
           r.pc \in FromVolumes /\ r.slot # 0 => run[p].pc \in FromVolumes, Torn
    PROVE  TableOk(p, r)
<1>1. CASE corrupt' = TRUE /\ UNCHANGED <<uids, wiped>>
  <2>1. Became(p, r) => Ranged'  BY <1>1, RangedKept
  <2>2. QED  BY <1>1, <2>1 DEF TableOk, StillAnswers, IInv, TypeOK
<1>2. CASE /\ uids' = [t \in Tasks |-> 0] /\ UNCHANGED corrupt
           /\ wiped' = wiped \cup {q \in Procs : Running(q) /\ run[q].slot # 0}
  <2>1. 0 \in 0 .. Slots /\ \A t \in Tasks : uids'[t] = 0  BY <1>2, LaunchAssumption
  <2>2. uids' \in [Tasks -> 0 .. Slots] /\ corrupt' \in BOOLEAN /\ wiped' \subseteq Procs
    BY <1>2, <2>1 DEF IInv, TypeOK
  <2>3. ASSUME Became(p, r) PROVE Ranged'
    <3>1. ASSUME NEW q \in Procs, run'[q].pc \in FromVolumes, run'[q].slot # 0 PROVE q \in wiped'
      <4>1. run[q].pc \in FromVolumes /\ run[q].slot # 0
        <5>1. CASE q = p  BY <2>3, <3>1, <5>1 DEF Became
        <5>2. CASE q # p  BY <2>3, <3>1, <5>2 DEF Became
        <5>3. QED  BY <5>1, <5>2
      <4>2. Running(q)
        BY <4>1 DEF Running, FromVolumes, FromDisk, FromEgress, FromMint, FromLogs, FromJail, FromLaunch, Guarded
      <4>3. QED  BY <1>2, <4>1, <4>2
    <3>2. QED  BY <2>1, <3>1 DEF Ranged
  <2>4. QED  BY <2>1, <2>2, <2>3 DEF TableOk
<1>3. QED  BY <1>1, <1>2 DEF Torn

\* A step that touches nothing shared but the state file.
LEMMA MovesOn ==
    ASSUME IInv, NEW p \in Procs, Running(p), NEW r, Local(r), Statused(r), Grows(run[p], r), Private,
           Saves(p, r) \/ (Keep(p, r) /\ r.status = run[p].status), faults' \in 0 .. MaxFaults
    PROVE  IInv'
<1>1. Keeps(run[p], r) /\ r.pc # "idle" /\ r.task = run[p].task /\ r.slot = run[p].slot
      /\ (r.pc \in FromVolumes /\ r.slot # 0 => run[p].pc \in FromVolumes)
  BY DEF Grows, Keeps
<1>2. StillAnswers(run[p], r)  BY <1>1, StillTraced DEF Running
<1>3. UNCHANGED uidVars /\ UNCHANGED <<overlays, portFile, rules>>  BY DEF Private, uidVars
<1>4. TableOk(p, r)  BY <1>1, <1>2, <1>3, TableKept
<1>5. StillOwns(run[p], r)  BY <1>2 DEF StillAnswers
<1>6. QED  BY <1>1, <1>3, <1>4, <1>5, MovesWith

\* All that a step may do to a launch that has to fit the invariant.
Fits(x, r) == Local(r) /\ Statused(r) /\ Grows(x, r)

Early4 == {"pending", "provisioning", "ready", "running"}

\* A launch under way is where its stage says it is.
LEMMA UnderWay ==
    ASSUME IInv, NEW p \in Procs, Running(p)
    PROVE  /\ Local(run[p]) /\ Statused(run[p]) /\ run[p] \in Launches /\ run[p].task \in Tasks
           /\ last[run[p].task] = p /\ faults \in 0 .. MaxFaults
<1>1. Local(run[p]) /\ run[p] \in Launches /\ last[run[p].task] = p /\ p # NoProc /\ faults \in 0 .. MaxFaults
  BY LaunchAssumption DEF IInv, Local, Newest, TypeOK
<1>2. run[p].task \in Tasks  BY <1>1 DEF Launches
<1>3. QED  BY <1>1, <1>2 DEF IInv, Newest

\* The fields other than the stage, the resources and the deferred functions.
Alike(x, r) ==
    /\ r.task = x.task /\ r.status = x.status /\ r.slot = x.slot /\ r.vols = x.vols
    /\ r.degr = x.degr /\ r.warned = x.warned /\ r.guest = x.guest /\ r.addr = x.addr
    /\ r.loaded = x.loaded /\ r.mem = x.mem /\ r.created = x.created /\ r.committed = x.committed
    /\ r.limited = x.limited /\ r.started = x.started /\ r.left = x.left

Advanced(x, pc, H, S) == [x EXCEPT !.pc = pc, !.held = H, !.defers = S]

LEMMA AdvancedFields ==
    ASSUME NEW x \in Launches, NEW pc \in PCs, NEW H \in SUBSET Res, NEW S \in Seq(Deferred),
           NEW r, r = Advanced(x, pc, H, S)
    PROVE  r \in Launches /\ Alike(x, r) /\ r.pc = pc /\ r.held = H /\ r.defers = S
<1>1. r \in Launches  BY DEF Launches, Advanced
<1>2. r.pc = pc /\ r.held = H /\ r.defers = S  BY DEF Launches, Advanced
<1>3. Alike(x, r)  BY DEF Launches, Advanced, Alike
<1>4. QED  BY <1>1, <1>2, <1>3

LEMMA Advance ==
    ASSUME NEW x \in Launches, NEW pc \in PCs \ {"idle", "crashed"}, NEW H \in SUBSET Res,
           NEW S \in Seq(Deferred), NEW r, r = Advanced(x, pc, H, S),
           Due(x) \subseteq Stack(S), pc \in FromVolumes => x.pc \in FromVolumes \/ x.slot = 0,
           Caged(r), Papered(r), Owed(r), Statused(r)
    PROVE  Fits(x, r)
<1>1. r \in Launches /\ Alike(x, r) /\ r.pc = pc /\ r.held = H /\ r.defers = S  BY AdvancedFields
<1>2. Keeps(x, r)  BY <1>1 DEF Keeps, Alike, Due
<1>3. QED  BY <1>1, <1>2 DEF Fits, Local, Grows, Alike

LEMMA FitsMoves ==
    ASSUME IInv, NEW p \in Procs, Running(p), NEW r, Fits(run[p], r), Private,
           Saves(p, r) \/ (Keep(p, r) /\ r.status = run[p].status), faults' \in 0 .. MaxFaults
    PROVE  IInv'
BY MovesOn DEF Fits

\* The error return, from anywhere before the guest is settled.
LEMMA Abandons ==
    ASSUME NEW r \in Launches, ~Lives(r), r.status \in Early4, r.addr # 0 => "ip" \in r.held,
           \A y \in r.held : y \in r.left \/ \E f \in Due(r) : y \in Releases[f],
           NEW k \in 0 .. r.vols, NEW a, a = Abandoned(r, k)
    PROVE  /\ Local(a) /\ Statused(a) /\ a.pc = "unwind" /\ Keeps(r, a) /\ r.left \subseteq a.left
           /\ a.task = r.task /\ a.slot = r.slot /\ Due(a) = Due(r)
<1>1. PICK L : L = IF k = 0 THEN r.left ELSE r.left \cup {"volume"}  OBVIOUS
<1>2. canTransition(r.status, "failed")  BY DEF canTransition, allowed, Early4
<1>3. a = [r EXCEPT !.status = "failed", !.vols = k, !.left = L, !.pc = "unwind"]
  <2>1. PICK d : d = Detached(r, k)  OBVIOUS
  <2>2. d = [r EXCEPT !.vols = k, !.left = L]  BY <1>1, <2>1 DEF Detached, Launches
  <2>3. d.status = r.status  BY <2>2 DEF Launches
  <2>4. QED  BY <1>2, <2>1, <2>2, <2>3 DEF Abandoned, MovedTo, Launches
<1>4. a \in Launches
  <2>1. "failed" \in Status /\ "unwind" \in PCs /\ k \in Nat /\ L \subseteq Left
    BY <1>1 DEF Status, PCs, Launches, Left
  <2>2. QED  BY <1>3, <2>1 DEF Launches
<1>5. a.pc = "unwind" /\ a.status = "failed" /\ a.vols = k /\ a.held = r.held /\ a.defers = r.defers
      /\ a.addr = r.addr /\ a.guest = r.guest /\ a.left = L
  BY <1>3 DEF Launches
<1>6. a.task = r.task /\ a.slot = r.slot /\ a.loaded = r.loaded /\ a.mem = r.mem /\ a.created = r.created
      /\ a.committed = r.committed /\ r.left \subseteq a.left /\ (k # 0 => "volume" \in a.left)
  BY <1>1, <1>3 DEF Launches
<1>7. Due(a) = Due(r)  BY <1>5 DEF Due
<1>8. Caged(a)  BY <1>5, <1>6 DEF Caged, FromJail, FromLaunch, Guarded, FromEgress, FromMint, FromLogs, FromDisk
<1>9. Papered(a)  BY <1>5, <1>6 DEF Papered, Lives
<1>10. Owed(a)
  <2>1. \A y \in a.held : y \in a.left \/ \E f \in Due(a) : y \in Releases[f]  BY <1>5, <1>6, <1>7
  <2>2. QED  BY <1>5, <2>1 DEF Owed, Early
<1>11. Statused(a)
  BY <1>5 DEF Statused, Early, FromJail, FromLaunch, Guarded, FromVolumes, FromDisk, FromEgress, FromMint, FromLogs
<1>12. Keeps(r, a)  BY <1>6, <1>7 DEF Keeps
<1>13. QED  BY <1>4, <1>5, <1>6, <1>7, <1>8, <1>9, <1>10, <1>11, <1>12 DEF Local

LEMMA AbandonType ==
    ASSUME IInv, NEW p \in Procs, NEW r \in Launches, NEW n \in Nat, Abandon(p, r, n)
    PROVE  faults' \in 0 .. MaxFaults /\ \E k \in 0 .. r.vols : Saves(p, Abandoned(r, k))
<1>1. PICK k \in 0 .. r.vols : Save(p, Abandoned(r, k), n + k)  BY DEF Abandon
<1>2. n + k \in Nat  BY DEF Launches
<1>3. QED  BY <1>1, <1>2, SaveType

\* The error return of a launch that has become r.
LEMMA GivesUp ==
    ASSUME IInv, NEW p \in Procs, Running(p), NEW r \in Launches, Keeps(run[p], r), ~Lives(r),
           r.status \in Early4, r.addr # 0 => "ip" \in r.held,
           \A y \in r.held : y \in r.left \/ \E f \in Due(r) : y \in Releases[f],
           NEW n \in Nat, Abandon(p, r, n), Private
    PROVE  IInv'
<1>1. PICK k \in 0 .. r.vols : Saves(p, Abandoned(r, k))  BY AbandonType
<1>2. PICK a : a = Abandoned(r, k)  OBVIOUS
<1>3. Local(a) /\ Statused(a) /\ a.pc = "unwind" /\ Keeps(r, a)  BY <1>2, Abandons
<1>4. Keeps(run[p], a)  BY <1>3 DEF Keeps
<1>5. Grows(run[p], a)
  BY <1>3, <1>4 DEF Grows, FromVolumes, FromDisk, FromEgress, FromMint, FromLogs, FromJail, FromLaunch, Guarded
<1>6. faults' \in 0 .. MaxFaults  BY AbandonType
<1>7. QED  BY <1>1, <1>2, <1>3, <1>5, <1>6, MovesOn

\* A launch that goes on as r with one protection less, or fails.
LEMMA DegradedInv ==
    ASSUME IInv, NEW p \in Procs, Running(p), NEW r, Fits(run[p], r), r.status = run[p].status,
           r.status \in Early4, ~Lives(r), NEW layer \in Layers, NEW n \in Nat, Degraded(p, layer, r, n),
           r.pc \notin {"unwind", "returned", "crashed"}
    PROVE  IInv'
<1>1. r \in Launches /\ Caged(r) /\ Papered(r) /\ Owed(r) /\ Statused(r) /\ Grows(run[p], r) /\ Private
  BY DEF Fits, Local, Degraded
<1>2. CASE Fault(n) /\ Keep(p, [r EXCEPT !.degr = @ \cup {layer}, !.warned = @ \cup {layer}])
  <2>1. PICK a : a = [r EXCEPT !.degr = r.degr \cup {layer}, !.warned = r.warned \cup {layer}]  OBVIOUS
  <2>2. a \in Launches  BY <1>1, <2>1 DEF Launches
  <2>3. /\ a.pc = r.pc /\ a.held = r.held /\ a.defers = r.defers /\ a.task = r.task /\ a.status = r.status
        /\ a.vols = r.vols /\ a.degr = r.degr \cup {layer} /\ a.warned = r.warned \cup {layer}
    BY <1>1, <2>1 DEF Launches
  <2>4. /\ a.slot = r.slot /\ a.guest = r.guest /\ a.addr = r.addr /\ a.loaded = r.loaded /\ a.mem = r.mem
        /\ a.created = r.created /\ a.committed = r.committed /\ a.limited = r.limited
        /\ a.started = r.started /\ a.left = r.left
    BY <1>1, <2>1 DEF Launches
  <2>5. Due(a) = Due(r)  BY <2>3 DEF Due
  <2>6. Caged(a)  BY <1>1, <2>3, <2>4 DEF Caged
  <2>7. Papered(a)  BY <1>1, <2>3, <2>4 DEF Papered, Lives
  <2>8. Owed(a)  BY <1>1, <2>3, <2>4, <2>5 DEF Owed
  <2>9. Statused(a)  BY <1>1, <2>3 DEF Statused
  <2>10. Grows(run[p], a)  BY <1>1, <2>3, <2>4, <2>5 DEF Grows, Keeps
  <2>11. Keep(p, a)  BY <1>1, <1>2, <2>1 DEF Launches
  <2>12. Fits(run[p], a)  BY <2>2, <2>6, <2>7, <2>8, <2>9, <2>10 DEF Fits, Local
  <2>13. QED  BY <1>1, <1>2, <2>3, <2>11, <2>12, FitsMoves, FaultType
<1>3. CASE Abandon(p, [r EXCEPT !.degr = @ \cup {layer}], n + 1)
  <2>1. PICK a : a = [r EXCEPT !.degr = r.degr \cup {layer}]  OBVIOUS
  <2>2. a \in Launches  BY <1>1, <2>1 DEF Launches
  <2>3. /\ a.held = r.held /\ a.defers = r.defers /\ a.task = r.task /\ a.status = r.status
        /\ a.slot = r.slot /\ a.guest = r.guest /\ a.addr = r.addr /\ a.loaded = r.loaded /\ a.mem = r.mem
        /\ a.created = r.created /\ a.committed = r.committed /\ a.left = r.left
    BY <1>1, <2>1 DEF Launches
  <2>4. Due(a) = Due(r)  BY <2>3 DEF Due
  <2>5. Keeps(run[p], a)  BY <1>1, <2>3, <2>4 DEF Grows, Keeps
  <2>6. a.addr # 0 => "ip" \in a.held  BY <1>1, <2>3 DEF Caged
  <2>7. \A y \in a.held : y \in a.left \/ \E f \in Due(a) : y \in Releases[f]
    BY <1>1, <2>3, <2>4 DEF Owed, Grows
  <2>8. Abandon(p, a, n + 1)  BY <1>1, <1>3, <2>1 DEF Launches
  <2>9. ~Lives(a) /\ a.status \in Early4  BY <2>3 DEF Lives
  <2>10. n + 1 \in Nat  OBVIOUS
  <2>11. QED  BY <1>1, <2>2, <2>5, <2>6, <2>7, <2>8, <2>9, <2>10, GivesUp
<1>4. QED  BY <1>2, <1>3 DEF Degraded

-----------------------------------------------------------------------------
(* From stage to stage, before there is a guest. *)

Network == {"ipam", "l7", "filter", "ports"}
Timed == {"logs", "jail", "launch", "cgroup", "release", "start"}
Over == Settled \cup {"idle", "crashed"}

\* The launch x may go on to stage pc with K taken and F deferred.
Leads(x, pc, K, F) ==
    /\ x.pc \notin Over \cup Guarded /\ pc \notin Over \cup Guarded
    /\ pc \in FromJail => x.pc \in FromJail
    /\ pc \in FromLaunch => x.pc \in FromLaunch \/ "jail" \in K
    /\ pc \in FromEgress => \/ x.pc \in FromEgress \/ SpecOf[x.task].disk = "ubd"
                            \/ {"backend", "socket"} \subseteq K
    /\ pc \in FromMint => x.pc \in FromMint \/ SpecOf[x.task].net = "none" \/ "listener" \in K
    /\ pc \in FromDisk => x.pc \in FromDisk \/ x.vols = SpecOf[x.task].vols
    /\ pc \in FromVolumes <=> x.pc \in FromVolumes
    /\ pc \in {"volumes", "disk"} => x.pc \in {"volumes", "disk"}
    /\ pc \in Early <=> x.pc \in Early
    /\ pc \in FromJail <=> x.pc \in FromJail
    /\ pc \in Network => x.pc \in Network \/ "net" \in F
    /\ pc \in Timed => x.pc \in Timed \/ "timer" \in F
    /\ \A y \in K : \E f \in Due(x) \cup F : y \in Releases[f]

LEMMA Stages ==
    ASSUME NEW x \in Launches, Local(x), Statused(x), NEW pc \in PCs, NEW K \in SUBSET Res,
           NEW S \in Seq(Deferred), NEW F, Stack(S) = Due(x) \cup F, Leads(x, pc, K, F),
           NEW r, r = Advanced(x, pc, x.held \cup K, S)
    PROVE  Fits(x, r) /\ r.status = x.status /\ r.status \in Early4 /\ ~Lives(r) /\ r.pc = pc
<1>1. x.held \cup K \in SUBSET Res  BY DEF Launches
<1>2. r \in Launches /\ Alike(x, r) /\ r.pc = pc /\ r.held = x.held \cup K /\ r.defers = S
  BY <1>1, AdvancedFields
<1>3. Caged(x) /\ Papered(x) /\ Owed(x)  BY DEF Local
<1>4. Due(r) = Due(x) \cup F  BY <1>2 DEF Due
<1>5. Caged(r)  BY <1>2, <1>3 DEF Caged, Leads, Alike, Over, Settled
<1>6. ~Lives(x)  BY <1>3 DEF Papered, Leads
<1>7. Papered(r)  BY <1>2, <1>3, <1>6 DEF Papered, Lives, Leads, Alike, Over, Settled, Guarded
<1>8. Owed(r)  BY <1>2, <1>3, <1>4 DEF Owed, Leads, Alike, Over, Settled, Network, Timed
<1>9. Statused(r) /\ r.status \in Early4
  <2>1. CASE pc \in Early  BY <1>2, <2>1
    DEF Statused, Leads, Alike, Over, Early, Settled, Guarded, FromVolumes, FromDisk, FromEgress,
        FromMint, FromLogs, FromJail, FromLaunch, Early4
  <2>2. CASE pc \in FromJail  BY <1>2, <2>2
    DEF Statused, Leads, Alike, Over, Early, Settled, Guarded, FromVolumes, FromDisk, FromEgress,
        FromMint, FromLogs, FromJail, FromLaunch, Early4
  <2>3. CASE pc \in FromVolumes \ FromJail
    <3>1. x.pc \in FromVolumes \ FromJail /\ x.status = "provisioning"  BY <2>3 DEF Statused, Leads
    <3>2. r.status = "provisioning" /\ pc \notin Early \cup Settled \cup FromJail
      BY <1>2, <2>3, <3>1
      DEF Alike, Early, Settled, Guarded, FromVolumes, FromDisk, FromEgress, FromMint, FromLogs, FromJail, FromLaunch
    <3>3. QED  BY <1>2, <3>2 DEF Statused, FromJail, FromLaunch, Guarded, Early4
  <2>4. pc \in Early \cup FromVolumes
    BY DEF Leads, Over, PCs, Early, Settled, Guarded, FromVolumes, FromDisk, FromEgress,
        FromMint, FromLogs, FromJail, FromLaunch
  <2>5. QED  BY <2>1, <2>2, <2>3, <2>4
<1>10. Fits(x, r)  BY <1>1, <1>4, <1>2, <1>5, <1>7, <1>8, <1>9, Advance DEF Leads, Over, Due
<1>11. QED  BY <1>2, <1>6, <1>9, <1>10 DEF Alike, Lives

\* A stage goes on: with K taken and the functions of S deferred.
LEMMA StageOk ==
    ASSUME IInv, NEW p \in Procs, Running(p), NEW pc \in PCs, NEW K \in SUBSET Res,
           NEW S \in Seq(Deferred), NEW F, Stack(S) = Due(run[p]) \cup F, Leads(run[p], pc, K, F),
           Ok(p, Advanced(run[p], pc, run[p].held \cup K, S))
    PROVE  IInv'
<1>1. PICK x : x = run[p]  OBVIOUS
<1>2. x \in Launches /\ Local(x) /\ Statused(x) /\ faults \in 0 .. MaxFaults  BY <1>1, UnderWay
<1>3. PICK r : r = Advanced(x, pc, x.held \cup K, S)  OBVIOUS
<1>4. Fits(x, r) /\ r.status = x.status  BY <1>1, <1>2, <1>3, Stages
<1>5. QED  BY <1>1, <1>2, <1>3, <1>4, FitsMoves DEF Ok

\* A stage goes on without a protection, or fails.
LEMMA StageDegraded ==
    ASSUME IInv, NEW p \in Procs, Running(p), NEW pc \in PCs, NEW layer \in Layers, NEW n \in Nat,
           NEW K \in SUBSET Res, NEW S \in Seq(Deferred), NEW F, Stack(S) = Due(run[p]) \cup F, Leads(run[p], pc, K, F),
           Degraded(p, layer, Advanced(run[p], pc, run[p].held \cup K, S), n)
    PROVE  IInv'
<1>1. PICK x : x = run[p]  OBVIOUS
<1>2. x \in Launches /\ Local(x) /\ Statused(x)  BY <1>1, UnderWay
<1>3. PICK r : r = Advanced(x, pc, x.held \cup K, S)  OBVIOUS
<1>4. Fits(x, r) /\ r.status = x.status /\ r.status \in Early4 /\ ~Lives(r) /\ r.pc = pc
  BY <1>1, <1>2, <1>3, Stages
<1>5. r.pc \notin {"unwind", "returned", "crashed"}  BY <1>4 DEF Leads, Over, Settled
<1>6. QED  BY <1>1, <1>3, <1>4, <1>5, DegradedInv

\* The shapes in which the code does it.
LEMMA GoesOn ==
    ASSUME IInv, NEW p \in Procs, Running(p), NEW pc \in PCs,
           Leads(run[p], pc, {}, {}), Ok(p, Go(run[p], pc))
    PROVE  IInv'
<1>1. PICK x : x = run[p]  OBVIOUS
<1>2. x \in Launches /\ x.defers \in Seq(Deferred) /\ x.held \cup {} = x.held  BY <1>1, UnderWay DEF Launches
<1>3. Go(x, pc) = Advanced(x, pc, x.held \cup {}, x.defers)  BY <1>2 DEF Launches, Go, Hold, Defer, Advanced
<1>4. Stack(x.defers) = Due(x) \cup {} /\ {} \in SUBSET Res  BY DEF Due
<1>5. QED  BY <1>1, <1>2, <1>3, <1>4, StageOk

LEMMA Takes ==
    ASSUME IInv, NEW p \in Procs, Running(p), NEW pc \in PCs, NEW K \in SUBSET Res,
           Leads(run[p], pc, K, {}), Ok(p, Hold(Go(run[p], pc), K))
    PROVE  IInv'
<1>1. PICK x : x = run[p]  OBVIOUS
<1>2. x \in Launches /\ x.defers \in Seq(Deferred) /\ x.held \cup {} = x.held  BY <1>1, UnderWay DEF Launches
<1>3. Hold(Go(x, pc), K) = Advanced(x, pc, x.held \cup K, x.defers)
  BY <1>2 DEF Launches, Go, Hold, Defer, Advanced
<1>4. Stack(x.defers) = Due(x) \cup {} /\ {} \in SUBSET Res  BY DEF Due
<1>5. QED  BY <1>1, <1>2, <1>3, <1>4, StageOk

LEMMA Defers ==
    ASSUME IInv, NEW p \in Procs, Running(p), NEW pc \in PCs, NEW f \in Deferred,
           Leads(run[p], pc, {}, {f}), Ok(p, Defer(Go(run[p], pc), f)) \/ Ok(p, Go(Defer(run[p], f), pc))
    PROVE  IInv'
<1>1. PICK x : x = run[p]  OBVIOUS
<1>2. x \in Launches /\ x.defers \in Seq(Deferred) /\ x.held \cup {} = x.held  BY <1>1, UnderWay DEF Launches
<1>3. Defer(Go(x, pc), f) = Go(Defer(x, f), pc)
      /\ Go(Defer(x, f), pc) = Advanced(x, pc, x.held \cup {}, <<f>> \o x.defers)
  BY <1>2 DEF Launches, Go, Hold, Defer, Advanced
<1>4. <<f>> \o x.defers \in Seq(Deferred) /\ Stack(<<f>> \o x.defers) = Due(x) \cup {f}  BY <1>2, PushDue DEF Due
<1>5. QED  BY <1>1, <1>2, <1>3, <1>4, StageOk

LEMMA TakesAndDefers ==
    ASSUME IInv, NEW p \in Procs, Running(p), NEW pc \in PCs, NEW K \in SUBSET Res, NEW f \in Deferred,
           Leads(run[p], pc, K, {f}),
           Ok(p, Defer(Hold(Go(run[p], pc), K), f)) \/ Ok(p, Hold(Go(Defer(run[p], f), pc), K))
    PROVE  IInv'
<1>1. PICK x : x = run[p]  OBVIOUS
<1>2. x \in Launches /\ x.defers \in Seq(Deferred) /\ x.held \cup {} = x.held  BY <1>1, UnderWay DEF Launches
<1>3. Defer(Hold(Go(x, pc), K), f) = Hold(Go(Defer(x, f), pc), K)
      /\ Hold(Go(Defer(x, f), pc), K) = Advanced(x, pc, x.held \cup K, <<f>> \o x.defers)
  BY <1>2 DEF Launches, Go, Hold, Defer, Advanced
<1>4. <<f>> \o x.defers \in Seq(Deferred) /\ Stack(<<f>> \o x.defers) = Due(x) \cup {f}  BY <1>2, PushDue DEF Due
<1>5. QED  BY <1>1, <1>2, <1>3, <1>4, StageOk

LEMMA GoesWithout ==
    ASSUME IInv, NEW p \in Procs, Running(p), NEW pc \in PCs, NEW layer \in Layers, NEW n \in Nat,
           Leads(run[p], pc, {}, {}), Degraded(p, layer, Go(run[p], pc), n)
    PROVE  IInv'
<1>1. PICK x : x = run[p]  OBVIOUS
<1>2. x \in Launches /\ x.defers \in Seq(Deferred) /\ x.held \cup {} = x.held  BY <1>1, UnderWay DEF Launches
<1>3. Go(x, pc) = Advanced(x, pc, x.held \cup {}, x.defers)  BY <1>2 DEF Launches, Go, Hold, Defer, Advanced
<1>4. Stack(x.defers) = Due(x) \cup {} /\ {} \in SUBSET Res  BY DEF Due
<1>5. QED  BY <1>1, <1>2, <1>3, <1>4, StageDegraded

LEMMA DefersWithout ==
    ASSUME IInv, NEW p \in Procs, Running(p), NEW pc \in PCs, NEW layer \in Layers, NEW n \in Nat, NEW f \in Deferred,
           Leads(run[p], pc, {}, {f}), Degraded(p, layer, Go(Defer(run[p], f), pc), n)
    PROVE  IInv'
<1>1. PICK x : x = run[p]  OBVIOUS
<1>2. x \in Launches /\ x.defers \in Seq(Deferred) /\ x.held \cup {} = x.held  BY <1>1, UnderWay DEF Launches
<1>3. Go(Defer(x, f), pc) = Advanced(x, pc, x.held \cup {}, <<f>> \o x.defers)
  BY <1>2 DEF Launches, Go, Hold, Defer, Advanced
<1>4. <<f>> \o x.defers \in Seq(Deferred) /\ Stack(<<f>> \o x.defers) = Due(x) \cup {f}  BY <1>2, PushDue DEF Due
<1>5. PICK S, F : S = <<f>> \o x.defers /\ F = {f}  OBVIOUS
<1>6. S \in Seq(Deferred) /\ Stack(S) = Due(run[p]) \cup F /\ Leads(run[p], pc, {}, F)
      /\ Degraded(p, layer, Advanced(run[p], pc, run[p].held \cup {}, S), n)
  BY <1>1, <1>3, <1>4, <1>5
<1>7. QED  BY <1>6, StageDegraded

LEMMA TakesWithout ==
    ASSUME IInv, NEW p \in Procs, Running(p), NEW pc \in PCs, NEW layer \in Layers, NEW n \in Nat,
           NEW K \in SUBSET Res, NEW f \in Deferred, Leads(run[p], pc, K, {f}),
           Degraded(p, layer, Defer(Hold(Go(run[p], pc), K), f), n)
    PROVE  IInv'
<1>1. PICK x : x = run[p]  OBVIOUS
<1>2. x \in Launches /\ x.defers \in Seq(Deferred)  BY <1>1, UnderWay DEF Launches
<1>3. Defer(Hold(Go(x, pc), K), f) = Advanced(x, pc, x.held \cup K, <<f>> \o x.defers)
  BY <1>2 DEF Launches, Go, Hold, Defer, Advanced
<1>4. <<f>> \o x.defers \in Seq(Deferred) /\ Stack(<<f>> \o x.defers) = Due(x) \cup {f}  BY <1>2, PushDue DEF Due
<1>5. PICK S, F : S = <<f>> \o x.defers /\ F = {f}  OBVIOUS
<1>6. S \in Seq(Deferred) /\ Stack(S) = Due(run[p]) \cup F /\ Leads(run[p], pc, K, F)
      /\ Degraded(p, layer, Advanced(run[p], pc, run[p].held \cup K, S), n)
  BY <1>1, <1>3, <1>4, <1>5
<1>7. QED  BY <1>6, StageDegraded

-----------------------------------------------------------------------------
(* The actions that only go from stage to stage. *)

USE DEF Over, Settled, Guarded, FromLaunch, FromJail, FromLogs, FromMint, FromEgress, FromDisk,
        FromVolumes, Early, Network, Timed

LEMMA RecordSpecInv == ASSUME IInv, NEW p \in Procs, RecordSpec(p) PROVE IInv'
<1>1. run[p].pc = "evidence" /\ Running(p)  BY DEF RecordSpec, At, Running
<1>2. "security" \in PCs  BY DEF PCs
<1>4. Leads(run[p], "security", {}, {})  BY <1>1 DEF RecordSpec, Leads, Releases
<1>5. QED  BY <1>1, <1>2, <1>4, GoesOn DEF RecordSpec

LEMMA VolumesAttachedInv == ASSUME IInv, NEW p \in Procs, VolumesAttached(p) PROVE IInv'
<1>1. run[p].pc = "volumes" /\ Running(p)  BY DEF VolumesAttached, At, Running
<1>2. "disk" \in PCs  BY DEF PCs
<1>4. Leads(run[p], "disk", {}, {})  BY <1>1 DEF VolumesAttached, Leads, Releases, TaskSpecOf
<1>5. QED  BY <1>1, <1>2, <1>4, GoesOn DEF VolumesAttached

LEMMA StartBlkInv == ASSUME IInv, NEW p \in Procs, StartBlk(p) PROVE IInv'
<1>1. run[p].pc = "vhost" /\ Running(p)  BY DEF StartBlk, At, Running
<1>2. "egress" \in PCs /\ {"backend", "socket"} \in SUBSET Res /\ "vhost" \in Deferred  BY DEF PCs, Res, HostRes, Deferred
<1>4. Leads(run[p], "egress", {"backend", "socket"}, {"vhost"})  BY <1>1 DEF StartBlk, Leads, Releases
<1>5. QED  BY <1>1, <1>2, <1>4, TakesAndDefers DEF StartBlk

LEMMA BuildArgsInv == ASSUME IInv, NEW p \in Procs, BuildArgs(p) PROVE IInv'
<1>1. run[p].pc = "args" /\ Running(p)  BY DEF BuildArgs, At, Running
<1>2. "logs" \in PCs /\ "timer" \in Deferred  BY DEF PCs, Deferred
<1>4. Leads(run[p], "logs", {}, {"timer"})  BY <1>1 DEF BuildArgs, Leads, Releases
<1>5. QED  BY <1>1, <1>2, <1>4, Defers DEF BuildArgs

LEMMA SetupJailInv == ASSUME IInv, NEW p \in Procs, SetupJail(p) PROVE IInv'
<1>1. run[p].pc = "jail" /\ Running(p)  BY DEF SetupJail, At, Running
<1>2. "launch" \in PCs /\ {"jail"} \in SUBSET Res /\ "jail" \in Deferred  BY DEF PCs, Res, HostRes, Deferred
<1>4. Leads(run[p], "launch", {"jail"}, {"jail"})  BY <1>1 DEF SetupJail, Leads, Releases
<1>5. QED  BY <1>1, <1>2, <1>4, TakesAndDefers DEF SetupJail

LEMMA CheckSecurityInv == ASSUME IInv, NEW p \in Procs, CheckSecurity(p) PROVE IInv'
<1>1. run[p].pc = "security" /\ Running(p)  BY DEF CheckSecurity, At, Running
<1>2. "uid" \in PCs /\ {"lsm", "namespaces", "userns"} \subseteq Layers /\ 1 \in Nat  BY DEF PCs, Layers
<1>3. Leads(run[p], "uid", {}, {})  BY <1>1 DEF Leads
<1>4. CASE Ok(p, Go(run[p], "uid"))  BY <1>1, <1>2, <1>3, <1>4, GoesOn
<1>5. ASSUME NEW layer \in {"lsm", "namespaces", "userns"}, Degraded(p, layer, Go(run[p], "uid"), 1) PROVE IInv'
  <2>1. layer \in Layers  BY <1>2
  <2>2. QED  BY <1>1, <1>2, <1>3, <1>5, <2>1, GoesWithout
<1>6. QED  BY <1>4, <1>5 DEF CheckSecurity

LEMMA ListenTransparentInv == ASSUME IInv, NEW p \in Procs, ListenTransparent(p) PROVE IInv'
<1>1. run[p].pc = "egress" /\ Running(p)  BY DEF ListenTransparent, At, Running
<1>2. PICK next : next = IF Networked(p) THEN "listen" ELSE "mint"  OBVIOUS
<1>3. next \in PCs /\ {"tln"} \in SUBSET Res /\ "tln" \in Deferred /\ "transparent" \in Layers /\ 1 \in Nat
  BY <1>2 DEF PCs, Res, Deferred, Layers
<1>4. Leads(run[p], next, {}, {}) /\ Leads(run[p], next, {"tln"}, {"tln"})
  BY <1>1, <1>2 DEF Leads, Releases, Networked, TaskSpecOf
<1>5. \/ Ok(p, Defer(Hold(Go(run[p], next), {"tln"}), "tln"))
      \/ Degraded(p, "transparent", Go(run[p], next), 1)
      \/ Ok(p, Go(run[p], next))
  BY <1>2 DEF ListenTransparent
<1>6. QED  BY <1>1, <1>3, <1>4, <1>5, TakesAndDefers, GoesWithout, GoesOn

LEMMA ListenForTaskInv == ASSUME IInv, NEW p \in Procs, ListenForTask(p) PROVE IInv'
<1>1. run[p].pc \in {"listen", "loopback"} /\ Running(p)  BY DEF ListenForTask, At, Running
<1>2. "mint" \in PCs /\ "loopback" \in PCs /\ {"listener"} \in SUBSET Res /\ "listener" \in Deferred
      /\ "gateway" \in Layers /\ 1 \in Nat
  BY DEF PCs, Res, Deferred, Layers
<1>3. Leads(run[p], "mint", {"listener"}, {"listener"})  BY <1>1 DEF Leads, Releases
<1>4. Leads(run[p], "loopback", {}, {})  BY <1>1 DEF Leads
<1>5. CASE Ok(p, Defer(Hold(Go(run[p], "mint"), {"listener"}), "listener"))
  BY <1>1, <1>2, <1>3, <1>5, TakesAndDefers
<1>6. CASE Degraded(p, "gateway", Go(run[p], "loopback"), 1)  BY <1>1, <1>2, <1>4, <1>6, GoesWithout
<1>7. QED  BY <1>5, <1>6 DEF ListenForTask

LEMMA MintInv == ASSUME IInv, NEW p \in Procs, Mint(p) PROVE IInv'
<1>1. run[p].pc = "mint" /\ Running(p)  BY DEF Mint, At, Running
<1>2. PICK next : next = IF Networked(p) THEN "tap" ELSE "args"  OBVIOUS
<1>3. next \in PCs  BY <1>2 DEF PCs
<1>4. Leads(run[p], next, {}, {})  BY <1>1, <1>2 DEF Leads
<1>5. Ok(p, Go(run[p], next))  BY <1>2 DEF Mint
<1>6. QED  BY <1>1, <1>3, <1>4, <1>5, GoesOn

LEMMA OpenTapInv == ASSUME IInv, NEW p \in Procs, OpenTap(p) PROVE IInv'
<1>1. run[p].pc = "tap" /\ Running(p)  BY DEF OpenTap, At, Running
<1>2. "net" \in PCs /\ {"tapfd"} \in SUBSET Res /\ "tapfd" \in Deferred  BY DEF PCs, Res, Deferred
<1>3. Leads(run[p], "net", {}, {}) /\ Leads(run[p], "net", {"tapfd"}, {"tapfd"})  BY <1>1 DEF Leads, Releases
<1>4. Ok(p, Defer(Hold(Go(run[p], "net"), {"tapfd"}), "tapfd")) \/ Ok(p, Go(run[p], "net"))  BY DEF OpenTap
<1>5. QED  BY <1>1, <1>2, <1>3, <1>4, TakesAndDefers, GoesOn

LEMMA AttachPlaneInv == ASSUME IInv, NEW p \in Procs, AttachPlane(p) PROVE IInv'
<1>1. run[p].pc = "net" /\ Running(p)  BY DEF AttachPlane, At, Running
<1>2. "ports" \in PCs /\ "ipam" \in PCs /\ {"dataplane"} \in SUBSET Res /\ "net" \in Deferred
      /\ "tc" \in Layers /\ 1 \in Nat
  BY DEF PCs, Res, HostRes, Deferred, Layers
<1>3. Leads(run[p], "ports", {"dataplane"}, {"net"})  BY <1>1 DEF Leads, Releases
<1>4. Leads(run[p], "ports", {}, {"net"}) /\ Leads(run[p], "ipam", {}, {"net"})  BY <1>1 DEF Leads
<1>5. CASE Ok(p, Hold(Go(Defer(run[p], "net"), "ports"), {"dataplane"}))
  BY <1>1, <1>2, <1>3, <1>5, TakesAndDefers
<1>6. ASSUME NEW next \in {"ports", "ipam"}, Degraded(p, "tc", Go(Defer(run[p], "net"), next), 1) PROVE IInv'
  <2>1. next \in PCs /\ Leads(run[p], next, {}, {"net"})  BY <1>2, <1>4
  <2>2. QED  BY <1>1, <1>2, <1>6, <2>1, DefersWithout
<1>7. CASE Ok(p, Go(Defer(run[p], "net"), "ipam"))  BY <1>1, <1>2, <1>4, <1>7, Defers
<1>8. QED  BY <1>5, <1>6, <1>7 DEF AttachPlane

LEMMA EnableTransparentL7Inv == ASSUME IInv, NEW p \in Procs, EnableTransparentL7(p) PROVE IInv'
<1>1. run[p].pc = "l7" /\ Running(p)  BY DEF EnableTransparentL7, At, Running
<1>2. "filter" \in PCs /\ {"l7rules"} \in SUBSET Res /\ "l7rules" \in Layers /\ 1 \in Nat
  BY DEF PCs, Res, HostRes, Layers
<1>3. "net" \in Due(run[p])  BY <1>1, UnderWay DEF Local, Owed
<1>4. Leads(run[p], "filter", {}, {}) /\ Leads(run[p], "filter", {"l7rules"}, {})
  BY <1>1, <1>3 DEF Leads, Releases
<1>5. \/ Ok(p, Hold(Go(run[p], "filter"), {"l7rules"})) \/ Ok(p, Go(run[p], "filter"))
      \/ Degraded(p, "l7rules", Go(run[p], "filter"), 1)
  BY DEF EnableTransparentL7
<1>6. QED  BY <1>1, <1>2, <1>4, <1>5, Takes, GoesOn, GoesWithout

LEMMA AttachEgressFilterInv == ASSUME IInv, NEW p \in Procs, AttachEgressFilter(p) PROVE IInv'
<1>1. run[p].pc = "filter" /\ Running(p)  BY DEF AttachEgressFilter, At, Running
<1>2. "ports" \in PCs /\ {"filter"} \in SUBSET Res /\ "filter" \in Layers /\ 1 \in Nat
  BY DEF PCs, Res, HostRes, Layers
<1>3. "net" \in Due(run[p])  BY <1>1, UnderWay DEF Local, Owed
<1>4. Leads(run[p], "ports", {}, {}) /\ Leads(run[p], "ports", {"filter"}, {})
  BY <1>1, <1>3 DEF Leads, Releases
<1>5. QED  BY <1>1, <1>2, <1>4, Takes, GoesWithout DEF AttachEgressFilter

LEMMA NoPortMappingsInv == ASSUME IInv, NEW p \in Procs, NoPortMappings(p) PROVE IInv'
<1>1. run[p].pc = "ports" /\ Running(p)  BY DEF NoPortMappings, At, Running
<1>2. "dns" \in PCs /\ "ports" \in Layers /\ 0 \in Nat  BY DEF PCs, Layers
<1>3. Leads(run[p], "dns", {}, {})  BY <1>1 DEF Leads
<1>4. QED  BY <1>1, <1>2, <1>3, GoesOn, GoesWithout DEF NoPortMappings

-----------------------------------------------------------------------------
(* The error returns. *)

\* Before the guest exists, an error return of the launch as it is, or with
\* more recorded of it, is sound.
LEMMA Failing ==
    ASSUME IInv, NEW p \in Procs, run[p].pc \notin Over \cup Guarded
    PROVE  /\ Running(p) /\ run[p] \in Launches /\ ~Lives(run[p]) /\ run[p].status \in Early4
           /\ run[p].addr # 0 => "ip" \in run[p].held
           /\ \A y \in run[p].held : y \in run[p].left \/ \E f \in Due(run[p]) : y \in Releases[f]
<1>1. Running(p)  BY DEF Running
<1>2. PICK x : x = run[p]  OBVIOUS
<1>3. x \in Launches /\ Caged(x) /\ Papered(x) /\ Owed(x) /\ Statused(x)  BY <1>1, <1>2, UnderWay DEF Local
<1>4. ~Lives(x)  BY <1>2, <1>3 DEF Papered
<1>5. x.status \in Early4
  <2>1. x.pc \in Early \cup (FromVolumes \ FromJail) \cup {"jail", "launch"}  BY <1>2, <1>3 DEF Launches, PCs
  <2>2. QED  BY <1>3, <2>1 DEF Statused, Early4
<1>6. x.addr # 0 => "ip" \in x.held  BY <1>3 DEF Caged
<1>7. \A y \in x.held : y \in x.left \/ \E f \in Due(x) : y \in Releases[f]  BY <1>2, <1>3 DEF Owed
<1>8. QED  BY <1>1, <1>2, <1>3, <1>4, <1>5, <1>6, <1>7

LEMMA FailsAsIs ==
    ASSUME IInv, NEW p \in Procs, run[p].pc \notin Over \cup Guarded, NEW n \in Nat, Abandon(p, run[p], n), Private
    PROVE  IInv'
<1>1. Keeps(run[p], run[p])  BY DEF Keeps
<1>2. QED  BY <1>1, Failing, GivesUp

LEMMA StageFailsInv == ASSUME IInv, NEW p \in Procs, StageFails(p) PROVE IInv'
<1>1. run[p].pc \notin Over \cup Guarded  BY DEF StageFails, CanFail, HardStages, At
<1>2. Abandon(p, run[p], 1) /\ Private /\ 1 \in Nat  BY DEF StageFails
<1>3. QED  BY <1>1, <1>2, FailsAsIs

\* A launch that goes without D and leaves L behind, otherwise as it is.
Short(x, D, L) == [x EXCEPT !.degr = x.degr \cup D, !.left = x.left \cup L]

\* The premises of GivesUp.
CanGiveUp(x, r) ==
    /\ r \in Launches /\ Keeps(x, r) /\ ~Lives(r) /\ r.status \in Early4
    /\ r.addr # 0 => "ip" \in r.held
    /\ \A y \in r.held : y \in r.left \/ \E f \in Due(r) : y \in Releases[f]

LEMMA FailingWithout ==
    ASSUME IInv, NEW p \in Procs, run[p].pc \notin Over \cup Guarded, NEW D, D \subseteq Layers, NEW L, L \subseteq Left,
           NEW r, r = Short(run[p], D, L)
    PROVE  CanGiveUp(run[p], r)
<1>1. PICK x : x = run[p]  OBVIOUS
<1>2. x \in Launches  BY <1>1, Failing
<1>3. r \in Launches
  <2>1. x.degr \cup D \subseteq Layers /\ x.left \cup L \subseteq Left  BY <1>2 DEF Launches
  <2>2. QED  BY <1>1, <1>2, <2>1 DEF Launches, Short
<1>4. /\ r.held = x.held /\ r.defers = x.defers /\ r.task = x.task /\ r.status = x.status
      /\ r.slot = x.slot /\ r.guest = x.guest /\ r.addr = x.addr /\ r.loaded = x.loaded /\ r.mem = x.mem
      /\ r.created = x.created /\ r.committed = x.committed /\ r.left = x.left \cup L
  BY <1>1, <1>2 DEF Launches, Short
<1>5. Due(r) = Due(x)  BY <1>4 DEF Due
<1>6. Keeps(x, r)  BY <1>4, <1>5 DEF Keeps
<1>7. ~Lives(r) /\ r.status \in Early4 /\ (r.addr # 0 => "ip" \in r.held)
      /\ (\A y \in r.held : y \in r.left \/ \E f \in Due(r) : y \in Releases[f])
  BY <1>1, <1>4, <1>5, Failing DEF Lives
<1>8. QED  BY <1>1, <1>3, <1>4, <1>6, <1>7 DEF CanGiveUp

LEMMA FailsWithout ==
    ASSUME IInv, NEW p \in Procs, run[p].pc \notin Over \cup Guarded, NEW layer \in Layers, NEW n \in Nat,
           Abandon(p, [run[p] EXCEPT !.degr = @ \cup {layer}], n), Private
    PROVE  IInv'
<1>1. run[p] \in Launches  BY Failing
<1>2. PICK r : r = Short(run[p], {layer}, {})  OBVIOUS
<1>3. [run[p] EXCEPT !.degr = @ \cup {layer}] = r
  <2>1. run[p].left \cup {} = run[p].left  OBVIOUS
  <2>2. QED  BY <1>1, <1>2, <2>1 DEF Launches, Short
<1>4. {} \subseteq Left /\ {layer} \subseteq Layers  OBVIOUS
<1>5. CanGiveUp(run[p], r)  BY <1>2, <1>4, FailingWithout
<1>6. QED  BY <1>1, <1>3, <1>5, Failing, GivesUp DEF CanGiveUp

LEMMA PortTakenInv == ASSUME IInv, NEW p \in Procs, PortTaken(p) PROVE IInv'
<1>1. PICK x : x = run[p]  OBVIOUS
<1>2. x.pc = "ports" /\ run[p].pc \notin Over \cup Guarded  BY <1>1 DEF PortTaken, At
<1>3. PICK r : r = [x EXCEPT !.loaded = TRUE, !.mem = Registry(x)]  OBVIOUS
<1>4. x \in Launches /\ faults \in 0 .. MaxFaults  BY <1>1, <1>2, Failing, UnderWay
<1>5. Registry(x) \subseteq Mappings /\ (x.loaded => Registry(x) = x.mem)
  BY <1>4 DEF Registry, Launches, IInv, TypeOK
<1>6. r \in Launches  BY <1>3, <1>4, <1>5 DEF Launches
<1>7. /\ r.held = x.held /\ r.defers = x.defers /\ r.task = x.task /\ r.status = x.status
      /\ r.slot = x.slot /\ r.guest = x.guest /\ r.addr = x.addr /\ r.loaded = TRUE /\ r.mem = Registry(x)
      /\ r.created = x.created /\ r.committed = x.committed /\ r.left = x.left
  BY <1>3, <1>4 DEF Launches
<1>8. Due(r) = Due(x)  BY <1>7 DEF Due
<1>9. Keeps(x, r)  BY <1>5, <1>7, <1>8 DEF Keeps
<1>10. ~Lives(r) /\ r.status \in Early4 /\ (r.addr # 0 => "ip" \in r.held)
       /\ (\A y \in r.held : y \in r.left \/ \E f \in Due(r) : y \in Releases[f])
  BY <1>1, <1>2, <1>7, <1>8, Failing DEF Lives
<1>11. Abandon(p, r, 0) /\ Private /\ 0 \in Nat  BY <1>1, <1>3 DEF PortTaken
<1>12. QED  BY <1>1, <1>2, <1>4, <1>6, <1>9, <1>10, <1>11, Failing, GivesUp

LEMMA SocketGrantFailsInv == ASSUME IInv, NEW p \in Procs, SocketGrantFails(p) PROVE IInv'
<1>1. PICK x : x = run[p]  OBVIOUS
<1>2. x.pc = "vhost" /\ run[p].pc \notin Over \cup Guarded  BY <1>1 DEF SocketGrantFails, At
<1>3. PICK r : r = [x EXCEPT !.held = x.held \cup {"backend", "socket"}, !.left = x.left \cup {"backend", "socket"}]
  OBVIOUS
<1>4. x \in Launches  BY <1>1, <1>2, Failing
<1>5. r = [Hold(x, {"backend", "socket"}) EXCEPT !.left = @ \cup {"backend", "socket"}]
  BY <1>3, <1>4 DEF Hold, Launches
<1>6. r \in Launches  BY <1>3, <1>4 DEF Launches, Res, HostRes, Left
<1>7. /\ r.held = x.held \cup {"backend", "socket"} /\ r.defers = x.defers /\ r.task = x.task
      /\ r.status = x.status /\ r.slot = x.slot /\ r.guest = x.guest /\ r.addr = x.addr
      /\ r.loaded = x.loaded /\ r.mem = x.mem /\ r.created = x.created /\ r.committed = x.committed
      /\ r.left = x.left \cup {"backend", "socket"}
  BY <1>3, <1>4 DEF Launches
<1>8. Keeps(x, r)  BY <1>7 DEF Keeps, Due
<1>9. ~Lives(r) /\ r.status \in Early4 /\ (r.addr # 0 => "ip" \in r.held)
      /\ (\A y \in r.held : y \in r.left \/ \E f \in Due(r) : y \in Releases[f])
  <2>1. Due(r) = Due(x)  BY <1>7 DEF Due
  <2>2. QED  BY <1>1, <1>2, <1>7, <2>1, Failing DEF Lives
<1>10. Abandon(p, r, 1) /\ Private /\ 1 \in Nat  BY <1>1, <1>5 DEF SocketGrantFails
<1>11. QED  BY <1>1, <1>2, <1>6, <1>7, <1>8, <1>9, <1>10, Failing, GivesUp

LEMMA StartLearnerInv == ASSUME IInv, NEW p \in Procs, StartLearner(p) PROVE IInv'
<1>1. run[p].pc = "dns" /\ Running(p) /\ faults \in 0 .. MaxFaults
  <2>1. run[p].pc = "dns" /\ Running(p)  BY DEF StartLearner, At, Running
  <2>2. QED  BY <2>1, UnderWay
<1>2. "args" \in PCs /\ {"learner"} \in SUBSET Res /\ "dns" \in Deferred /\ "dnsmap" \in Layers /\ 0 \in Nat /\ 1 \in Nat
  BY DEF PCs, Res, Deferred, Layers
<1>3. Leads(run[p], "args", {}, {}) /\ Leads(run[p], "args", {"learner"}, {"dns"})  BY <1>1 DEF Leads, Releases
<1>4. PICK r : r = Defer(Hold(Go(run[p], "args"), {"learner"}), "dns")  OBVIOUS
<1>5. CASE Ok(p, Go(run[p], "args"))  BY <1>1, <1>2, <1>3, <1>5, GoesOn
<1>6. CASE Ok(p, r)  BY <1>1, <1>2, <1>3, <1>4, <1>6, TakesAndDefers
<1>7. CASE /\ UNCHANGED faults /\ Private
           /\ Keep(p, [r EXCEPT !.degr = @ \cup {"dnsmap"}, !.warned = @ \cup {"dnsmap"}])
  <2>1. Fault(0)  BY <1>1, <1>7, LaunchAssumption DEF Fault
  <2>2. Degraded(p, "dnsmap", r, 0)  BY <1>7, <2>1 DEF Degraded
  <2>3. QED  BY <1>1, <1>2, <1>3, <1>4, <2>2, TakesWithout
<1>8. CASE Private /\ Abandon(p, [run[p] EXCEPT !.degr = @ \cup {"dnsmap"}], 1)
  BY <1>1, <1>2, <1>8, FailsWithout
<1>9. QED  BY <1>4, <1>5, <1>6, <1>7, <1>8 DEF StartLearner

-----------------------------------------------------------------------------
(* Around the guest, and after it. *)

\* What the later stages leave alone.
Same(x, r) ==
    /\ r.task = x.task /\ r.slot = x.slot /\ r.degr = x.degr /\ r.warned = x.warned
    /\ r.loaded = x.loaded /\ r.mem = x.mem /\ r.created = x.created /\ r.left = x.left

\* A launch under way, part by part.
Parts(x) ==
    /\ x \in Launches /\ Caged(x) /\ Papered(x) /\ Owed(x) /\ Statused(x) /\ x.vols \in Nat
    /\ x.defers \in Seq(Deferred) /\ faults \in 0 .. MaxFaults

LEMMA HasParts == ASSUME IInv, NEW p \in Procs, Running(p) PROVE Parts(run[p])
BY UnderWay DEF Parts, Local, Launches

LEMMA PartsFit ==
    ASSUME NEW x, NEW r \in Launches, Same(x, r), Caged(r), Papered(r), Owed(r), Statused(r),
           Due(x) \subseteq Due(r), x.committed => r.committed, r.pc \notin {"idle", "crashed"},
           r.pc \in FromVolumes /\ r.slot # 0 => x.pc \in FromVolumes
    PROVE  Fits(x, r)
BY DEF Fits, Local, Grows, Keeps, Same


LEMMA AttachVolumeInv == ASSUME IInv, NEW p \in Procs, AttachVolume(p) PROVE IInv'
<1>1. PICK x : x = run[p]  OBVIOUS
<1>2. x.pc = "volumes" /\ Running(p)  BY <1>1 DEF AttachVolume, At, Running
<1>3. Parts(x)  BY <1>1, <1>2, HasParts
<1>4. PICK r : r = [x EXCEPT !.vols = x.vols + 1]  OBVIOUS
<1>5. r \in Launches
  <2>1. x.vols + 1 \in Nat  BY <1>3 DEF Parts
  <2>2. QED  BY <1>3, <1>4, <2>1 DEF Parts, Launches
<1>6. /\ r.pc = x.pc /\ r.status = x.status /\ r.held = x.held /\ r.defers = x.defers /\ r.guest = x.guest
      /\ r.addr = x.addr /\ r.limited = x.limited /\ r.started = x.started /\ r.committed = x.committed
  BY <1>3, <1>4 DEF Parts, Launches
<1>7. Same(x, r) /\ Due(r) = Due(x)  BY <1>3, <1>4, <1>6 DEF Parts, Launches, Same, Due
<1>8. Caged(r)  BY <1>2, <1>3, <1>6, <1>7 DEF Caged, Parts, Same
<1>9. Papered(r)  BY <1>2, <1>3, <1>6, <1>7 DEF Papered, Lives, Parts, Same
<1>10. Owed(r)  BY <1>2, <1>3, <1>6, <1>7 DEF Owed, Parts, Same
<1>11. Statused(r)  BY <1>3, <1>6 DEF Statused, Parts
<1>12. Fits(x, r)  BY <1>2, <1>5, <1>6, <1>7, <1>8, <1>9, <1>10, <1>11, PartsFit
<1>13. Keep(p, r) /\ Private /\ faults' \in 0 .. MaxFaults  BY <1>1, <1>3, <1>4 DEF AttachVolume, Ok, Parts
<1>14. QED  BY <1>1, <1>2, <1>6, <1>12, <1>13, FitsMoves

LEMMA AllocateIPInv == ASSUME IInv, NEW p \in Procs, AllocateIP(p) PROVE IInv'
<1>1. PICK x : x = run[p]  OBVIOUS
<1>2. x.pc = "ipam" /\ Running(p)  BY <1>1 DEF AllocateIP, At, Running
<1>3. Parts(x)  BY <1>1, <1>2, HasParts
<1>4. PICK r : r = [x EXCEPT !.pc = "l7", !.addr = 1, !.held = x.held \cup {"ip"}]  OBVIOUS
<1>5. r \in Launches
  <2>1. "l7" \in PCs /\ 1 \in 0 .. 1 /\ "ip" \in Res  BY DEF PCs, Res
  <2>2. QED  BY <1>3, <1>4, <2>1 DEF Parts, Launches
<1>6. /\ r.pc = "l7" /\ r.status = x.status /\ r.held = x.held \cup {"ip"} /\ r.defers = x.defers
      /\ r.guest = x.guest /\ r.addr = 1 /\ r.limited = x.limited /\ r.started = x.started
      /\ r.committed = x.committed /\ r.vols = x.vols
  BY <1>3, <1>4 DEF Parts, Launches
<1>7. Same(x, r) /\ Due(r) = Due(x)  BY <1>3, <1>4, <1>6 DEF Parts, Launches, Same, Due
<1>8. Caged(r)  BY <1>2, <1>3, <1>6, <1>7 DEF Caged, Parts, Same
<1>9. Papered(r)  BY <1>2, <1>3, <1>6, <1>7 DEF Papered, Lives, Parts, Same
<1>10. Owed(r)  BY <1>2, <1>3, <1>6, <1>7 DEF Owed, Parts, Same, Releases
<1>11. Statused(r)  BY <1>2, <1>3, <1>6 DEF Statused, Parts
<1>12. Fits(x, r)  BY <1>2, <1>5, <1>6, <1>7, <1>8, <1>9, <1>10, <1>11, PartsFit
<1>13. r = Hold([Go(x, "l7") EXCEPT !.addr = 1], {"ip"})  BY <1>3, <1>4 DEF Parts, Launches, Hold, Go
<1>14. Keep(p, r) /\ Private /\ faults' \in 0 .. MaxFaults  BY <1>1, <1>3, <1>13 DEF AllocateIP, Ok, Parts
<1>15. QED  BY <1>1, <1>2, <1>6, <1>12, <1>14, FitsMoves

LEMMA OpenLogsInv == ASSUME IInv, NEW p \in Procs, OpenLogs(p) PROVE IInv'
<1>1. PICK x : x = run[p]  OBVIOUS
<1>2. x.pc = "logs" /\ Running(p)  BY <1>1 DEF OpenLogs, At, Running
<1>3. Parts(x)  BY <1>1, <1>2, HasParts
<1>4. PICK S : S = <<"logs">> \o x.defers  OBVIOUS
<1>5. S \in Seq(Deferred) /\ Stack(S) = Due(x) \cup {"logs"}
  <2>1. "logs" \in Deferred  BY DEF Deferred
  <2>2. QED  BY <1>3, <1>4, <2>1, PushDue DEF Parts, Due
<1>6. PICK r : r = [x EXCEPT !.pc = "jail", !.held = x.held \cup {"logs"}, !.defers = S, !.status = "ready"]
  OBVIOUS
<1>7. r \in Launches
  <2>1. "jail" \in PCs /\ "ready" \in Status /\ "logs" \in Res  BY DEF PCs, Status, Res
  <2>2. QED  BY <1>3, <1>5, <1>6, <2>1 DEF Parts, Launches
<1>8. /\ r.pc = "jail" /\ r.status = "ready" /\ r.held = x.held \cup {"logs"} /\ r.defers = S
      /\ r.guest = x.guest /\ r.addr = x.addr /\ r.limited = x.limited /\ r.started = x.started
      /\ r.committed = x.committed /\ r.vols = x.vols
  BY <1>3, <1>6 DEF Parts, Launches
<1>9. Same(x, r)  BY <1>3, <1>6 DEF Parts, Launches, Same
<1>10. Due(r) = Due(x) \cup {"logs"}  BY <1>5, <1>8 DEF Due
<1>11. Caged(r)  BY <1>2, <1>3, <1>8, <1>9 DEF Caged, Parts, Same
<1>12. Papered(r)  BY <1>2, <1>3, <1>8, <1>9 DEF Papered, Lives, Parts, Same
<1>13. Owed(r)  BY <1>2, <1>3, <1>8, <1>9, <1>10 DEF Owed, Parts, Same, Releases
<1>14. Statused(r)  BY <1>8 DEF Statused
<1>15. Fits(x, r)  BY <1>2, <1>7, <1>8, <1>9, <1>10, <1>11, <1>12, <1>13, <1>14, PartsFit
<1>16. r = MovedTo(Defer(Hold(Go(x, "jail"), {"logs"}), "logs"), "ready")
  <2>1. x.status = "provisioning"  BY <1>2, <1>3 DEF Parts, Statused
  <2>2. canTransition("provisioning", "ready")  BY DEF canTransition, allowed
  <2>3. QED  BY <1>3, <1>4, <1>6, <2>1, <2>2 DEF Parts, Launches, MovedTo, Defer, Hold, Go
<1>17. Saves(p, r) /\ Private /\ faults' \in 0 .. MaxFaults
  <2>1. Save(p, r, 0) /\ Private /\ 0 \in Nat  BY <1>1, <1>16 DEF OpenLogs
  <2>2. QED  BY <2>1, SaveType
<1>18. QED  BY <1>1, <1>2, <1>15, <1>17, FitsMoves

LEMMA LauncherStartInv == ASSUME IInv, NEW p \in Procs, LauncherStart(p) PROVE IInv'
<1>1. PICK x : x = run[p]  OBVIOUS
<1>2. x.pc = "launch" /\ Running(p)  BY <1>1 DEF LauncherStart, At, Running
<1>3. Parts(x)  BY <1>1, <1>2, HasParts
<1>4. PICK S : S = <<"console">> \o x.defers  OBVIOUS
<1>5. S \in Seq(Deferred) /\ Stack(S) = Due(x) \cup {"console"}
  <2>1. "console" \in Deferred  BY DEF Deferred
  <2>2. QED  BY <1>3, <1>4, <2>1, PushDue DEF Parts, Due
<1>6. PICK g : g = IF "namespaces" \in x.degr THEN "free" ELSE "barrier"  OBVIOUS
<1>7. PICK r : r = [x EXCEPT !.pc = "cgroup", !.held = x.held \cup {"console"}, !.defers = S, !.guest = g]
  OBVIOUS
<1>8. r \in Launches
  <2>1. "cgroup" \in PCs /\ "console" \in Res  BY DEF PCs, Res
  <2>2. QED  BY <1>3, <1>5, <1>6, <1>7, <2>1 DEF Parts, Launches
<1>9. /\ r.pc = "cgroup" /\ r.status = x.status /\ r.held = x.held \cup {"console"} /\ r.defers = S
      /\ r.guest = g /\ r.addr = x.addr /\ r.limited = x.limited /\ r.started = x.started
      /\ r.committed = x.committed /\ r.vols = x.vols
  BY <1>3, <1>7 DEF Parts, Launches
<1>10. Same(x, r)  BY <1>3, <1>7 DEF Parts, Launches, Same
<1>11. Due(r) = Due(x) \cup {"console"}  BY <1>5, <1>9 DEF Due
<1>12. Caged(r)  BY <1>2, <1>3, <1>9, <1>10 DEF Caged, Parts, Same
<1>13. Papered(r)  BY <1>2, <1>3, <1>6, <1>9, <1>10 DEF Papered, Lives, Parts, Same
<1>14. Owed(r)  BY <1>2, <1>3, <1>9, <1>10, <1>11 DEF Owed, Parts, Same, Releases
<1>15. Statused(r)  BY <1>2, <1>3, <1>9 DEF Statused, Parts
<1>16. Fits(x, r)  BY <1>2, <1>8, <1>9, <1>10, <1>11, <1>12, <1>13, <1>14, <1>15, PartsFit
<1>17. r = Defer(Hold([Go(x, "cgroup") EXCEPT !.guest = g], {"console"}), "console")
  BY <1>3, <1>4, <1>7 DEF Parts, Launches, Defer, Hold, Go
<1>18. Keep(p, r) /\ Private /\ faults' \in 0 .. MaxFaults
  BY <1>1, <1>3, <1>6, <1>17 DEF LauncherStart, Ok, Parts
<1>19. QED  BY <1>1, <1>2, <1>9, <1>16, <1>18, FitsMoves

\* The guest is killed and reaped before the error return.
LEMMA KillsAndFails ==
    ASSUME IInv, NEW p \in Procs, run[p].pc \in {"cgroup", "start"}, NEW n \in Nat, Abandon(p, Killed(run[p]), n), Private
    PROVE  IInv'
<1>1. PICK x : x = run[p]  OBVIOUS
<1>2. Running(p)  BY DEF Running
<1>3. Parts(x)  BY <1>1, <1>2, HasParts
<1>4. PICK r : r = Killed(x)  OBVIOUS
<1>5. r = [x EXCEPT !.guest = IF x.guest = "none" THEN "none" ELSE "dead"]  BY <1>3, <1>4 DEF Killed, Parts, Launches
<1>6. r \in Launches  BY <1>3, <1>5 DEF Parts, Launches
<1>7. /\ r.held = x.held /\ r.defers = x.defers /\ r.task = x.task /\ r.status = x.status
      /\ r.slot = x.slot /\ r.addr = x.addr /\ r.loaded = x.loaded /\ r.mem = x.mem
      /\ r.created = x.created /\ r.committed = x.committed /\ r.left = x.left /\ r.guest \in {"none", "dead"}
  BY <1>3, <1>5 DEF Parts, Launches
<1>8. Due(r) = Due(x)  BY <1>7 DEF Due
<1>9. Keeps(x, r)  BY <1>7, <1>8 DEF Keeps
<1>10. ~Lives(r) /\ (r.addr # 0 => "ip" \in r.held)  BY <1>3, <1>7 DEF Lives, Parts, Caged
<1>11. r.status \in Early4  BY <1>1, <1>3, <1>7 DEF Parts, Statused, Early4
<1>12. \A y \in r.held : y \in r.left \/ \E f \in Due(r) : y \in Releases[f]
  BY <1>1, <1>3, <1>7, <1>8 DEF Parts, Owed
<1>13. QED  BY <1>1, <1>2, <1>4, <1>6, <1>9, <1>10, <1>11, <1>12, GivesUp

LEMMA CgroupSetupInv == ASSUME IInv, NEW p \in Procs, CgroupSetup(p) PROVE IInv'
<1>1. PICK x : x = run[p]  OBVIOUS
<1>2. x.pc = "cgroup" /\ Running(p)  BY <1>1 DEF CgroupSetup, At, Running
<1>3. Parts(x)  BY <1>1, <1>2, HasParts
<1>4. CASE Private /\ Abandon(p, Killed(run[p]), 1)  BY <1>1, <1>2, <1>4, KillsAndFails
<1>5. ASSUME NEW l \in BOOLEAN, NEW r, r = [x EXCEPT !.pc = "release", !.limited = l],
             SpecOf[x.task].limits => l, Keep(p, r), Private, faults' \in 0 .. MaxFaults
      PROVE  IInv'
  <2>1. r \in Launches
    <3>1. "release" \in PCs  BY DEF PCs
    <3>2. QED  BY <1>3, <1>5, <3>1 DEF Parts, Launches
  <2>2. /\ r.pc = "release" /\ r.status = x.status /\ r.held = x.held /\ r.defers = x.defers
        /\ r.guest = x.guest /\ r.addr = x.addr /\ r.limited = l /\ r.started = x.started
        /\ r.committed = x.committed /\ r.vols = x.vols
    BY <1>3, <1>5 DEF Parts, Launches
  <2>3. Same(x, r) /\ Due(r) = Due(x)  BY <1>3, <1>5, <2>2 DEF Parts, Launches, Same, Due
  <2>4. Caged(r)  BY <1>2, <1>3, <2>2, <2>3 DEF Caged, Parts, Same
  <2>5. Papered(r)  BY <1>2, <1>3, <1>5, <2>2, <2>3 DEF Papered, Lives, Parts, Same
  <2>6. Owed(r)  BY <1>2, <1>3, <2>2, <2>3 DEF Owed, Parts, Same
  <2>7. Statused(r)  BY <1>2, <1>3, <2>2 DEF Statused, Parts
  <2>8. Fits(x, r)  BY <1>2, <2>1, <2>2, <2>3, <2>4, <2>5, <2>6, <2>7, PartsFit
  <2>9. QED  BY <1>1, <1>2, <1>5, <2>2, <2>8, FitsMoves
<1>6. CASE Ok(p, [Go(run[p], "release") EXCEPT !.limited = TRUE])
  <2>1. [Go(run[p], "release") EXCEPT !.limited = TRUE] = [x EXCEPT !.pc = "release", !.limited = TRUE]
    BY <1>1, <1>3 DEF Go, Parts, Launches
  <2>2. QED  BY <1>3, <1>5, <1>6, <2>1 DEF Ok, Parts
<1>7. CASE ~TaskSpecOf(p).limits /\ Fault(1) /\ Private /\ Keep(p, Go(run[p], "release"))
  <2>1. x.limited \in BOOLEAN /\ Go(run[p], "release") = [x EXCEPT !.pc = "release", !.limited = x.limited]
    BY <1>1, <1>3 DEF Go, Parts, Launches
  <2>2. faults' \in 0 .. MaxFaults  BY <1>7, FaultType
  <2>3. QED  BY <1>1, <1>5, <1>7, <2>1, <2>2 DEF TaskSpecOf
<1>8. QED  BY <1>4, <1>6, <1>7 DEF CgroupSetup

LEMMA SignalReadyInv == ASSUME IInv, NEW p \in Procs, SignalReady(p) PROVE IInv'
<1>1. PICK x : x = run[p]  OBVIOUS
<1>2. x.pc = "release" /\ Running(p)  BY <1>1 DEF SignalReady, At, Running
<1>3. Parts(x)  BY <1>1, <1>2, HasParts
<1>4. PICK g : g = IF x.guest = "barrier" THEN "free" ELSE x.guest  OBVIOUS
<1>5. PICK r : r = [x EXCEPT !.pc = "start", !.guest = g, !.status = "running"]  OBVIOUS
<1>6. r \in Launches
  <2>1. "start" \in PCs /\ "running" \in Status  BY DEF PCs, Status
  <2>2. QED  BY <1>3, <1>4, <1>5, <2>1 DEF Parts, Launches
<1>7. /\ r.pc = "start" /\ r.status = "running" /\ r.held = x.held /\ r.defers = x.defers
      /\ r.guest = g /\ r.addr = x.addr /\ r.limited = x.limited /\ r.started = x.started
      /\ r.committed = x.committed /\ r.vols = x.vols
  BY <1>3, <1>5 DEF Parts, Launches
<1>8. Same(x, r) /\ Due(r) = Due(x)  BY <1>3, <1>5, <1>7 DEF Parts, Launches, Same, Due
<1>9. Caged(r)  BY <1>2, <1>3, <1>7, <1>8 DEF Caged, Parts, Same
<1>10. Papered(r)  BY <1>2, <1>3, <1>7, <1>8 DEF Papered, Lives, Parts, Same
<1>11. Owed(r)  BY <1>2, <1>3, <1>7, <1>8 DEF Owed, Parts, Same
<1>12. Statused(r)  BY <1>7 DEF Statused
<1>13. Fits(x, r)  BY <1>2, <1>6, <1>7, <1>8, <1>9, <1>10, <1>11, <1>12, PartsFit
<1>14. r = MovedTo([Go(x, "start") EXCEPT !.guest = IF @ = "barrier" THEN "free" ELSE @], "running")
  <2>1. x.status = "ready"  BY <1>2, <1>3 DEF Parts, Statused
  <2>2. canTransition("ready", "running")  BY DEF canTransition, allowed
  <2>3. PICK y : y = [Go(x, "start") EXCEPT !.guest = IF @ = "barrier" THEN "free" ELSE @]  OBVIOUS
  <2>4. y = [x EXCEPT !.pc = "start", !.guest = g]  BY <1>3, <1>4, <2>3 DEF Parts, Launches, Go
  <2>5. y.status = "ready" /\ r = [y EXCEPT !.status = "running"]  BY <1>3, <1>5, <2>1, <2>4 DEF Parts, Launches
  <2>6. QED  BY <2>2, <2>3, <2>5 DEF MovedTo
<1>15. Saves(p, r) /\ Private /\ faults' \in 0 .. MaxFaults
  <2>1. Save(p, r, 0) /\ Private /\ 0 \in Nat  BY <1>1, <1>14 DEF SignalReady
  <2>2. QED  BY <2>1, SaveType
<1>16. QED  BY <1>1, <1>2, <1>13, <1>15, FitsMoves

LEMMA TaskStartInv == ASSUME IInv, NEW p \in Procs, TaskStart(p) PROVE IInv'
<1>1. PICK x : x = run[p]  OBVIOUS
<1>2. x.pc = "start" /\ Running(p)  BY <1>1 DEF TaskStart, At, Running
<1>3. Parts(x)  BY <1>1, <1>2, HasParts
<1>4. CASE Private /\ Abandon(p, Killed(run[p]), 1)  BY <1>1, <1>2, <1>4, KillsAndFails
<1>5. CASE Ok(p, Hold([Go(run[p], "wait") EXCEPT !.started = TRUE, !.committed = TRUE], {"timer"}))
  <2>1. PICK r : r = [x EXCEPT !.pc = "wait", !.held = x.held \cup {"timer"}, !.started = TRUE, !.committed = TRUE]
    OBVIOUS
  <2>2. r \in Launches
    <3>1. "wait" \in PCs /\ "timer" \in Res  BY DEF PCs, Res
    <3>2. QED  BY <1>3, <2>1, <3>1 DEF Parts, Launches
  <2>3. /\ r.pc = "wait" /\ r.status = x.status /\ r.held = x.held \cup {"timer"} /\ r.defers = x.defers
        /\ r.guest = x.guest /\ r.addr = x.addr /\ r.limited = x.limited /\ r.started = TRUE
        /\ r.committed = TRUE /\ r.vols = x.vols
    BY <1>3, <2>1 DEF Parts, Launches
  <2>4. Same(x, r) /\ Due(r) = Due(x)  BY <1>3, <2>1, <2>3 DEF Parts, Launches, Same, Due
  <2>5. Caged(r)  BY <1>2, <1>3, <2>3, <2>4 DEF Caged, Parts, Same
  <2>6. Papered(r)  BY <1>2, <1>3, <2>3, <2>4 DEF Papered, Lives, Parts, Same
  <2>7. Owed(r)  BY <1>2, <1>3, <2>3, <2>4 DEF Owed, Parts, Same, Releases
  <2>8. Statused(r)  BY <1>2, <1>3, <2>3 DEF Statused, Parts
  <2>9. Fits(x, r)  BY <1>2, <2>2, <2>3, <2>4, <2>5, <2>6, <2>7, <2>8, PartsFit
  <2>10. r = Hold([Go(x, "wait") EXCEPT !.started = TRUE, !.committed = TRUE], {"timer"})
    BY <1>3, <2>1 DEF Parts, Launches, Hold, Go
  <2>11. Keep(p, r) /\ Private /\ faults' \in 0 .. MaxFaults  BY <1>1, <1>3, <1>5, <2>10 DEF Ok, Parts
  <2>12. QED  BY <1>1, <1>2, <2>3, <2>9, <2>11, FitsMoves
<1>6. QED  BY <1>4, <1>5 DEF TaskStart

LEMMA GuestExitInv == ASSUME IInv, NEW p \in Procs, GuestExit(p) PROVE IInv'
<1>1. PICK x : x = run[p]  OBVIOUS
<1>2. x.pc \in Guarded /\ Running(p)
  <2>1. Lives(x) /\ Papered(x)  BY <1>1 DEF GuestExit, Alive, Lives, IInv, Local
  <2>2. QED  BY <1>1, <2>1 DEF Papered, Running
<1>3. Parts(x)  BY <1>1, <1>2, HasParts
<1>4. PICK r : r = [x EXCEPT !.guest = IF x.guest = "none" THEN "none" ELSE "dead"]  OBVIOUS
<1>5. r \in Launches  BY <1>3, <1>4 DEF Parts, Launches
<1>6. /\ r.pc = x.pc /\ r.status = x.status /\ r.held = x.held /\ r.defers = x.defers
      /\ r.guest \in {"none", "dead"} /\ r.addr = x.addr /\ r.limited = x.limited /\ r.started = x.started
      /\ r.committed = x.committed /\ r.vols = x.vols
  BY <1>3, <1>4 DEF Parts, Launches
<1>7. Same(x, r) /\ Due(r) = Due(x)  BY <1>3, <1>4, <1>6 DEF Parts, Launches, Same, Due
<1>8. Caged(r)  BY <1>2, <1>3, <1>6, <1>7 DEF Caged, Parts, Same
<1>9. Papered(r)  BY <1>2, <1>3, <1>6, <1>7 DEF Papered, Lives, Parts, Same
<1>10. Owed(r)  BY <1>2, <1>3, <1>6, <1>7 DEF Owed, Parts, Same
<1>11. Statused(r)  BY <1>3, <1>6 DEF Statused, Parts
<1>12. Fits(x, r)  BY <1>2, <1>5, <1>6, <1>7, <1>8, <1>9, <1>10, <1>11, PartsFit
<1>13. r = Killed(x)  BY <1>3, <1>4 DEF Parts, Launches, Killed
<1>14. Keep(p, r) /\ Private /\ faults' \in 0 .. MaxFaults  BY <1>1, <1>3, <1>13 DEF GuestExit, Ok, Parts
<1>15. QED  BY <1>1, <1>2, <1>6, <1>12, <1>14, FitsMoves

LEMMA WaitInv == ASSUME IInv, NEW p \in Procs, Wait(p) PROVE IInv'
<1>1. PICK x : x = run[p]  OBVIOUS
<1>2. x.pc = "wait" /\ Running(p) /\ ~Lives(x)  BY <1>1 DEF Wait, At, Running, Alive, Lives
<1>3. Parts(x)  BY <1>1, <1>2, HasParts
<1>4. PICK st \in {"review", "failed"}, n \in 0 .. x.vols : Save(p, MovedTo(Detached(Go(x, "compact"), n), st), n)
  BY <1>1 DEF Wait
<1>5. PICK L : L = IF n = 0 THEN x.left ELSE x.left \cup {"volume"}  OBVIOUS
<1>6. PICK r : r = [x EXCEPT !.pc = "compact", !.vols = n, !.left = L, !.status = st]  OBVIOUS
<1>7. n \in Nat /\ x.left \subseteq L /\ (n # 0 => "volume" \in L)  BY <1>3, <1>5 DEF Parts
<1>8. r \in Launches
  <2>1. "compact" \in PCs /\ st \in Status /\ L \subseteq Left
    BY <1>3, <1>4, <1>5 DEF PCs, Status, Left, Parts, Launches
  <2>2. QED  BY <1>3, <1>6, <1>7, <2>1 DEF Parts, Launches
<1>9. /\ r.pc = "compact" /\ r.status = st /\ r.held = x.held /\ r.defers = x.defers
      /\ r.guest = x.guest /\ r.addr = x.addr /\ r.limited = x.limited /\ r.started = x.started
      /\ r.committed = x.committed /\ r.vols = n
  BY <1>3, <1>6 DEF Parts, Launches
<1>10. /\ r.task = x.task /\ r.slot = x.slot /\ r.degr = x.degr /\ r.warned = x.warned
       /\ r.loaded = x.loaded /\ r.mem = x.mem /\ r.created = x.created /\ r.left = L
  BY <1>3, <1>6 DEF Parts, Launches
<1>11. Due(r) = Due(x)  BY <1>9 DEF Due
<1>12. Caged(r)  BY <1>2, <1>3, <1>7, <1>9, <1>10 DEF Caged, Parts
<1>13. Papered(r)  BY <1>2, <1>3, <1>9, <1>10 DEF Papered, Lives, Parts
<1>14. Owed(r)  BY <1>2, <1>3, <1>7, <1>9, <1>10, <1>11 DEF Owed, Parts
<1>15. Statused(r)  BY <1>4, <1>9 DEF Statused
<1>16. Grows(x, r)  BY <1>2, <1>7, <1>9, <1>10, <1>11 DEF Grows, Keeps
<1>17. r = MovedTo(Detached(Go(x, "compact"), n), st)
  <2>1. x.status = "running"  BY <1>2, <1>3 DEF Parts, Statused
  <2>2. canTransition("running", st)  BY <1>4 DEF canTransition, allowed
  <2>3. PICK y : y = Detached(Go(x, "compact"), n)  OBVIOUS
  <2>4. y = [x EXCEPT !.pc = "compact", !.vols = n, !.left = L]  BY <1>3, <1>5, <2>3 DEF Detached, Go, Parts, Launches
  <2>5. y.status = "running" /\ r = [y EXCEPT !.status = st]  BY <1>3, <1>6, <2>1, <2>4 DEF Parts, Launches
  <2>6. QED  BY <2>2, <2>3, <2>5 DEF MovedTo
<1>18. Saves(p, r) /\ faults' \in 0 .. MaxFaults  BY <1>4, <1>7, <1>17, SaveType
<1>19. Private  BY DEF Wait
<1>20. QED  BY <1>1, <1>2, <1>8, <1>12, <1>13, <1>14, <1>15, <1>16, <1>18, <1>19, MovesOn DEF Local

\* The launch is over: it compacts, unwinds and returns.
LEMMA Ends ==
    ASSUME IInv, NEW p \in Procs, NEW x, x = run[p], x.pc \in {"compact", "compacting", "unwind"},
           NEW pc \in {"compacting", "unwind", "returned"}, NEW H \in SUBSET x.held,
           pc = "compacting" => x.pc = "compact" /\ "backend" \notin H, x.addr # 0 => "ip" \in H,
           pc = "returned" => Due(x) = {},
           Keep(p, [x EXCEPT !.pc = pc, !.held = H]), Private, faults' \in 0 .. MaxFaults
    PROVE  IInv'
<1>1. Running(p)  BY DEF Running
<1>2. Parts(x)  BY <1>1, HasParts
<1>3. PICK r : r = [x EXCEPT !.pc = pc, !.held = H]  OBVIOUS
<1>4. r \in Launches
  <2>1. pc \in PCs  BY DEF PCs
  <2>2. QED  BY <1>2, <1>3, <2>1 DEF Parts, Launches
<1>5. /\ r.pc = pc /\ r.status = x.status /\ r.held = H /\ r.defers = x.defers
      /\ r.guest = x.guest /\ r.addr = x.addr /\ r.limited = x.limited /\ r.started = x.started
      /\ r.committed = x.committed /\ r.vols = x.vols
  BY <1>2, <1>3 DEF Parts, Launches
<1>6. Same(x, r) /\ Due(r) = Due(x)  BY <1>2, <1>3, <1>5 DEF Parts, Launches, Same, Due
<1>7. Caged(r)  BY <1>2, <1>5, <1>6 DEF Caged, Parts, Same
<1>8. Papered(r)  BY <1>2, <1>5, <1>6 DEF Papered, Lives, Parts, Same
<1>9. Owed(r)  BY <1>2, <1>5, <1>6 DEF Owed, Parts, Same
<1>10. Statused(r)  BY <1>2, <1>5 DEF Statused, Parts
<1>11. Fits(x, r)  BY <1>4, <1>5, <1>6, <1>7, <1>8, <1>9, <1>10, PartsFit
<1>12. QED  BY <1>1, <1>3, <1>5, <1>11, FitsMoves

LEMMA CloseBackendInv == ASSUME IInv, NEW p \in Procs, CloseBackend(p) PROVE IInv'
<1>1. PICK x : x = run[p]  OBVIOUS
<1>2. x.pc = "compact" /\ Running(p)  BY <1>1 DEF CloseBackend, At, Running
<1>3. Parts(x) /\ (x.addr # 0 => "ip" \in x.held)
  <2>1. Parts(x)  BY <1>1, <1>2, HasParts
  <2>2. QED  BY <2>1 DEF Parts, Caged
<1>4. Drop(Go(x, "compacting"), {"backend"}) = [x EXCEPT !.pc = "compacting", !.held = x.held \ {"backend"}]
  BY <1>3 DEF Parts, Launches, Drop, Go
<1>5. Go(x, "unwind") = [x EXCEPT !.pc = "unwind", !.held = x.held]  BY <1>3 DEF Parts, Launches, Go
<1>6. CASE Ok(p, Drop(Go(x, "compacting"), {"backend"}))
  <2>1. PICK H : H = x.held \ {"backend"}  OBVIOUS
  <2>2. H \in SUBSET x.held /\ "backend" \notin H /\ (x.addr # 0 => "ip" \in H)  BY <1>3, <2>1
  <2>3. Keep(p, [x EXCEPT !.pc = "compacting", !.held = H]) /\ Private /\ faults' \in 0 .. MaxFaults
    BY <1>3, <1>4, <1>6, <2>1 DEF Ok, Parts
  <2>4. QED  BY <1>1, <1>2, <2>2, <2>3, Ends
<1>7. CASE Private /\ Keep(p, Go(x, "unwind")) /\ (Fault(1) \/ UNCHANGED faults)
  <2>1. faults' \in 0 .. MaxFaults
    <3>1. CASE Fault(1)  BY <3>1, FaultType
    <3>2. CASE UNCHANGED faults  BY <1>3, <3>2 DEF Parts
    <3>3. QED  BY <1>7, <3>1, <3>2
  <2>2. PICK H : H = x.held  OBVIOUS
  <2>3. H \in SUBSET x.held /\ Keep(p, [x EXCEPT !.pc = "unwind", !.held = H])  BY <1>5, <1>7, <2>2
  <2>4. QED  BY <1>1, <1>2, <1>3, <1>7, <2>1, <2>2, <2>3, Ends
<1>8. QED  BY <1>1, <1>6, <1>7 DEF CloseBackend, Ok

LEMMA CompactInv == ASSUME IInv, NEW p \in Procs, Compact(p) PROVE IInv'
<1>1. PICK x : x = run[p]  OBVIOUS
<1>2. x.pc = "compacting" /\ Running(p)  BY <1>1 DEF Compact, At, Running
<1>3. Parts(x)  BY <1>1, <1>2, HasParts
<1>4. x.addr # 0 => "ip" \in x.held  BY <1>3 DEF Parts, Caged
<1>5. Go(x, "unwind") = [x EXCEPT !.pc = "unwind", !.held = x.held]  BY <1>3 DEF Parts, Launches, Go
<1>6. PICK H : H = x.held  OBVIOUS
<1>7. H \in SUBSET x.held /\ Keep(p, [x EXCEPT !.pc = "unwind", !.held = H]) /\ Private /\ faults' \in 0 .. MaxFaults
  BY <1>1, <1>3, <1>5, <1>6 DEF Compact, Ok, Parts
<1>8. QED  BY <1>1, <1>2, <1>4, <1>6, <1>7, Ends

LEMMA ReturnInv == ASSUME IInv, NEW p \in Procs, Return(p) PROVE IInv'
<1>1. PICK x : x = run[p]  OBVIOUS
<1>2. x.pc = "unwind" /\ Running(p) /\ x.defers = <<>>  BY <1>1 DEF Return, At, Running
<1>3. Parts(x)  BY <1>1, <1>2, HasParts
<1>4. (x.addr # 0 => "ip" \in x.held) /\ Due(x) = {}
  <2>1. x.addr # 0 => "ip" \in x.held  BY <1>3 DEF Parts, Caged
  <2>2. Due(x) = {}  BY <1>2, <1>3, EmptyDue DEF Parts, Due
  <2>3. QED  BY <2>1, <2>2
<1>5. Go(x, "returned") = [x EXCEPT !.pc = "returned", !.held = x.held]  BY <1>3 DEF Parts, Launches, Go
<1>6. PICK H : H = x.held  OBVIOUS
<1>7. H \in SUBSET x.held /\ Keep(p, [x EXCEPT !.pc = "returned", !.held = H]) /\ Private /\ faults' \in 0 .. MaxFaults
  BY <1>1, <1>3, <1>5, <1>6 DEF Return, Ok, Parts
<1>8. QED  BY <1>1, <1>2, <1>4, <1>6, <1>7, Ends

\* Two launches of a task are never both under way, so a step on the range of
\* one task is seen by one launch only.
LEMMA RangedMoved ==
    ASSUME IInv, NEW p \in Procs, Running(p), NEW r, Became(p, r), r.task = run[p].task, NEW s \in 0 .. Slots,
           uids' = [uids EXCEPT ![r.task] = s], UNCHANGED wiped,
           s # 0 => \A t \in Tasks \ {r.task} : uids[t] # s,
           r.pc \in FromVolumes /\ r.slot # 0 => r.slot = s
    PROVE  Ranged'
<1>1. /\ \A t, u \in Tasks : t # u /\ uids[t] # 0 => uids[t] # uids[u]
      /\ \A q \in Procs : run[q].pc \in FromVolumes /\ run[q].slot # 0 =>
            q \in wiped \/ uids[run[q].task] = run[q].slot
  BY DEF IInv, Ranged
<1>2. /\ uids \in [Tasks -> 0 .. Slots] /\ run \in [Procs -> Launches] /\ r.task \in Tasks
      /\ last[r.task] = p /\ \A q \in Procs : Running(q) => last[run[q].task] = q
  <2>1. run[p].task \in Tasks /\ last[run[p].task] = p  BY UnderWay
  <2>2. QED  BY <2>1 DEF IInv, TypeOK, Newest
<1>3. uids'[r.task] = s /\ \A t \in Tasks \ {r.task} : uids'[t] = uids[t]  BY <1>2
<1>4. \A t, u \in Tasks : t # u /\ uids'[t] # 0 => uids'[t] # uids'[u]  BY <1>1, <1>3
<1>5. ASSUME NEW q \in Procs, run'[q].pc \in FromVolumes, run'[q].slot # 0
      PROVE  q \in wiped' \/ uids'[run'[q].task] = run'[q].slot
  <2>1. CASE q = p  BY <1>3, <1>5, <2>1 DEF Became
  <2>2. CASE q # p
    <3>1. run'[q] = run[q] /\ Running(q) /\ run[q].task \in Tasks  BY <1>2, <1>5, <2>2 DEF Became, Running, Launches
    <3>2. run[q].task # r.task  BY <1>2, <2>2, <3>1
    <3>3. QED  BY <1>1, <1>3, <1>5, <3>1, <3>2
  <2>3. QED  BY <2>1, <2>2
<1>6. QED  BY <1>4, <1>5 DEF Ranged

\* The range of the launch's task becomes s, and the launch answers for it.
LEMMA RangeOk ==
    ASSUME IInv, NEW p \in Procs, Running(p), NEW r, r.task = run[p].task, NEW s \in 0 .. Slots,
           uids' = [uids EXCEPT ![r.task] = s], UNCHANGED <<corrupt, wiped>>,
           s # 0 => (\A t \in Tasks \ {r.task} : uids[t] # s) /\ Ranges(r.task, r),
           r.pc \in FromVolumes /\ r.slot # 0 => r.slot = s
    PROVE  TableOk(p, r)
<1>1. Became(p, r) => Ranged'  BY RangedMoved
<1>2. uids \in [Tasks -> 0 .. Slots] /\ corrupt \in BOOLEAN /\ wiped \subseteq Procs  BY DEF IInv, TypeOK
<1>3. uids' \in [Tasks -> 0 .. Slots] /\ \A t \in Tasks \ {r.task} : uids'[t] = uids[t]  BY <1>2
<1>4. r.task \in Tasks /\ uids'[r.task] = s  BY <1>2, UnderWay
<1>5. \A t \in Tasks \ {r.task} : ~Ranges(t, run[p])  BY DEF Ranges
<1>6. QED  BY <1>1, <1>2, <1>3, <1>4, <1>5 DEF TableOk

LEMMA SlotFits ==
    ASSUME IInv, NEW t \in Tasks, CanAllocate(t)
    PROVE  Slot(t) \in 0 .. Slots /\ \A u \in Tasks \ {t} : uids[u] # Slot(t)
<1>1. uids \in [Tasks -> 0 .. Slots] /\ \A v, u \in Tasks : v # u /\ uids[v] # 0 => uids[v] # uids[u]
  BY DEF IInv, TypeOK, Ranged
<1>2. CASE uids[t] # 0
  <2>1. Slot(t) = uids[t]  BY <1>2 DEF Slot
  <2>2. QED  BY <1>1, <1>2, <2>1
<1>3. CASE uids[t] = 0
  <2>1. Free # {} /\ Slot(t) = lowestFree  BY <1>3 DEF CanAllocate, Slot
  <2>2. Slot(t) \in Free  BY <2>1, LowestIsFree
  <2>3. QED  BY <2>2, LaunchAssumption DEF Free
<1>4. QED  BY <1>2, <1>3

LEMMA GivesUpWith ==
    ASSUME IInv, NEW p \in Procs, Running(p), NEW r \in Launches, Keeps(run[p], r), ~Lives(r),
           r.status \in Early4, r.addr # 0 => "ip" \in r.held,
           \A y \in r.held : y \in r.left \/ \E f \in Due(r) : y \in Releases[f],
           NEW n \in Nat, Abandon(p, r, n), UNCHANGED <<overlays, portFile, rules>>,
           \A a : Keeps(run[p], a) /\ a.pc = "unwind" /\ r.left \subseteq a.left => TableOk(p, a)
    PROVE  IInv'
<1>1. PICK k \in 0 .. r.vols : Saves(p, Abandoned(r, k))  BY AbandonType
<1>2. PICK a : a = Abandoned(r, k)  OBVIOUS
<1>3. Local(a) /\ Statused(a) /\ a.pc = "unwind" /\ Keeps(r, a) /\ r.left \subseteq a.left  BY <1>2, Abandons
<1>4. Keeps(run[p], a)  BY <1>3 DEF Keeps
<1>5. TableOk(p, a)  BY <1>3, <1>4
<1>6. StillOwns(run[p], a) /\ a.task = run[p].task  BY <1>4, StillTraced DEF Running, StillAnswers, Keeps
<1>7. faults' \in 0 .. MaxFaults  BY AbandonType
<1>8. QED  BY <1>1, <1>2, <1>3, <1>5, <1>6, <1>7, MovesWith

\* A launch without a range, whatever has become of the table; L is {"uid"}
\* when it has a range it does not know of.
LEMMA NoRangeInv ==
    ASSUME IInv, NEW p \in Procs, run[p].pc = "uid", NEW L, L \subseteq {"uid"}, NEW n \in Nat,
           NoRange(p, [run[p] EXCEPT !.left = run[p].left \cup L], n), UNCHANGED <<overlays, portFile, rules>>,
           \A r : Keeps(run[p], r) /\ r.pc \in {"volumes", "unwind"} /\ ("uid" \in Due(r) \/ L \subseteq r.left)
                  => TableOk(p, r)
    PROVE  IInv'
<1>1. PICK x : x = run[p]  OBVIOUS
<1>2. x.pc = "uid" /\ Running(p) /\ run[p].pc \notin Over \cup Guarded  BY <1>1 DEF Running
<1>3. Parts(x)  BY <1>1, <1>2, HasParts
<1>4. "userns" \in Layers /\ L \subseteq Left /\ n + 1 \in Nat  BY DEF Layers, Left
<1>5. PICK y : y = [x EXCEPT !.left = x.left \cup L]  OBVIOUS
<1>6. \/ Save(p, [[Provisioning(p, 0) EXCEPT !.degr = @ \cup {"userns"}] EXCEPT !.warned = @ \cup {"userns"}], n)
      \/ Abandon(p, [y EXCEPT !.degr = @ \cup {"userns"}], n + 1)
      \/ Abandon(p, y, n)
  BY <1>1, <1>5 DEF NoRange
<1>7. ASSUME NEW D, D \subseteq Layers, NEW r, r = [x EXCEPT !.degr = x.degr \cup D, !.left = x.left \cup L],
             NEW m \in Nat, Abandon(p, r, m)
      PROVE  IInv'
  <2>1. /\ r \in Launches /\ Keeps(run[p], r) /\ ~Lives(r) /\ r.status \in Early4
        /\ r.addr # 0 => "ip" \in r.held
        /\ \A z \in r.held : z \in r.left \/ \E f \in Due(r) : z \in Releases[f]
        /\ r.left = run[p].left \cup L
    <3>1. r = Short(run[p], D, L)  BY <1>1, <1>7 DEF Short
    <3>2. CanGiveUp(run[p], r)  BY <1>2, <1>4, <1>7, <3>1, FailingWithout
    <3>3. r.left = run[p].left \cup L  BY <1>1, <1>3, <3>1 DEF Short, Parts, Launches
    <3>4. QED  BY <3>2, <3>3 DEF CanGiveUp
  <2>2. \A a : Keeps(run[p], a) /\ a.pc = "unwind" /\ r.left \subseteq a.left => TableOk(p, a)  BY <2>1
  <2>3. QED  BY <1>2, <1>7, <2>1, <2>2, GivesUpWith
<1>8. CASE Abandon(p, [y EXCEPT !.degr = @ \cup {"userns"}], n + 1)
  <2>1. PICK D : D = {"userns"}  OBVIOUS
  <2>2. PICK r : r = [x EXCEPT !.degr = x.degr \cup D, !.left = x.left \cup L]  OBVIOUS
  <2>3. [y EXCEPT !.degr = @ \cup {"userns"}] = r  BY <1>3, <1>5, <2>1, <2>2 DEF Parts, Launches
  <2>4. D \subseteq Layers /\ Abandon(p, r, n + 1)  BY <1>4, <1>8, <2>1, <2>3
  <2>5. QED  BY <1>4, <1>7, <2>2, <2>4
<1>9. CASE Abandon(p, y, n)
  <2>1. PICK D : D = {}  OBVIOUS
  <2>2. PICK r : r = [x EXCEPT !.degr = x.degr \cup D, !.left = x.left \cup L]  OBVIOUS
  <2>3. y = r
    <3>1. x.degr \cup D = x.degr  BY <2>1
    <3>2. QED  BY <1>3, <1>5, <2>2, <3>1 DEF Parts, Launches
  <2>4. D \subseteq Layers /\ Abandon(p, r, n)  BY <1>9, <2>1, <2>3
  <2>5. QED  BY <1>7, <2>2, <2>4
<1>10. CASE Save(p, [[Provisioning(p, 0) EXCEPT !.degr = @ \cup {"userns"}] EXCEPT !.warned = @ \cup {"userns"}], n)
  <2>1. PICK S : S = <<"uid">> \o x.defers  OBVIOUS
  <2>2. S \in Seq(Deferred) /\ Stack(S) = Due(x) \cup {"uid"}
    <3>1. "uid" \in Deferred  BY DEF Deferred
    <3>2. QED  BY <1>3, <2>1, <3>1, PushDue DEF Parts, Due
  <2>3. x.slot = 0 /\ x.status = "pending"  BY <1>2, <1>3 DEF Parts, Owed, Statused
  <2>4. PICK r : r = [x EXCEPT !.pc = "volumes", !.status = "provisioning", !.defers = S,
                               !.degr = x.degr \cup {"userns"}, !.warned = x.warned \cup {"userns"}]
    OBVIOUS
  <2>5. r \in Launches
    <3>1. "volumes" \in PCs /\ "provisioning" \in Status  BY DEF PCs, Status
    <3>2. QED  BY <1>3, <1>4, <2>2, <2>4, <3>1 DEF Parts, Launches
  <2>6. /\ r.pc = "volumes" /\ r.status = "provisioning" /\ r.held = x.held /\ r.defers = S
        /\ r.guest = x.guest /\ r.addr = x.addr /\ r.limited = x.limited /\ r.started = x.started
        /\ r.committed = x.committed /\ r.vols = x.vols
    BY <1>3, <2>4 DEF Parts, Launches
  <2>7. /\ r.task = x.task /\ r.slot = x.slot /\ r.degr = x.degr \cup {"userns"}
        /\ r.warned = x.warned \cup {"userns"} /\ r.loaded = x.loaded /\ r.mem = x.mem
        /\ r.created = x.created /\ r.left = x.left
    BY <1>3, <2>4 DEF Parts, Launches
  <2>8. Due(r) = Due(x) \cup {"uid"}  BY <2>2, <2>6 DEF Due
  <2>9. Caged(r)  BY <1>2, <1>3, <2>6, <2>7 DEF Caged, Parts
  <2>10. Papered(r)  BY <1>2, <1>3, <2>6, <2>7 DEF Papered, Lives, Parts
  <2>11. Owed(r)  BY <1>2, <1>3, <2>3, <2>6, <2>7, <2>8 DEF Owed, Parts
  <2>12. Statused(r)  BY <2>6 DEF Statused
  <2>13. Keeps(x, r)  BY <2>6, <2>7, <2>8 DEF Keeps
  <2>14. TableOk(p, r)  BY <1>1, <2>6, <2>8, <2>13
  <2>15. r = [[Provisioning(p, 0) EXCEPT !.degr = @ \cup {"userns"}] EXCEPT !.warned = @ \cup {"userns"}]
    <3>1. canTransition("pending", "provisioning")  BY DEF canTransition, allowed
    <3>2. PICK d : d = Defer([Go(x, "volumes") EXCEPT !.slot = 0], "uid")  OBVIOUS
    <3>3. d = [x EXCEPT !.pc = "volumes", !.defers = S]  BY <1>3, <2>1, <2>3, <3>2 DEF Defer, Go, Parts, Launches
    <3>4. d.status = "pending"  BY <1>3, <2>3, <3>3 DEF Parts, Launches
    <3>5. Provisioning(p, 0) = [d EXCEPT !.status = "provisioning"]
      BY <1>1, <3>1, <3>2, <3>4 DEF Provisioning, MovedTo
    <3>6. PICK z : z = [Provisioning(p, 0) EXCEPT !.degr = @ \cup {"userns"}]  OBVIOUS
    <3>7. z = [x EXCEPT !.pc = "volumes", !.status = "provisioning", !.defers = S, !.degr = x.degr \cup {"userns"}]
      BY <1>3, <3>3, <3>5, <3>6 DEF Parts, Launches
    <3>8. r = [z EXCEPT !.warned = z.warned \cup {"userns"}]  BY <1>3, <2>4, <3>7 DEF Parts, Launches
    <3>9. QED  BY <3>6, <3>8
  <2>16. Saves(p, r) /\ faults' \in 0 .. MaxFaults  BY <1>10, <2>15, SaveType
  <2>17. StillOwns(x, r)  BY <1>2, <2>13, StillTraced DEF StillAnswers
  <2>18. QED  BY <1>1, <1>2, <2>5, <2>6, <2>7, <2>9, <2>10, <2>11, <2>12, <2>14, <2>16, <2>17, MovesWith DEF Local
<1>11. QED  BY <1>6, <1>8, <1>9, <1>10

\* What NoRangeInv asks of the table, when it is as it was or torn.
LEMMA NoRangeTable ==
    ASSUME IInv, NEW p \in Procs, run[p].pc = "uid", NEW r, Keeps(run[p], r), UNCHANGED uidVars \/ Torn
    PROVE  TableOk(p, r)
<1>1. Running(p) /\ r.slot = 0
  <2>1. Running(p)  BY DEF Running
  <2>2. run[p].slot = 0  BY <2>1, HasParts DEF Parts, Owed
  <2>3. QED  BY <2>1, <2>2 DEF Keeps
<1>2. StillAnswers(run[p], r) /\ r.task = run[p].task /\ r.slot = run[p].slot  BY StillTraced DEF Keeps
<1>3. QED  BY <1>1, <1>2, TableKept, TornOk

LEMMA AllocateFailsInv == ASSUME IInv, NEW p \in Procs, AllocateFails(p) PROVE IInv'
<1>1. run[p].pc = "uid" /\ Running(p)  BY DEF AllocateFails, At, Running
<1>2. PICK n \in Nat : NoRange(p, run[p], n)
  <2>1. (IF CanAllocate(run[p].task) THEN 1 ELSE 0) \in Nat  OBVIOUS
  <2>2. QED  BY <2>1 DEF AllocateFails
<1>3. PICK L : L = {}  OBVIOUS
<1>4. run[p] = [run[p] EXCEPT !.left = run[p].left \cup L] /\ L \subseteq {"uid"}
  <2>1. run[p] \in Launches /\ run[p].left \cup L = run[p].left  BY <1>1, <1>3, UnderWay
  <2>2. QED  BY <1>3, <2>1 DEF Launches
<1>5. (UNCHANGED uidVars \/ Torn) /\ UNCHANGED <<overlays, portFile, rules>>  BY DEF AllocateFails
<1>6. \A r : Keeps(run[p], r) => TableOk(p, r)  BY <1>1, <1>5, NoRangeTable
<1>7. NoRange(p, [run[p] EXCEPT !.left = run[p].left \cup L], n)  BY <1>2, <1>4
<1>8. QED  BY <1>1, <1>4, <1>5, <1>6, <1>7, NoRangeInv

LEMMA AllocateUnsyncedInv == ASSUME IInv, NEW p \in Procs, AllocateUnsynced(p) PROVE IInv'
<1>1. run[p].pc = "uid" /\ Running(p) /\ CanAllocate(run[p].task)  BY DEF AllocateUnsynced, At, Running
<1>2. run[p].task \in Tasks /\ run[p].slot = 0
  <2>1. Parts(run[p])  BY <1>1, HasParts
  <2>2. QED  BY <1>1, <2>1 DEF Parts, Owed, Launches
<1>3. PICK L : L = {"uid"}  OBVIOUS
<1>4. /\ NoRange(p, [run[p] EXCEPT !.left = run[p].left \cup L], 1) /\ L \subseteq {"uid"} /\ 1 \in Nat
      /\ uids' = [uids EXCEPT ![run[p].task] = Slot(run[p].task)]
      /\ UNCHANGED <<corrupt, wiped>> /\ UNCHANGED <<overlays, portFile, rules>>
  BY <1>3 DEF AllocateUnsynced
<1>5. ASSUME NEW r, Keeps(run[p], r), "uid" \in Due(r) \/ L \subseteq r.left PROVE TableOk(p, r)
  <2>1. r.task = run[p].task /\ r.slot = 0  BY <1>2, <1>5 DEF Keeps
  <2>2. Ranges(r.task, r)  BY <1>3, <1>5 DEF Ranges
  <2>3. PICK s : s = Slot(run[p].task)  OBVIOUS
  <2>4. s \in 0 .. Slots /\ \A t \in Tasks \ {r.task} : uids[t] # s  BY <1>1, <1>2, <2>1, <2>3, SlotFits
  <2>5. QED  BY <1>1, <1>4, <2>1, <2>2, <2>3, <2>4, RangeOk
<1>6. QED  BY <1>1, <1>4, <1>5, NoRangeInv

-----------------------------------------------------------------------------
(* The actions that touch what launches share. *)

LEMMA ProvisionDiskInv == ASSUME IInv, NEW p \in Procs, ProvisionDisk(p) PROVE IInv'
<1>1. PICK x : x = run[p]  OBVIOUS
<1>2. x.pc = "disk" /\ Running(p)  BY <1>1 DEF ProvisionDisk, At, Running
<1>3. Parts(x) /\ x.task \in Tasks
  <2>1. Parts(x)  BY <1>1, <1>2, HasParts
  <2>2. QED  BY <2>1 DEF Parts, Launches
<1>4. PICK S : S = <<"overlay">> \o x.defers  OBVIOUS
<1>5. S \in Seq(Deferred) /\ Stack(S) = Due(x) \cup {"overlay"}
  <2>1. "overlay" \in Deferred  BY DEF Deferred
  <2>2. QED  BY <1>3, <1>4, <2>1, PushDue DEF Parts, Due
<1>6. PICK next, c : next = (IF SpecOf[x.task].disk = "ubd" THEN "egress" ELSE "vhost")
                     /\ c = (SpecOf[x.task].disk = "overlay")
  OBVIOUS
<1>7. c \in BOOLEAN /\ (c <=> SpecOf[x.task].disk = "overlay")  BY <1>6
<1>8. PICK r : r = [x EXCEPT !.pc = next, !.created = c, !.defers = S]  OBVIOUS
<1>9. r \in Launches
  <2>1. next \in PCs  BY <1>6 DEF PCs
  <2>2. QED  BY <1>3, <1>5, <1>7, <1>8, <2>1 DEF Parts, Launches
<1>10. /\ r.pc = next /\ r.status = x.status /\ r.held = x.held /\ r.defers = S /\ r.vols = x.vols
       /\ r.guest = x.guest /\ r.addr = x.addr /\ r.limited = x.limited /\ r.started = x.started
       /\ r.committed = x.committed
  BY <1>3, <1>8 DEF Parts, Launches
<1>11. /\ r.task = x.task /\ r.slot = x.slot /\ r.degr = x.degr /\ r.warned = x.warned
       /\ r.loaded = x.loaded /\ r.mem = x.mem /\ r.created = c /\ r.left = x.left
  BY <1>3, <1>8 DEF Parts, Launches
<1>12. Due(r) = Due(x) \cup {"overlay"}  BY <1>5, <1>10 DEF Due
<1>13. ~x.created  BY <1>2, <1>3 DEF Parts, Owed
<1>14. Caged(r)  BY <1>2, <1>3, <1>6, <1>10, <1>11 DEF Caged, Parts
<1>15. Papered(r)  BY <1>2, <1>3, <1>6, <1>10, <1>11 DEF Papered, Lives, Parts
<1>16. Owed(r)  BY <1>2, <1>3, <1>6, <1>10, <1>11, <1>12 DEF Owed, Parts
<1>17. Statused(r)  BY <1>2, <1>3, <1>6, <1>10 DEF Statused, Parts
<1>18. Keeps(x, r)  BY <1>10, <1>11, <1>12, <1>13 DEF Keeps
<1>19. Keep(p, r)
  <2>1. Defer([Go(x, next) EXCEPT !.created = c], "overlay") = r
    BY <1>3, <1>4, <1>8 DEF Parts, Launches, Defer, Go
  <2>2. QED  BY <1>1, <1>6, <2>1 DEF ProvisionDisk, TaskSpecOf
<1>20. /\ overlays' = IF c THEN overlays \cup {x.task} ELSE overlays
       /\ UNCHANGED <<uids, corrupt, wiped, portFile, rules, faults>>
  BY <1>1, <1>6 DEF ProvisionDisk, TaskSpecOf
<1>21. ASSUME Became(p, r) PROVE Ranged' /\ Traced'
  <2>1. r.pc \in FromVolumes /\ r.slot # 0 => run[p].pc \in FromVolumes  BY <1>1, <1>2
  <2>2. Ranged'  BY <1>1, <1>11, <1>20, <1>21, <2>1, RangedKept
  <2>3. StillAnswers(x, r)  BY <1>2, <1>18, StillTraced
  <2>4. c => Overlays(x.task, r)  BY <1>11, <1>12 DEF Overlays
  <2>5. Answers(p, r)  BY <1>1, <1>20, <2>3, <2>4 DEF Answers, StillAnswers, StillOwns
  <2>6. QED  BY <1>21, <2>2, <2>5, TracedKept
<1>22. Local(r) /\ r.pc # "idle" /\ r.status = run[p].status /\ r.task = run[p].task
  BY <1>1, <1>6, <1>9, <1>10, <1>11, <1>14, <1>15, <1>16 DEF Local
<1>23. /\ faults' \in 0 .. MaxFaults /\ uids' \in [Tasks -> 0 .. Slots] /\ corrupt' \in BOOLEAN /\ wiped' \subseteq Procs
       /\ overlays' \subseteq Tasks /\ portFile' \subseteq Mappings /\ rules' \subseteq Mappings
  BY <1>3, <1>20 DEF IInv, TypeOK
<1>24. QED  BY <1>2, <1>17, <1>19, <1>21, <1>22, <1>23, Assemble

LEMMA OverlayFailsInv == ASSUME IInv, NEW p \in Procs, OverlayFails(p) PROVE IInv'
<1>1. PICK x : x = run[p]  OBVIOUS
<1>2. x.pc = "disk" /\ Running(p) /\ run[p].pc \notin Over \cup Guarded
  BY <1>1 DEF OverlayFails, At, Running
<1>3. x \in Launches /\ x.task \in Tasks  BY <1>1, <1>2, Failing, UnderWay
<1>4. UNCHANGED <<uids, corrupt, wiped, portFile, rules>> /\ overlays' \subseteq overlays \cup {x.task}
  BY <1>1 DEF OverlayFails
<1>5. ASSUME NEW L, L \subseteq {"overlay"}, NEW y, y = [x EXCEPT !.degr = x.degr \cup {}, !.left = x.left \cup L],
             Abandon(p, y, 1), x.task \in overlays' => x.task \in overlays \/ L # {}
      PROVE  IInv'
  <2>1. /\ y \in Launches /\ Keeps(run[p], y) /\ ~Lives(y) /\ y.status \in Early4
        /\ y.addr # 0 => "ip" \in y.held
        /\ \A z \in y.held : z \in y.left \/ \E f \in Due(y) : z \in Releases[f]
        /\ y.left = x.left \cup L
    <3>1. {} \subseteq Layers /\ L \subseteq Left  BY <1>5 DEF Left
    <3>2. PICK D : D = {}  OBVIOUS
    <3>3. D \subseteq Layers /\ y = Short(run[p], D, L)  BY <1>1, <1>5, <3>2 DEF Short
    <3>4. CanGiveUp(run[p], y)  BY <1>2, <3>1, <3>3, FailingWithout
    <3>5. y.left = run[p].left \cup L  BY <1>1, <1>3, <3>3 DEF Short, Launches
    <3>6. QED  BY <1>1, <3>4, <3>5 DEF CanGiveUp
  <2>2. 1 \in Nat /\ faults' \in 0 .. MaxFaults  BY <1>5, <2>1, AbandonType
  <2>3. PICK k \in 0 .. y.vols : Saves(p, Abandoned(y, k))  BY <1>5, <2>1, <2>2, AbandonType
  <2>4. PICK r : r = Abandoned(y, k)  OBVIOUS
  <2>5. Local(r) /\ Statused(r) /\ r.pc = "unwind" /\ Keeps(y, r) /\ y.left \subseteq r.left  BY <2>1, <2>4, Abandons
  <2>6. Keeps(x, r) /\ r.task = x.task /\ r.slot = x.slot  BY <1>1, <2>1, <2>5 DEF Keeps
  <2>7. ASSUME Became(p, r) PROVE Ranged' /\ Traced'
    <3>1. r.pc \in FromVolumes /\ r.slot # 0 => run[p].pc \in FromVolumes  BY <1>1, <1>2
    <3>2. Ranged'  BY <1>1, <1>4, <2>6, <2>7, <3>1, RangedKept
    <3>3. StillAnswers(x, r)  BY <1>2, <2>6, StillTraced
    <3>4. L # {} => Overlays(x.task, r)  BY <1>5, <2>1, <2>5, <2>6 DEF Overlays
    <3>5. Answers(p, r)  BY <1>1, <1>4, <1>5, <3>3, <3>4 DEF Answers, StillAnswers, StillOwns
    <3>6. QED  BY <2>7, <3>2, <3>5, TracedKept
  <2>8. /\ uids' \in [Tasks -> 0 .. Slots] /\ corrupt' \in BOOLEAN /\ wiped' \subseteq Procs
        /\ overlays' \subseteq Tasks /\ portFile' \subseteq Mappings /\ rules' \subseteq Mappings
    BY <1>3, <1>4 DEF IInv, TypeOK
  <2>9. QED  BY <1>1, <1>2, <2>2, <2>3, <2>4, <2>5, <2>6, <2>7, <2>8, Assemble
<1>6. CASE overlays' = overlays \ {run[p].task} /\ Abandon(p, run[p], 1)
  <2>1. PICK L : L = {}  OBVIOUS
  <2>2. x = [x EXCEPT !.degr = x.degr \cup {}, !.left = x.left \cup L]
    <3>1. x.degr \cup {} = x.degr /\ x.left \cup L = x.left  BY <2>1
    <3>2. QED  BY <1>3, <3>1 DEF Launches
  <2>3. QED  BY <1>1, <1>5, <1>6, <2>1, <2>2
<1>7. CASE Abandon(p, [run[p] EXCEPT !.left = @ \cup {"overlay"}], 1)
  <2>1. PICK L : L = {"overlay"}  OBVIOUS
  <2>2. PICK y : y = [x EXCEPT !.degr = x.degr \cup {}, !.left = x.left \cup L]  OBVIOUS
  <2>3. [run[p] EXCEPT !.left = @ \cup {"overlay"}] = y
    <3>1. x.degr \cup {} = x.degr  OBVIOUS
    <3>2. QED  BY <1>1, <1>3, <2>1, <2>2, <3>1 DEF Launches
  <2>4. QED  BY <1>5, <1>7, <2>1, <2>2, <2>3
<1>8. QED  BY <1>6, <1>7 DEF OverlayFails

LEMMA AddPortMappingsInv == ASSUME IInv, NEW p \in Procs, AddPortMappings(p) PROVE IInv'
<1>1. PICK x : x = run[p]  OBVIOUS
<1>2. x.pc = "ports" /\ Running(p)  BY <1>1 DEF AddPortMappings, At, Running
<1>3. Parts(x) /\ x.task \in Tasks
  <2>1. Parts(x)  BY <1>1, <1>2, HasParts
  <2>2. QED  BY <2>1 DEF Parts, Launches
<1>4. PICK M : M = Registry(x) \cup Wanted(p)  OBVIOUS
<1>5. Wanted(p) \subseteq Mappings /\ \A m \in Wanted(p) : m[2] = x.task
  <2>1. Wanted(p) = SpecOf[x.task].ports \X {x.task}  BY <1>1 DEF Wanted, TaskSpecOf
  <2>2. QED  BY <1>3, <2>1 DEF Mappings
<1>6. M \subseteq Mappings /\ (x.loaded => x.mem \subseteq M) /\ Wanted(p) \subseteq M
  BY <1>3, <1>4, <1>5 DEF Registry, Parts, Launches, IInv, TypeOK
<1>7. PICK r : r = [x EXCEPT !.pc = "dns", !.loaded = TRUE, !.mem = M]  OBVIOUS
<1>8. r \in Launches
  <2>1. "dns" \in PCs  BY DEF PCs
  <2>2. QED  BY <1>3, <1>6, <1>7, <2>1 DEF Parts, Launches
<1>9. /\ r.pc = "dns" /\ r.status = x.status /\ r.held = x.held /\ r.defers = x.defers /\ r.vols = x.vols
      /\ r.guest = x.guest /\ r.addr = x.addr /\ r.limited = x.limited /\ r.started = x.started
      /\ r.committed = x.committed
  BY <1>3, <1>7 DEF Parts, Launches
<1>10. /\ r.task = x.task /\ r.slot = x.slot /\ r.degr = x.degr /\ r.warned = x.warned
       /\ r.loaded /\ r.mem = M /\ r.created = x.created /\ r.left = x.left
  BY <1>3, <1>7 DEF Parts, Launches
<1>11. Due(r) = Due(x)  BY <1>9 DEF Due
<1>12. "net" \in Due(x)  BY <1>2, <1>3 DEF Parts, Owed
<1>13. Caged(r)  BY <1>2, <1>3, <1>9, <1>10 DEF Caged, Parts
<1>14. Papered(r)  BY <1>2, <1>3, <1>9, <1>10 DEF Papered, Lives, Parts
<1>15. Owed(r)  BY <1>2, <1>3, <1>9, <1>10, <1>11 DEF Owed, Parts
<1>16. Statused(r)  BY <1>2, <1>3, <1>9 DEF Statused, Parts
<1>17. Keeps(x, r)  BY <1>6, <1>9, <1>10, <1>11 DEF Keeps
<1>18. Keep(p, r)
  <2>1. Go([x EXCEPT !.loaded = TRUE, !.mem = M], "dns") = r  BY <1>3, <1>7 DEF Parts, Launches, Go
  <2>2. QED  BY <1>1, <1>4, <2>1 DEF AddPortMappings
<1>19. /\ portFile' = M /\ rules' = rules \cup Wanted(p) /\ UNCHANGED <<uids, corrupt, wiped, overlays, faults>>
  BY <1>1, <1>4 DEF AddPortMappings
<1>20. ASSUME Became(p, r) PROVE Ranged' /\ Traced'
  <2>1. r.pc \in FromVolumes /\ r.slot # 0 => run[p].pc \in FromVolumes  BY <1>1, <1>2
  <2>2. Ranged'  BY <1>1, <1>10, <1>19, <1>20, <2>1, RangedKept
  <2>3. StillAnswers(x, r)  BY <1>2, <1>17, StillTraced
  <2>4. \A m \in Wanted(p) : Rules(m, r)  BY <1>5, <1>6, <1>10, <1>11, <1>12 DEF Rules
  <2>5. Answers(p, r)  BY <1>1, <1>19, <2>3, <2>4 DEF Answers, StillAnswers, StillOwns
  <2>6. QED  BY <1>20, <2>2, <2>5, TracedKept
<1>21. Local(r) /\ r.pc # "idle" /\ r.status = run[p].status /\ r.task = run[p].task
  BY <1>1, <1>8, <1>9, <1>10, <1>13, <1>14, <1>15 DEF Local
<1>22. /\ faults' \in 0 .. MaxFaults /\ uids' \in [Tasks -> 0 .. Slots] /\ corrupt' \in BOOLEAN /\ wiped' \subseteq Procs
       /\ overlays' \subseteq Tasks /\ portFile' \subseteq Mappings /\ rules' \subseteq Mappings
  BY <1>3, <1>5, <1>6, <1>19 DEF IInv, TypeOK
<1>23. QED  BY <1>2, <1>16, <1>18, <1>20, <1>21, <1>22, Assemble

LEMMA AllocateInv == ASSUME IInv, NEW p \in Procs, Allocate(p) PROVE IInv'
<1>1. PICK x : x = run[p]  OBVIOUS
<1>2. x.pc = "uid" /\ Running(p) /\ CanAllocate(x.task)  BY <1>1 DEF Allocate, At, Running
<1>3. Parts(x) /\ x.task \in Tasks
  <2>1. Parts(x)  BY <1>1, <1>2, HasParts
  <2>2. QED  BY <2>1 DEF Parts, Launches
<1>4. PICK s : s = Slot(x.task)  OBVIOUS
<1>5. s \in 0 .. Slots /\ \A t \in Tasks \ {x.task} : uids[t] # s  BY <1>2, <1>3, <1>4, SlotFits
<1>6. PICK S : S = <<"uid">> \o x.defers  OBVIOUS
<1>7. S \in Seq(Deferred) /\ Stack(S) = Due(x) \cup {"uid"}
  <2>1. "uid" \in Deferred  BY DEF Deferred
  <2>2. QED  BY <1>3, <1>6, <2>1, PushDue DEF Parts, Due
<1>8. PICK r : r = [x EXCEPT !.pc = "volumes", !.slot = s, !.defers = S, !.status = "provisioning"]  OBVIOUS
<1>9. r \in Launches
  <2>1. "volumes" \in PCs /\ "provisioning" \in Status  BY DEF PCs, Status
  <2>2. QED  BY <1>3, <1>5, <1>7, <1>8, <2>1 DEF Parts, Launches
<1>10. /\ r.pc = "volumes" /\ r.status = "provisioning" /\ r.held = x.held /\ r.defers = S /\ r.vols = x.vols
       /\ r.guest = x.guest /\ r.addr = x.addr /\ r.limited = x.limited /\ r.started = x.started
       /\ r.committed = x.committed
  BY <1>3, <1>8 DEF Parts, Launches
<1>11. /\ r.task = x.task /\ r.slot = s /\ r.degr = x.degr /\ r.warned = x.warned
       /\ r.loaded = x.loaded /\ r.mem = x.mem /\ r.created = x.created /\ r.left = x.left
  BY <1>3, <1>8 DEF Parts, Launches
<1>12. Due(r) = Due(x) \cup {"uid"}  BY <1>7, <1>10 DEF Due
<1>13. Caged(r)  BY <1>2, <1>3, <1>10, <1>11 DEF Caged, Parts
<1>14. Papered(r)  BY <1>2, <1>3, <1>10, <1>11 DEF Papered, Lives, Parts
<1>15. Owed(r)  BY <1>2, <1>3, <1>10, <1>11, <1>12 DEF Owed, Parts
<1>16. Statused(r)  BY <1>10 DEF Statused
<1>17. Provisioning(p, s) = r
  <2>1. x.status = "pending" /\ canTransition("pending", "provisioning")
    BY <1>2, <1>3 DEF Parts, Statused, canTransition, allowed
  <2>2. PICK y : y = Defer([Go(x, "volumes") EXCEPT !.slot = s], "uid")  OBVIOUS
  <2>3. y = [x EXCEPT !.pc = "volumes", !.slot = s, !.defers = S]  BY <1>3, <1>6, <2>2 DEF Defer, Go, Parts, Launches
  <2>4. y.status = "pending" /\ r = [y EXCEPT !.status = "provisioning"]  BY <1>3, <1>8, <2>1, <2>3 DEF Parts, Launches
  <2>5. QED  BY <1>1, <2>1, <2>2, <2>4 DEF Provisioning, MovedTo
<1>18. /\ Save(p, r, 0) /\ 0 \in Nat /\ uids' = [uids EXCEPT ![x.task] = s]
       /\ UNCHANGED <<corrupt, wiped>> /\ UNCHANGED <<overlays, portFile, rules>>
  BY <1>1, <1>4, <1>17 DEF Allocate
<1>19. Saves(p, r) /\ faults' \in 0 .. MaxFaults  BY <1>18, SaveType
<1>20. StillOwns(x, r) /\ Ranges(r.task, r)
  BY <1>2, <1>10, <1>11, <1>12 DEF StillOwns, Rules, Overlays, Ranges
<1>21. TableOk(p, r)  BY <1>1, <1>2, <1>5, <1>11, <1>18, <1>20, RangeOk
<1>22. Local(r) /\ r.pc # "idle" /\ r.task = run[p].task
  BY <1>1, <1>9, <1>10, <1>11, <1>13, <1>14, <1>15 DEF Local
<1>23. QED  BY <1>1, <1>2, <1>16, <1>18, <1>19, <1>20, <1>21, <1>22, MovesWith

\* A process that dies leaves what it held to the host.
LEMMA Dies ==
    ASSUME IInv, NEW p \in Procs, Running(p), NEW r, r = Dead(run[p])
    PROVE  /\ Local(r) /\ Statused(r) /\ r.pc = "crashed" /\ r.task = run[p].task /\ r.status = run[p].status
           /\ r.slot = run[p].slot /\ StillAnswers(run[p], r)
<1>1. PICK x : x = run[p]  OBVIOUS
<1>2. Parts(x)  BY <1>1, HasParts
<1>3. r = [x EXCEPT !.pc = "crashed", !.held = x.held \cap HostRes, !.vols = 0, !.defers = <<>>, !.addr = 0,
                    !.guest = IF x.guest = "none" THEN "none" ELSE "dead"]
  BY <1>1, <1>2 DEF Dead, Killed, Parts, Launches
<1>4. r \in Launches
  <2>1. "crashed" \in PCs /\ <<>> \in Seq(Deferred) /\ 0 \in Nat /\ 0 \in 0 .. 1  BY DEF PCs
  <2>2. PICK S, H, g : S = <<>> /\ H = x.held \cap HostRes /\ g = IF x.guest = "none" THEN "none" ELSE "dead"
    OBVIOUS
  <2>3. S \in Seq(Deferred) /\ H \subseteq Res /\ g \in {"none", "barrier", "free", "dead"}
    BY <1>2, <2>1, <2>2 DEF Parts, Launches
  <2>4. r = [x EXCEPT !.pc = "crashed", !.held = H, !.vols = 0, !.defers = S, !.addr = 0, !.guest = g]
    BY <1>3, <2>2
  <2>5. QED  BY <1>2, <2>1, <2>3, <2>4 DEF Parts, Launches
<1>5. r.pc = "crashed" /\ r.vols = 0 /\ r.defers = <<>> /\ r.addr = 0 /\ r.guest \in {"none", "dead"}
  BY <1>2, <1>3 DEF Parts, Launches
<1>6. r.task = x.task /\ r.status = x.status /\ r.slot = x.slot  BY <1>2, <1>3 DEF Parts, Launches
<1>7. Due(r) = {}  BY <1>4, <1>5, EmptyDue DEF Due, Launches
<1>8. Caged(r) /\ Papered(r) /\ Owed(r) /\ Statused(r)  BY <1>5, <1>7 DEF Caged, Papered, Lives, Owed, Statused
<1>9. StillAnswers(x, r)  BY <1>5, <1>6 DEF StillAnswers, StillOwns, Rules, Overlays, Ranges
<1>10. QED  BY <1>1, <1>4, <1>5, <1>6, <1>8, <1>9 DEF Local

LEMMA CrashInv == ASSUME IInv, NEW p \in Procs, Crash(p) PROVE IInv'
<1>1. PICK r : r = Dead(run[p])  OBVIOUS
<1>2. Running(p) /\ Keep(p, r) /\ Private /\ faults' \in 0 .. MaxFaults  BY <1>1, FaultType DEF Crash
<1>3. /\ Local(r) /\ Statused(r) /\ r.pc = "crashed" /\ r.task = run[p].task /\ r.status = run[p].status
      /\ r.slot = run[p].slot /\ StillAnswers(run[p], r)
  BY <1>1, <1>2, Dies
<1>4. UNCHANGED uidVars /\ UNCHANGED <<overlays, portFile, rules>>  BY <1>2 DEF Private, uidVars
<1>5. TableOk(p, r) /\ StillOwns(run[p], r)  BY <1>3, <1>4, TableKept DEF StillAnswers
<1>6. QED  BY <1>2, <1>3, <1>4, <1>5, MovesWith

LEMMA CrashInMutateInv == ASSUME IInv, NEW p \in Procs, CrashInMutate(p) PROVE IInv'
<1>1. PICK r : r = Dead(run[p])  OBVIOUS
<1>2. /\ Running(p) /\ Keep(p, r) /\ Torn /\ UNCHANGED <<overlays, portFile, rules>> /\ faults' \in 0 .. MaxFaults
  BY <1>1, FaultType DEF CrashInMutate, InMutate, Deferring, At, Running
<1>3. /\ Local(r) /\ Statused(r) /\ r.pc = "crashed" /\ r.task = run[p].task /\ r.status = run[p].status
      /\ r.slot = run[p].slot /\ StillAnswers(run[p], r)
  BY <1>1, <1>2, Dies
<1>4. TableOk(p, r) /\ StillOwns(run[p], r)  BY <1>2, <1>3, TornOk DEF StillAnswers
<1>5. QED  BY <1>2, <1>3, <1>4, MovesWith

LEMMA RunDeferredInv == ASSUME IInv, NEW p \in Procs, RunDeferred(p) PROVE IInv'
<1>1. PICK x : x = run[p]  OBVIOUS
<1>2. x.pc = "unwind" /\ Running(p) /\ x.defers # <<>>  BY <1>1 DEF RunDeferred, Deferring, At, Running
<1>3. Parts(x) /\ x.task \in Tasks
  <2>1. Parts(x)  BY <1>1, <1>2, HasParts
  <2>2. QED  BY <2>1 DEF Parts, Launches
<1>4. PICK d, S, O : d = Head(x.defers) /\ S = Tail(x.defers) /\ O = OwnMappings(p)  OBVIOUS
<1>5. d \in Deferred /\ S \in Seq(Deferred) /\ Due(x) = Stack(S) \cup {d} /\ d # "uid"
  BY <1>1, <1>2, <1>3, <1>4, PopDue DEF Parts, Due, RunDeferred
<1>6. PICK K \in SUBSET Stubborn(p, d) : RunLeaving(p, K)  BY <1>1, <1>4 DEF RunDeferred
<1>7. /\ K \subseteq Left
      /\ d = "overlay" /\ K # {} => "overlay" \in K
  BY <1>5, <1>6 DEF Stubborn, Left, Res, HostRes, Releases, Deferred
<1>8. O = {m \in Registry(x) : m[2] = x.task}  BY <1>1, <1>4 DEF OwnMappings
<1>9. Registry(x) \subseteq Mappings /\ (x.loaded => Registry(x) = x.mem)
  BY <1>3 DEF Registry, Parts, Launches, IInv, TypeOK
<1>10. PICK H, L, M, A, B : /\ H = x.held \ (Releases[d] \ K)
                            /\ L = (IF d = "net" THEN TRUE ELSE x.loaded)
                            /\ M = (IF d = "net" THEN Registry(x) \ O ELSE x.mem)
                            /\ A = (IF d = "net" THEN 0 ELSE x.addr)
                            /\ B = x.left \cup K
  OBVIOUS
<1>11. H \subseteq Res /\ L \in BOOLEAN /\ M \subseteq Mappings /\ A \in 0 .. 1 /\ B \subseteq Left
  <2>1. x.held \subseteq Res /\ x.loaded \in BOOLEAN /\ x.mem \subseteq Mappings /\ x.addr \in 0 .. 1 /\ x.left \subseteq Left
    BY <1>3 DEF Parts, Launches
  <2>2. H \subseteq Res /\ M \subseteq Mappings /\ B \subseteq Left  BY <1>7, <1>9, <1>10, <2>1
  <2>3. L \in BOOLEAN  BY <1>10, <2>1, Zenon
  <2>4. A \in 0 .. 1  BY <1>10, <2>1
  <2>5. QED  BY <2>2, <2>3, <2>4
<1>12. PICK r : r = [x EXCEPT !.defers = S, !.held = H, !.loaded = L, !.mem = M, !.addr = A, !.left = B]  OBVIOUS
<1>13. r \in Launches  BY <1>3, <1>5, <1>11, <1>12 DEF Parts, Launches
<1>14. /\ r.pc = "unwind" /\ r.status = x.status /\ r.held = H /\ r.defers = S /\ r.vols = x.vols
       /\ r.guest = x.guest /\ r.addr = A /\ r.limited = x.limited /\ r.started = x.started
       /\ r.committed = x.committed
  BY <1>2, <1>3, <1>12 DEF Parts, Launches
<1>15. /\ r.task = x.task /\ r.slot = x.slot /\ r.degr = x.degr /\ r.warned = x.warned
       /\ r.loaded = L /\ r.mem = M /\ r.created = x.created /\ r.left = B
  BY <1>3, <1>12 DEF Parts, Launches
<1>16. Due(x) = Due(r) \cup {d}  BY <1>5, <1>14 DEF Due
<1>17. Caged(r)
  <2>1. A # 0 => "ip" \in H
    <3>1. d # "net" => "ip" \notin Releases[d]  BY <1>5 DEF Deferred, Releases
    <3>2. x.addr # 0 => "ip" \in x.held  BY <1>3 DEF Parts, Caged
    <3>3. QED  BY <1>10, <3>1, <3>2
  <2>2. QED  BY <1>2, <1>3, <1>10, <1>14, <1>15, <2>1 DEF Caged, Parts
<1>18. Papered(r)  BY <1>2, <1>3, <1>14 DEF Papered, Lives, Parts
<1>19. Owed(r)
  <2>1. ASSUME NEW z \in r.held PROVE z \in r.left \/ \E f \in Due(r) : z \in Releases[f]
    <3>1. z \in x.held /\ (z \in K \/ z \notin Releases[d])  BY <1>10, <1>14, <2>1
    <3>2. CASE z \in K \/ z \in x.left  BY <1>10, <1>15, <3>2
    <3>3. CASE z \notin Releases[d] /\ z \notin x.left
      <4>1. PICK f \in Due(x) : z \in Releases[f]  BY <1>2, <1>3, <3>1, <3>3 DEF Parts, Owed
      <4>2. QED  BY <1>16, <3>3, <4>1
    <3>4. QED  BY <3>1, <3>2, <3>3
  <2>2. QED  BY <1>14, <2>1 DEF Owed
<1>20. Statused(r)  BY <1>2, <1>3, <1>14 DEF Statused, Parts
<1>21. PICK y : y = Drop([x EXCEPT !.defers = Tail(@), !.left = @ \cup K], Releases[d] \ K)  OBVIOUS
<1>22. /\ y = [x EXCEPT !.defers = S, !.held = H, !.left = B]
       /\ y.created = x.created /\ y.committed = x.committed /\ Registry(y) = Registry(x)
  <2>1. y = [x EXCEPT !.defers = S, !.held = H, !.left = B]
    BY <1>3, <1>4, <1>10, <1>21 DEF Drop, Parts, Launches
  <2>2. y.created = x.created /\ y.committed = x.committed /\ y.loaded = x.loaded /\ y.mem = x.mem
    BY <1>3, <2>1 DEF Parts, Launches
  <2>3. QED  BY <2>1, <2>2 DEF Registry
<1>23. /\ Fault(IF K = {} THEN 0 ELSE 1) /\ UNCHANGED uidVars
       /\ overlays' = (IF d = "overlay" /\ y.created /\ ~y.committed /\ K = {} THEN overlays \ {x.task} ELSE overlays)
       /\ rules' = (IF (d = "net" /\ O # {}) /\ "rules" \notin K THEN rules \ O ELSE rules)
       /\ portFile' = (IF (d = "net" /\ O # {}) /\ "record" \notin K THEN Registry(y) \ O ELSE portFile)
       /\ Keep(p, IF d = "net" THEN [y EXCEPT !.loaded = TRUE, !.mem = Registry(y) \ O, !.addr = 0] ELSE y)
  BY <1>1, <1>4, <1>6, <1>21 DEF RunLeaving
<1>24. Keep(p, r)
  <2>1. CASE d = "net"
    <3>1. L = TRUE /\ M = Registry(x) \ O /\ A = 0  BY <1>10, <2>1
    <3>2. r = [y EXCEPT !.loaded = TRUE, !.mem = Registry(x) \ O, !.addr = 0]
      BY <1>3, <1>12, <1>22, <3>1 DEF Parts, Launches
    <3>3. QED  BY <1>22, <1>23, <2>1, <3>2
  <2>2. CASE d # "net"
    <3>1. L = x.loaded /\ M = x.mem /\ A = x.addr  BY <1>10, <2>2
    <3>2. r = y  BY <1>3, <1>12, <1>22, <3>1 DEF Parts, Launches
    <3>3. QED  BY <1>23, <2>2, <3>2
  <2>3. QED  BY <2>1, <2>2
<1>25. faults' \in 0 .. MaxFaults
  <2>1. (IF K = {} THEN 0 ELSE 1) \in Nat  OBVIOUS
  <2>2. QED  BY <1>23, <2>1, FaultType
<1>26. /\ rules' \subseteq rules /\ overlays' \subseteq overlays /\ portFile' \subseteq Mappings
       /\ UNCHANGED <<uids, wiped>> /\ corrupt' = corrupt
  BY <1>9, <1>22, <1>23 DEF IInv, TypeOK, uidVars
<1>27. ASSUME Became(p, r) PROVE Ranged' /\ Traced'
  <2>1. r.pc \notin FromVolumes  BY <1>14
  <2>2. Ranged'  BY <1>1, <1>15, <1>26, <1>27, <2>1, RangedKept
  <2>3. ASSUME NEW m \in rules', Rules(m, x) PROVE Rules(m, r)
    <3>1. CASE "rules" \in x.left  BY <1>10, <1>15, <2>3, <3>1 DEF Rules
    <3>2. CASE "rules" \notin x.left
      <4>1. m[2] = x.task /\ "net" \in Due(x) /\ x.loaded /\ m \in x.mem /\ m \in rules
        BY <1>2, <1>26, <2>3, <3>2 DEF Rules
      <4>2. CASE d = "net"
        <5>1. m \in O  BY <1>8, <1>9, <4>1
        <5>2. "rules" \in K  BY <1>23, <2>3, <4>2, <5>1
        <5>3. QED  BY <1>10, <1>15, <4>1, <5>2 DEF Rules
      <4>3. CASE d # "net"  BY <1>10, <1>15, <1>16, <4>1, <4>3 DEF Rules
      <4>4. QED  BY <4>2, <4>3
    <3>3. QED  BY <3>1, <3>2
  <2>4. ASSUME NEW t \in overlays', Overlays(t, x) PROVE Overlays(t, r)
    <3>1. x.task = t /\ ("overlay" \in x.left \/ x.committed \/ (x.created /\ "overlay" \in Due(x)))
      BY <1>2, <2>4 DEF Overlays
    <3>2. "overlay" \in B \/ x.committed \/ (x.created /\ "overlay" \in Due(r))
      <4>1. CASE d = "overlay"  BY <1>7, <1>10, <1>22, <1>23, <2>4, <3>1, <4>1
      <4>2. CASE d # "overlay"  BY <1>10, <1>16, <3>1, <4>2
      <4>3. QED  BY <4>1, <4>2
    <3>3. QED  BY <1>14, <1>15, <3>1, <3>2 DEF Overlays
  <2>5. \A t : Ranges(t, x) => Ranges(t, r)  BY <1>2, <1>5, <1>10, <1>15, <1>16 DEF Ranges
  <2>6. Answers(p, r)  BY <1>1, <1>26, <2>3, <2>4, <2>5 DEF Answers
  <2>7. QED  BY <1>27, <2>2, <2>6, TracedKept
<1>28. Local(r) /\ r.pc # "idle" /\ r.status = run[p].status /\ r.task = run[p].task
  BY <1>1, <1>13, <1>14, <1>15, <1>17, <1>18, <1>19 DEF Local
<1>29. /\ uids' \in [Tasks -> 0 .. Slots] /\ corrupt' \in BOOLEAN /\ wiped' \subseteq Procs
       /\ overlays' \subseteq Tasks /\ portFile' \subseteq Mappings /\ rules' \subseteq Mappings
  BY <1>26 DEF IInv, TypeOK
<1>30. QED  BY <1>2, <1>20, <1>24, <1>25, <1>27, <1>28, <1>29, Assemble

LEMMA releaseUIDRangeInv == ASSUME IInv, NEW p \in Procs, releaseUIDRange(p) PROVE IInv'
<1>1. PICK x : x = run[p]  OBVIOUS
<1>2. x.pc = "unwind" /\ Running(p) /\ x.defers # <<>> /\ Head(x.defers) = "uid"
  BY <1>1 DEF releaseUIDRange, Deferring, At, Running
<1>3. Parts(x) /\ x.task \in Tasks
  <2>1. Parts(x)  BY <1>1, <1>2, HasParts
  <2>2. QED  BY <2>1 DEF Parts, Launches
<1>4. PICK S : S = Tail(x.defers)  OBVIOUS
<1>5. S \in Seq(Deferred) /\ Due(x) = Stack(S) \cup {"uid"}  BY <1>2, <1>3, <1>4, PopDue DEF Parts, Due
<1>6. ASSUME NEW K \in SUBSET {"uid"}, NEW r, r = [x EXCEPT !.defers = S, !.left = x.left \cup K]
      PROVE  /\ Local(r) /\ Statused(r) /\ StillOwns(x, r) /\ r.task = x.task /\ r.slot = x.slot
             /\ r.pc = "unwind" /\ r.status = x.status /\ r.left = x.left \cup K
  <2>1. r \in Launches
    <3>1. x.left \cup K \subseteq Left  BY <1>3 DEF Parts, Launches, Left
    <3>2. QED  BY <1>3, <1>5, <1>6, <3>1 DEF Parts, Launches
  <2>2. /\ r.pc = "unwind" /\ r.status = x.status /\ r.held = x.held /\ r.defers = S /\ r.vols = x.vols
        /\ r.guest = x.guest /\ r.addr = x.addr /\ r.limited = x.limited /\ r.started = x.started
        /\ r.committed = x.committed
    BY <1>2, <1>3, <1>6 DEF Parts, Launches
  <2>3. /\ r.task = x.task /\ r.slot = x.slot /\ r.loaded = x.loaded /\ r.mem = x.mem
        /\ r.created = x.created /\ r.left = x.left \cup K
    BY <1>3, <1>6 DEF Parts, Launches
  <2>4. Due(x) = Due(r) \cup {"uid"}  BY <1>5, <2>2 DEF Due
  <2>5. Caged(r)  BY <1>2, <1>3, <2>2, <2>3 DEF Caged, Parts
  <2>6. Papered(r)  BY <1>2, <1>3, <2>2 DEF Papered, Lives, Parts
  <2>7. Owed(r)
    <3>1. Releases["uid"] = {}  BY DEF Releases
    <3>2. \A z \in r.held : z \in r.left \/ \E f \in Due(r) : z \in Releases[f]
      BY <1>2, <1>3, <2>2, <2>3, <2>4, <3>1 DEF Parts, Owed
    <3>3. QED  BY <2>2, <3>2 DEF Owed
  <2>8. Statused(r)  BY <1>2, <1>3, <2>2 DEF Statused, Parts
  <2>9. StillOwns(x, r)  BY <1>2, <2>2, <2>3, <2>4 DEF StillOwns, Rules, Overlays
  <2>10. QED  BY <2>1, <2>2, <2>3, <2>5, <2>6, <2>7, <2>8, <2>9 DEF Local
<1>7. UNCHANGED <<overlays, portFile, rules>>  BY DEF releaseUIDRange
<1>8. CASE /\ ~corrupt /\ uids' = [uids EXCEPT ![x.task] = 0]
           /\ Keep(p, [x EXCEPT !.defers = Tail(@)]) /\ UNCHANGED <<corrupt, wiped, faults>>
  <2>1. PICK K : K = {}  OBVIOUS
  <2>2. PICK r : r = [x EXCEPT !.defers = S, !.left = x.left \cup K]  OBVIOUS
  <2>3. Keep(p, r)
    <3>1. x.left \cup K = x.left  BY <2>1
    <3>2. r = [x EXCEPT !.defers = Tail(@)]  BY <1>3, <1>4, <2>2, <3>1 DEF Parts, Launches
    <3>3. QED  BY <1>8, <3>2
  <2>4. /\ Local(r) /\ Statused(r) /\ StillOwns(x, r) /\ r.task = x.task /\ r.slot = x.slot
        /\ r.pc = "unwind" /\ r.status = x.status
    BY <1>6, <2>1, <2>2
  <2>5. TableOk(p, r)
    <3>1. PICK s : s = 0  OBVIOUS
    <3>2. s \in 0 .. Slots  BY <3>1, LaunchAssumption
    <3>3. r.pc \notin FromVolumes  BY <2>4
    <3>4. QED  BY <1>1, <1>2, <1>8, <2>4, <3>1, <3>2, <3>3, RangeOk
  <2>6. faults' \in 0 .. MaxFaults  BY <1>3, <1>8 DEF Parts
  <2>7. QED  BY <1>1, <1>2, <1>7, <2>3, <2>4, <2>5, <2>6, MovesWith
<1>9. CASE /\ Fault(IF corrupt THEN 0 ELSE 1) /\ (UNCHANGED uidVars \/ Torn)
           /\ Keep(p, [[x EXCEPT !.defers = Tail(@)] EXCEPT !.left = @ \cup {"uid"}])
  <2>1. PICK K : K = {"uid"}  OBVIOUS
  <2>2. PICK r : r = [x EXCEPT !.defers = S, !.left = x.left \cup K]  OBVIOUS
  <2>3. Keep(p, r)
    <3>1. r = [[x EXCEPT !.defers = Tail(@)] EXCEPT !.left = @ \cup {"uid"}]
      BY <1>3, <1>4, <2>1, <2>2 DEF Parts, Launches
    <3>2. QED  BY <1>9, <3>1
  <2>4. /\ Local(r) /\ Statused(r) /\ StillOwns(x, r) /\ r.task = x.task /\ r.slot = x.slot
        /\ r.pc = "unwind" /\ r.status = x.status /\ "uid" \in r.left
    <3>1. K \in SUBSET {"uid"}  BY <2>1
    <3>2. r.left = x.left \cup K  BY <1>6, <2>2, <3>1
    <3>3. QED  BY <1>6, <2>1, <2>2, <3>1, <3>2
  <2>5. StillAnswers(x, r)  BY <2>4 DEF StillAnswers, Ranges
  <2>6. r.pc \notin FromVolumes  BY <2>4
  <2>7. TableOk(p, r)  BY <1>1, <1>9, <2>4, <2>5, <2>6, TableKept, TornOk
  <2>8. faults' \in 0 .. MaxFaults
    <3>1. (IF corrupt THEN 0 ELSE 1) \in Nat  OBVIOUS
    <3>2. QED  BY <1>9, <3>1, FaultType
  <2>9. QED  BY <1>1, <1>2, <1>7, <2>3, <2>4, <2>7, <2>8, MovesWith
<1>10. PICK y : y = [x EXCEPT !.defers = Tail(@)]  OBVIOUS
<1>11. y.task = x.task  BY <1>3, <1>10 DEF Parts, Launches
<1>12. \/ /\ ~corrupt /\ uids' = [uids EXCEPT ![y.task] = 0]
          /\ Keep(p, y) /\ UNCHANGED <<corrupt, wiped, faults>>
       \/ /\ Fault(IF corrupt THEN 0 ELSE 1) /\ Keep(p, [y EXCEPT !.left = @ \cup {"uid"}])
          /\ UNCHANGED uidVars \/ (~corrupt /\ Torn)
  BY <1>1, <1>10 DEF releaseUIDRange
<1>13. QED  BY <1>8, <1>9, <1>10, <1>11, <1>12

-----------------------------------------------------------------------------
(* A launch begins. *)

LEMMA FreshFields ==
    ASSUME NEW t \in Tasks, NEW pc \in {"idle", "evidence", "returned"}, NEW r, r = Fresh(t, pc)
    PROVE  /\ Local(r) /\ r.pc = pc /\ r.task = t /\ r.status = "pending" /\ r.slot = 0
           /\ Due(r) = {} /\ r.left = {} /\ ~r.committed
<1>1. /\ r.pc = pc /\ r.task = t /\ r.status = "pending" /\ r.slot = 0 /\ r.vols = 0 /\ r.held = {}
      /\ r.defers = <<>> /\ r.degr = {} /\ r.warned = {} /\ r.guest = "none" /\ r.addr = 0
      /\ ~r.created /\ ~r.committed /\ r.left = {}
  BY DEF Fresh
<1>2. r \in Launches
  <2>1. pc \in PCs /\ "pending" \in Status  BY DEF PCs, Status
  <2>2. 0 \in 0 .. Slots /\ 0 \in Nat /\ 0 \in 0 .. 1 /\ <<>> \in Seq(Deferred)  BY LaunchAssumption
  <2>3. PICK S : S = <<>>  OBVIOUS
  <2>4. S \in Seq(Deferred)  BY <2>2, <2>3
  <2>5. r = [pc |-> pc, task |-> t, status |-> "pending", slot |-> 0, vols |-> 0,
             held |-> {}, defers |-> S, degr |-> {}, warned |-> {}, guest |-> "none",
             addr |-> 0, loaded |-> FALSE, mem |-> {}, created |-> FALSE,
             committed |-> FALSE, limited |-> FALSE, started |-> FALSE, left |-> {}]
    BY <2>3 DEF Fresh
  <2>6. QED  BY <2>1, <2>2, <2>4, <2>5 DEF Launches
<1>3. Due(r) = {}  BY <1>1 DEF Due, Stack
<1>4. Caged(r) /\ Papered(r) /\ Owed(r)  BY <1>1, <1>3 DEF Caged, Papered, Lives, Owed
<1>5. QED  BY <1>1, <1>2, <1>3, <1>4 DEF Local

\* An idle process is nobody's newest launch and answers for nothing.
LEMMA IdleApart ==
    ASSUME IInv, NEW p \in Procs, run[p].pc = "idle"
    PROVE  /\ \A t \in Tasks : last[t] # p
           /\ \A m : ~Rules(m, run[p])
           /\ \A t : ~Overlays(t, run[p]) /\ ~Ranges(t, run[p])
<1>1. \A t \in Tasks : last[t] # NoProc => run[last[t]].pc # "idle"  BY DEF IInv, Newest
<1>2. \A t \in Tasks : last[t] # p  BY <1>1, LaunchAssumption
<1>3. Due(run[p]) = {} /\ run[p].left = {} /\ ~run[p].committed  BY DEF IInv, Local, Owed
<1>4. QED  BY <1>2, <1>3 DEF Rules, Overlays, Ranges

\* A process starts or refuses a launch: nothing that is traced or ranged moves.
LEMMA Anew ==
    ASSUME IInv, NEW p \in Procs, run[p].pc = "idle", NEW r, Local(r), r.slot = 0,
           run' = [run EXCEPT ![p] = r], Private
    PROVE  /\ run' \in [Procs -> Launches] /\ run'[p] = r /\ \A q \in Procs \ {p} : run'[q] = run[q]
           /\ (\A q \in Procs : Local(run[q])') /\ Ranged' /\ Traced'
<1>1. run \in [Procs -> Launches] /\ r \in Launches  BY DEF IInv, TypeOK, Local
<1>2. run' \in [Procs -> Launches] /\ run'[p] = r /\ \A q \in Procs \ {p} : run'[q] = run[q]  BY <1>1
<1>3. (\A m : ~Rules(m, run[p])) /\ (\A u : ~Overlays(u, run[p]) /\ ~Ranges(u, run[p]))  BY IdleApart
<1>4. ASSUME NEW q \in Procs PROVE Local(run[q])'
  <2>1. Local(run'[q])  BY <1>2 DEF IInv
  <2>2. QED  BY <2>1 DEF Local, Caged, Papered, Owed, Due, Lives
<1>5. Ranged'
  <2>1. ASSUME NEW q \in Procs, run'[q].slot # 0 PROVE q # p /\ run'[q] = run[q]  BY <1>2, <2>1
  <2>2. \A q \in Procs : run'[q].pc \in FromVolumes /\ run'[q].slot # 0 =>
            q \in wiped' \/ uids'[run'[q].task] = run'[q].slot
    BY <2>1 DEF IInv, Ranged, Private
  <2>3. \A u, v \in Tasks : u # v /\ uids'[u] # 0 => uids'[u] # uids'[v]  BY DEF IInv, Ranged, Private
  <2>4. QED  BY <2>2, <2>3 DEF Ranged
<1>6. ASSUME NEW m \in rules' PROVE \E q \in Procs : Rules(m, run'[q])
  <2>1. PICK q \in Procs : Rules(m, run[q])  BY <1>6 DEF IInv, Traced, Private
  <2>2. q # p  BY <1>3, <2>1
  <2>3. QED  BY <1>2, <2>1, <2>2
<1>7. ASSUME NEW u \in overlays' PROVE \E q \in Procs : Overlays(u, run'[q])
  <2>1. PICK q \in Procs : Overlays(u, run[q])  BY <1>7 DEF IInv, Traced, Private
  <2>2. q # p  BY <1>3, <2>1
  <2>3. QED  BY <1>2, <2>1, <2>2
<1>8. ASSUME NEW u \in Tasks, uids'[u] # 0 PROVE \E q \in Procs : Ranges(u, run'[q])
  <2>1. PICK q \in Procs : Ranges(u, run[q])  BY <1>8 DEF IInv, Traced, Private
  <2>2. q # p  BY <1>3, <2>1
  <2>3. QED  BY <1>2, <2>1, <2>2
<1>9. Traced'  BY <1>6, <1>7, <1>8 DEF Traced, Rules, Overlays, Ranges, Due
<1>10. QED  BY <1>2, <1>4, <1>5, <1>9

LEMMA BeginInv == ASSUME IInv, NEW p \in Procs, NEW t \in Tasks, Begin(p, t) PROVE IInv'
<1>1. PICK r : r = Fresh(t, "evidence")  OBVIOUS
<1>2. Local(r) /\ r.pc = "evidence" /\ r.task = t /\ r.status = "pending" /\ r.slot = 0  BY <1>1, FreshFields
<1>3. /\ run[p].pc = "idle" /\ (\A q \in Procs : Running(q) => run[q].task # t)
      /\ run' = [run EXCEPT ![p] = r] /\ last' = [last EXCEPT ![t] = p] /\ Private
      /\ \/ status' = [status EXCEPT ![t] = "pending"] /\ unsaved' = unsaved \ {p}
         \/ status' = status /\ unsaved' = unsaved \cup {p}
  BY <1>1 DEF Begin, SaveState, At, IInv
<1>4. /\ run \in [Procs -> Launches] /\ status \in [Tasks -> Status] /\ last \in [Tasks -> Procs \cup {NoProc}]
      /\ unsaved \subseteq Procs /\ Newest /\ "pending" \in Status
  BY DEF IInv, TypeOK, Status
<1>5. /\ last'[t] = p /\ (p \in unsaved' \/ status'[t] = "pending")
      /\ \A u \in Tasks \ {t} : last'[u] = last[u] /\ status'[u] = status[u]
      /\ \A q \in Procs \ {p} : q \in unsaved => q \in unsaved'
      /\ status' \in [Tasks -> Status] /\ unsaved' \subseteq Procs
  BY <1>3, <1>4
<1>6. faults' \in 0 .. MaxFaults
  <2>1. 0 \in Nat /\ 0 + 1 \in Nat /\ (Fault(0) \/ Fault(0 + 1))  BY DEF Begin, SaveState
  <2>2. QED  BY <2>1, FaultType
<1>7. /\ run' \in [Procs -> Launches] /\ run'[p] = r /\ \A q \in Procs \ {p} : run'[q] = run[q]
      /\ (\A q \in Procs : Local(run[q])') /\ Ranged' /\ Traced'
  BY <1>2, <1>3, Anew
<1>8. \A u \in Tasks : last[u] # p  BY <1>3, IdleApart
<1>9. TypeOK'  BY <1>3, <1>4, <1>5, <1>6, <1>7 DEF IInv, TypeOK, Private
<1>10. Newest'
  <2>1. ASSUME NEW q \in Procs, Running(q)' PROVE last'[run'[q].task] = q
    <3>1. CASE q = p  BY <1>2, <1>5, <1>7, <3>1
    <3>2. CASE q # p
      <4>1. run'[q] = run[q] /\ Running(q) /\ run[q].task \in Tasks
        BY <1>4, <1>7, <2>1, <3>2 DEF Running, Launches
      <4>2. run[q].task # t /\ last[run[q].task] = q  BY <1>3, <1>4, <4>1 DEF Newest
      <4>3. QED  BY <1>5, <4>1, <4>2
    <3>3. QED  BY <3>1, <3>2
  <2>2. ASSUME NEW u \in Tasks, last'[u] # NoProc
        PROVE  /\ run'[last'[u]].task = u /\ run'[last'[u]].pc # "idle" /\ Statused(run'[last'[u]])
               /\ last'[u] \in unsaved' \/ status'[u] = run'[last'[u]].status
    <3>1. CASE u = t  BY <1>2, <1>5, <1>7, <3>1 DEF Statused
    <3>2. CASE u # t
      <4>1. last'[u] = last[u] /\ status'[u] = status[u] /\ last[u] \in Procs \ {p}
        BY <1>4, <1>5, <1>8, <2>2, <3>2
      <4>2. QED  BY <1>4, <1>5, <1>7, <2>2, <4>1 DEF Newest
    <3>3. QED  BY <3>1, <3>2
  <2>3. QED  BY <2>1, <2>2 DEF Newest, Statused
<1>11. QED  BY <1>7, <1>9, <1>10 DEF IInv

LEMMA RefusedInv == ASSUME IInv, NEW p \in Procs, NEW t \in Tasks, Refused(p, t) PROVE IInv'
<1>1. PICK r : r = Fresh(t, "returned")  OBVIOUS
<1>2. Local(r) /\ r.pc = "returned" /\ r.task = t /\ r.slot = 0  BY <1>1, FreshFields
<1>3. /\ run[p].pc = "idle" /\ run' = [run EXCEPT ![p] = r] /\ UNCHANGED <<status, unsaved, last>> /\ Private
      /\ faults' \in 0 .. MaxFaults
  BY <1>1, FaultType DEF Refused, At, Keep
<1>4. /\ run' \in [Procs -> Launches] /\ run'[p] = r /\ \A q \in Procs \ {p} : run'[q] = run[q]
      /\ (\A q \in Procs : Local(run[q])') /\ Ranged' /\ Traced'
  BY <1>2, <1>3, Anew
<1>5. \A u \in Tasks : last[u] # p  BY <1>3, IdleApart
<1>6. last \in [Tasks -> Procs \cup {NoProc}] /\ Newest  BY DEF IInv, TypeOK
<1>7. TypeOK'  BY <1>3, <1>4 DEF IInv, TypeOK, Private
<1>8. Newest'
  <2>1. ASSUME NEW q \in Procs, Running(q)' PROVE last'[run'[q].task] = q
    <3>1. q # p /\ run'[q] = run[q]  BY <1>2, <1>4, <2>1 DEF Running
    <3>2. QED  BY <1>3, <1>6, <2>1, <3>1 DEF Running, Newest
  <2>2. ASSUME NEW u \in Tasks, last'[u] # NoProc
        PROVE  /\ run'[last'[u]].task = u /\ run'[last'[u]].pc # "idle" /\ Statused(run'[last'[u]])
               /\ last'[u] \in unsaved' \/ status'[u] = run'[last'[u]].status
    <3>1. last'[u] = last[u] /\ status'[u] = status[u] /\ last[u] \in Procs \ {p}  BY <1>3, <1>5, <1>6, <2>2
    <3>2. QED  BY <1>3, <1>4, <1>6, <2>2, <3>1 DEF Newest
  <2>3. QED  BY <2>1, <2>2 DEF Newest, Statused
<1>9. QED  BY <1>4, <1>7, <1>8 DEF IInv

-----------------------------------------------------------------------------
(* The invariant. *)

LEMMA LaunchInit == ASSUME Init, ~Overlap PROVE IInv
<1>1. PICK t \in Tasks : run \in [Procs -> {Fresh(t, "idle")}]
  <2>1. (CHOOSE t \in Tasks : TRUE) \in Tasks  BY LaunchAssumption
  <2>2. PICK t \in Tasks : t = CHOOSE u \in Tasks : TRUE  BY <2>1
  <2>3. QED  BY <2>2 DEF Init
<1>2. \A p \in Procs : run[p] = Fresh(t, "idle")  BY <1>1
<1>3. \A p \in Procs : Local(run[p]) /\ run[p].pc = "idle" /\ run[p].slot = 0  BY <1>2, FreshFields
<1>4. run \in [Procs -> Launches]
  <2>1. \A p \in Procs : run[p] \in Launches  BY <1>3 DEF Local
  <2>2. QED  BY <1>1, <2>1
<1>5. TypeOK
  <2>1. 0 \in 0 .. Slots /\ 0 \in 0 .. MaxFaults /\ "pending" \in Status  BY LaunchAssumption DEF Status
  <2>2. QED  BY <1>4, <2>1 DEF Init, TypeOK
<1>6. Newest  BY <1>3 DEF Init, Newest, Running
<1>7. Ranged  BY <1>3 DEF Init, Ranged
<1>8. Traced  BY LaunchAssumption DEF Init, Traced
<1>9. QED  BY <1>3, <1>5, <1>6, <1>7, <1>8 DEF IInv

LEMMA LaunchNext == ASSUME IInv, Next PROVE IInv'
<1>1. PICK p \in Procs :
        \/ \E t \in Tasks : Begin(p, t) \/ Refused(p, t)
        \/ Provision(p) \/ Connect(p) \/ Execute(p)
        \/ StageFails(p) \/ RunDeferred(p) \/ releaseUIDRange(p) \/ Return(p) \/ Crash(p) \/ CrashInMutate(p)
  BY DEF Next
<1>2. CASE \E t \in Tasks : Begin(p, t) \/ Refused(p, t)  BY <1>2, BeginInv, RefusedInv
<1>3. CASE Provision(p)
  BY <1>3, RecordSpecInv, CheckSecurityInv, AllocateInv, AllocateFailsInv, AllocateUnsyncedInv, AttachVolumeInv, VolumesAttachedInv,
     ProvisionDiskInv, OverlayFailsInv, StartBlkInv, SocketGrantFailsInv
  DEF Provision
<1>4. CASE Connect(p)
  BY <1>4, ListenTransparentInv, ListenForTaskInv, MintInv, OpenTapInv, AttachPlaneInv, AllocateIPInv,
     EnableTransparentL7Inv, AttachEgressFilterInv, AddPortMappingsInv, PortTakenInv, NoPortMappingsInv, StartLearnerInv
  DEF Connect
<1>5. CASE Execute(p)
  BY <1>5, BuildArgsInv, OpenLogsInv, SetupJailInv, LauncherStartInv, CgroupSetupInv, SignalReadyInv, TaskStartInv,
     GuestExitInv, WaitInv, CloseBackendInv, CompactInv
  DEF Execute
<1>6. QED
  BY <1>1, <1>2, <1>3, <1>4, <1>5, StageFailsInv, RunDeferredInv, releaseUIDRangeInv, ReturnInv, CrashInv, CrashInMutateInv

LEMMA LaunchStutters == ASSUME IInv, UNCHANGED vars PROVE IInv'
<1>1. /\ run' = run /\ uids' = uids /\ corrupt' = corrupt /\ wiped' = wiped /\ status' = status /\ unsaved' = unsaved
      /\ overlays' = overlays /\ portFile' = portFile /\ rules' = rules /\ last' = last /\ faults' = faults
  BY DEF vars
<1>2. TypeOK'  BY <1>1 DEF IInv, TypeOK
<1>3. \A p \in Procs : Local(run[p])'  BY <1>1 DEF IInv, Local, Caged, Papered, Owed, Due, Lives
<1>4. Newest'  BY <1>1 DEF IInv, Newest, Running, Statused
<1>5. Ranged'  BY <1>1 DEF IInv, Ranged
<1>6. Traced'  BY <1>1 DEF IInv, Traced, Rules, Overlays, Ranges, Due
<1>7. QED  BY <1>2, <1>3, <1>4, <1>5, <1>6 DEF IInv

LEMMA LaunchAlways == Spec /\ ~Overlap => []IInv
<1>1. Init /\ ~Overlap => IInv  BY LaunchInit
<1>2. IInv /\ [Next]_vars => IInv'  BY LaunchNext, LaunchStutters
<1>3. QED  BY <1>1, <1>2, PTL DEF Spec

-----------------------------------------------------------------------------
(* What follows from it. *)

\* As long as a guest lives it has its papers, its cage and a uid range that
\* no other guest has, unless a rewrite of the table failed or died halfway
\* while one of them ran (StartTask, and uidalloc underneath it).
THEOREM GuestsKept == Spec /\ ~Overlap => []GuestKept
<1>1. ASSUME IInv PROVE GuestKept
  <2>1. ASSUME NEW p \in Procs, Alive(p)
        PROVE  /\ Lives(run[p]) /\ run[p].pc \in Guarded /\ Caged(run[p]) /\ Papered(run[p])
               /\ run[p].task \in Tasks /\ last[run[p].task] = p
               /\ run[p].slot # 0 => p \in wiped \/ uids[run[p].task] = run[p].slot
    <3>1. Lives(run[p]) /\ Caged(run[p]) /\ Papered(run[p]) /\ run[p] \in Launches
      BY <1>1, <2>1 DEF IInv, Local, Alive, Lives
    <3>2. run[p].pc \in Guarded /\ run[p].task \in Tasks  BY <3>1 DEF Papered, Launches
    <3>3. run[p].slot # 0 => p \in wiped \/ uids[run[p].task] = run[p].slot  BY <1>1, <3>2 DEF IInv, Ranged
    <3>4. last[run[p].task] = p  BY <1>1, <3>2 DEF IInv, Newest, Running
    <3>5. QED  BY <3>1, <3>2, <3>3, <3>4
  <2>2. Papers
    <3>1. ASSUME NEW p \in Procs, run[p].guest = "free"
          PROVE  /\ run[p].degr \subseteq run[p].warned
                 /\ TaskSpecOf(p).limits /\ "namespaces" \notin run[p].degr => run[p].limited
                 /\ run[p].pc \notin {"cgroup", "release", "start"} => run[p].started
      BY <2>1, <3>1 DEF Alive, Papered, TaskSpecOf
    <3>2. QED  BY <3>1 DEF Papers
  <2>3. CagedWhileAlive  BY <2>1 DEF CagedWhileAlive, Caged, TaskSpecOf, Networked
  <2>4. DisjointRanges
    <3>1. SUFFICES ASSUME NEW p \in Procs, NEW q \in Procs, p # q, Alive(p), Alive(q), p \notin wiped, q \notin wiped,
                          run[p].slot # 0, run[p].slot = run[q].slot
                   PROVE  FALSE
      BY DEF DisjointRanges
    <3>2. run[p].task # run[q].task /\ run[p].task \in Tasks /\ run[q].task \in Tasks  BY <2>1, <3>1
    <3>3. uids[run[p].task] = run[p].slot /\ uids[run[q].task] = run[p].slot  BY <2>1, <3>1
    <3>4. QED  BY <1>1, <3>1, <3>2, <3>3 DEF IInv, Ranged
  <2>5. QED  BY <1>1, <2>2, <2>3, <2>4 DEF IInv, GuestKept
<1>2. QED  BY <1>1, LaunchAlways, PTL

\* A launch that has returned leaves the outcome on disk, unless the save failed,
\* and no guest, resource, rule or range but one whose removal failed or was
\* never deferred, and otherwise an overlay only by a committed launch (the error
\* returns and the deferred functions of StartTask).
THEOREM AllReturned == Spec /\ ~Overlap => []Returned
<1>1. ASSUME IInv PROVE Returned
  <2>1. ASSUME NEW t \in Tasks, NEW p \in Procs, last[t] = p, run[p].pc = "returned"
        PROVE  /\ run[p].task = t /\ Due(run[p]) = {} /\ Local(run[p]) /\ Statused(run[p])
               /\ p \in unsaved \/ status[t] = run[p].status
               /\ \A q \in Procs : Running(q) => run[q].task # t
    <3>1. p # NoProc /\ Local(run[p])  BY <1>1, LaunchAssumption DEF IInv
    <3>2. run[p].task = t /\ Statused(run[p]) /\ (p \in unsaved \/ status[t] = run[p].status)
      BY <1>1, <2>1, <3>1 DEF IInv, Newest
    <3>3. Due(run[p]) = {}  BY <2>1, <3>1 DEF Local, Owed
    <3>4. \A q \in Procs : Running(q) => run[q].task # t  BY <1>1, <2>1 DEF IInv, Newest, Running
    <3>5. QED  BY <3>1, <3>2, <3>3, <3>4
  <2>2. ASSUME NEW q \in Procs, Due(run[q]) # {} PROVE Running(q)
    BY <1>1, <2>2 DEF IInv, Local, Owed, Running
  <2>3. ASSUME NEW t \in Tasks, NEW p \in Procs, last[t] = p, At(p, "returned")
        PROVE  /\ run[p].held \subseteq run[p].left /\ ~Alive(p)
               /\ run[p].vols # 0 => "volume" \in run[p].left
               /\ uids[t] # 0 => LeftBehind(t, "uid")
               /\ (\E m \in rules : m[2] = t) => LeftBehind(t, "rules")
               /\ t \in overlays =>
                     LeftBehind(t, "overlay") \/ \E q \in Procs : run[q].task = t /\ run[q].committed
    <3>1. /\ run[p].pc = "returned" /\ run[p].task = t /\ Due(run[p]) = {} /\ Local(run[p])
          /\ \A q \in Procs : Running(q) => run[q].task # t
      BY <2>1, <2>3 DEF At
    <3>2. run[p].held \subseteq run[p].left /\ ~Alive(p) /\ (run[p].vols # 0 => "volume" \in run[p].left)
      BY <3>1 DEF Local, Owed, Caged, Papered, Lives, Alive
    <3>3. ASSUME uids[t] # 0 PROVE LeftBehind(t, "uid")
      <4>1. PICK q \in Procs : Ranges(t, run[q])  BY <1>1, <3>3 DEF IInv, Traced
      <4>2. run[q].task = t /\ (run[q].pc = "crashed" \/ "uid" \in run[q].left)  BY <2>2, <3>1, <4>1 DEF Ranges
      <4>3. QED  BY <4>2 DEF LeftBehind, At
    <3>4. ASSUME NEW m \in rules, m[2] = t PROVE LeftBehind(t, "rules")
      <4>1. PICK q \in Procs : Rules(m, run[q])  BY <1>1, <3>4 DEF IInv, Traced
      <4>2. run[q].task = t /\ (run[q].pc = "crashed" \/ "rules" \in run[q].left)
        BY <2>2, <3>1, <3>4, <4>1 DEF Rules
      <4>3. QED  BY <4>2 DEF LeftBehind, At
    <3>5. ASSUME t \in overlays
          PROVE  LeftBehind(t, "overlay") \/ \E q \in Procs : run[q].task = t /\ run[q].committed
      <4>1. PICK q \in Procs : Overlays(t, run[q])  BY <1>1, <3>5 DEF IInv, Traced
      <4>2. run[q].task = t /\ (run[q].pc = "crashed" \/ "overlay" \in run[q].left \/ run[q].committed)
        BY <2>2, <3>1, <4>1 DEF Overlays
      <4>3. QED  BY <4>2 DEF LeftBehind, At
    <3>6. QED  BY <3>2, <3>3, <3>4, <3>5
  <2>4. GivenBack  BY <2>3 DEF GivenBack
  <2>5. OutcomeRecorded  BY <2>1 DEF OutcomeRecorded, At, Statused
  <2>6. QED  BY <2>4, <2>5 DEF Returned
<1>2. QED  BY <1>1, LaunchAlways, PTL

\* Compaction never renames a file under a backend or a guest that has the
\* overlay open: only the newest launch of a task is under way, and it has
\* closed its backend (StartTask, qcow2 CompactImage).
THEOREM CompactsIdle == Spec /\ ~Overlap => []CompactsIdleOverlay
<1>1. ASSUME IInv PROVE CompactsIdleOverlay
  <2>1. SUFFICES ASSUME NEW p \in Procs, At(p, "compacting"), NEW q \in Procs, Running(q),
                        run[q].task = run[p].task
                 PROVE  ~Alive(q) /\ "backend" \notin run[q].held
    BY DEF CompactsIdleOverlay
  <2>2. q = p  BY <1>1, <2>1 DEF IInv, Newest, Running, At
  <2>3. Caged(run[p]) /\ Papered(run[p])  BY <1>1 DEF IInv, Local
  <2>4. QED  BY <2>1, <2>2, <2>3 DEF At, Caged, Papered, Lives, Alive
<1>2. QED  BY <1>1, LaunchAlways, PTL
=============================================================================
