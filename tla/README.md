# TLA+ verification of pvm

pvm runs agent tasks in user-mode Linux sandboxes. A controller
(`cmd/agentpvm`, `internal/api`) launches tasks, pauses and resumes them, hands
out pre-warmed sandboxes, lets tool calls through a policy gateway with human
approval, and records what happened in a tamper-evident ledger. This directory
holds TLA+ models of that control logic, TLC configurations that check them on
small instances, and TLAPS proofs of what matters most.

## 1. Inventory

| Part (under `src/internal`) | State it keeps | Operations | What is hard | What makes it correct |
|---|---|---|---|---|
| `lifecycle` AutoPause manager | timer generation and cancel epoch per task; cgroup freezer, memory.max; state.json | Arm, Disarm, idle callback, Resume, BalloonPause, DeepPause, DeepResume | the callback runs under no lock but m.mu and re-checks its epoch twice; each step can fail | at most one callback may commit; Running is thawed, watched, charged, alive; Suspended is frozen |
| `state` | state.json: status, deep and balloon markers | Transition, Load, Save | last writer wins | no stuck state |
| `api` task handlers, `watchdog`, incident hooks, `container` launcher | per-task lock | pause, resume, transition, activity, freeze, terminate, kill, WaitExit | only some actors take the lock | the lock comes free; an intended death is not recorded as a failure |
| `pool` | slice of sandboxes, tenant counters, pool.json, cleanup queue | Warm, claim (3 phases), Release, Suspend, Resume, SetQuota, RetryCleanups | Factory and Destroyer run unlocked; each store failure has its own rollback | counters equal sums; capacity and quota hold at commit; nothing leaks |
| `approval`, `policy`, /exec | tickets, approvals.json, rules, hooks | Create, Decide, Edit, ClaimFor, Execute | two requests race for a ticket; crash between consume and execution | allow once; what runs is what was approved |
| `audit` | ledger.jsonl, head watermark, per-object tail cache | Open, Append, flush, Close, Verify | several objects and processes on one file; readers without a lock | chain whole, watermark never ahead |
| `fsjson` | a JSON file | Write | may fail after its rename | atomic replacement |
| `identity` | key file, revoked ids and tasks, links of tokens to tasks, identity-revocations.json | Mint, Validate, Refresh, Revoke, RevokeAllForTask, load at start | a rotation is three critical sections; restarts between any two writes | revoked stays revoked |
| `incident` | reports handled per task, hooks | Classify, Handle | hooks fail one by one, reports race | all containment that can be applied is; the third report escalates |
| `container` launch, `uidalloc`, `jail`, `network` ipam, registry, portmap | what each stage took; uidmap.json, portmappings.json, iptables rules, overlays | StartTask in thirty stages, its deferred functions | failure or death at each stage, several processes on the same tables | nothing allocated twice, everything given back, no guest without its evidence and limits |
| `cow` | qcow2 image: L1, L2, refcounts, data; caches of the server | open, read, write, compact | several host writes per guest write; caches; short writes and deaths | it is a disk |
| `snapshot` | task directories, backing paths, `.clones` markers, snapshot metadata | event snapshot, drop, clone, rollback, delete, export, restore | four mutexes that exclude nothing of each other | every backing chain resolves; a listed snapshot is complete; no guest stays stopped |
| `volume`, `cow/engine` | registry records, images, holder counts, node mounts | create, snapshot, clone, delete; Attach, Detach | check and act are apart; the second of two steps fails | no dangling chain, no orphan image, mounts match holders |
| `vhost` | vrings, memory table, kick descriptors, sessions | control messages, pump, close, reconnect | IO without the lock; 16-bit indices; eventfd kicks | memory stays mapped; each request is answered once and in the end |
| `network/dnslearn`, `filter` | learned (domain, ip) table, whitelist map, registry | learn, expire, sweep, promote, drop, attach, detach | the map is written after the mutex is released | the map is what the table says; no learner or map leaks |
| `network/egress` | policy with generation, live tunnels, counters | CONNECT, plain and spliced flows, interception, SetPolicy | a policy change between verdict, dial and registration | live tunnels obey the policy in force; uploads are billed |
| `template` | a record per template | build, promote, delete | external commands | a READY record has its image |

The remaining parts (spec parsing, images, the guest file API, collectors,
archives, logging, command line, SDK, web UI, eBPF) have no state of their own worth a model; see
`components` in PROJECT.json.

Interactions. The API handlers call the lifecycle manager and share state.json
with it, with the watchdog and with the launcher. The lifecycle manager calls
the pool to release and re-reserve memory. `/exec` bumps the idle timer, then
asks the policy gateway, which asks the approval manager. An incident report
revokes tokens at the broker, blocks at the egress gateway and freezes or kills
through the same files and cgroups as the handlers. A launch attaches volumes,
starts the block backend on the task's overlay, publishes a DNS learner and an
egress policy, and takes them down again. Snapshots and clones branch from that
overlay while it is written. Everybody appends to the ledger of the task.

## 2. Modules

| Module | Models | Composition |
|---|---|---|
| `TaskState` | status FSM and markers of state.json | used by `Lifecycle` |
| `Lifecycle` | `internal/lifecycle` for one task | extended by `TaskControl` |
| `TaskControl` | handlers, watchdog, incident hooks, launcher, guest, restart, around `Lifecycle` | checked through `MCTask` |
| `LifecycleProofs` | theorems about `TaskControl` | |
| `Pool` | `internal/pool` and its factory and destroyer | checked through `MCPool` |
| `PoolProofs` | theorems about `Pool` | |
| `Gate` | approval tickets, policy rules, `/exec`, `/approvals`, `/policy` | checked through `MCGate` |
| `GateProofs` | theorems about `Gate` and about `Containment` | extends both |
| `Ledger` | `internal/audit/ledger.go` | checked through `MCLedger` |
| `LedgerProofs` | theorems about `Ledger` and about `Vhost` | extends both |
| `Launch` | `StartTask`, uid table, port registry, address allocator, jail barrier | uses `TaskState`; checked through `MCLaunch` |
| `LaunchProofs` | theorems about `Launch` | |
| `BlockDev` | what a guest expects of a disk (abstract specification) | implemented by `Qcow2` |
| `Qcow2` | `internal/cow` qcow2 images: layout, cache, writes, compaction | refines `BlockDev`; checked through `MCQcow2` |
| `Qcow2Proofs` | theorems about `Qcow2` | |
| `Vhost` | `internal/vhost`: listener, session, virtqueue, pump | checked through `MCVhost` |
| `Snapshots` | `internal/snapshot` with the handlers that call it | checked through `MCSnapshots` |
| `SnapshotsProofs` | theorems about `Snapshots` and about `Volumes` | extends both |
| `Volumes` | volume handlers, `volume/store.go`, `volume/manager.go`, `volume/s3.go`, `cow/engine.go` | checked through `MCVolumes` |
| `DnsLearn` | `network/dnslearn`, `network/filter.go`, `api/dns_egress.go` | extended by `Egress` |
| `Egress` | `network/egress`: verdict, flows, interception, policy updates | over `DnsLearn`; checked through `MCEgress` |
| `EgressProofs` | theorems about `Egress` | |
| `Containment` | `internal/identity` and `internal/incident` with their REST handlers | checked through `MCContainment` |

### TaskState, Lifecycle, TaskControl

One task: the manager's maps are keyed by task. Every goroutine is an actor
with a program counter, its own copy of the state it loaded and the epoch it
captured. A timer callback is named by its generation, a request by a member of
`Requests`. One step is one effect others can see: a file read or write, a
cgroup write, a section under `m.mu`. `disk` is state.json, `gen`, `epoch` and
`nextGen` are the manager's maps, `lock` is the server's per-task lock,
`sandbox` is what the pool knows of the task. `Restart` kills every goroutine
and timer and runs `rearmAllAutopause`. The actions keep the names of the
functions they are cut from: `PauseClaim` to `PauseThaw` are `pause` and
`commitPause`, `ResumeLoad` to `ResumeArm` are `Resume`, `Deep...` are
`DeepPause` and `DeepResume`.

A criu dump ends the guest (`--leave-running` is not given), so the guest is
dead while the disk still says Running, and `WaitExit` may load that state; a
dump that leaves the tree alive is allowed as well, for that is the case the
code's kill, retry and rollback are written for. A restore needs the guest gone
and does not thaw. The history variables `lost` (a dump ended the guest and the
save after it failed) and `unthawed` (restored into a frozen cgroup, not thawed
since) mark what the code leaves behind there.

Abstractions: the pool is the one field `sandbox`; memory sizes are the one bit
`squeezed`; the launcher notices the end of its child before criu has revived
the guest.

### Pool

Every section under `m.mu` is one step with its write of pool.json. The pool
is a function over all ids, "absent" marking ids not in the slice. `claim` is
`claimPhase1`, `claimPhase2` (Factory, unlocked), `claimPhase3`; `Warm` and
`Release` are split the same way. `live`, `made` and `reported` are ghosts for
what exists on the host. `Restart` reads a pool.json that parses; that one which
does not is moved aside is left out.

### Gate

Every section under the approval manager's mutex is one step with its write of
approvals.json, which may fail before or after its rename. `th[c]` is an /exec
request: "claim" before `ClaimFor`, "run" before the executor. A gateway's
rules and hooks only go from nil to set, so finding it, wiring it and deciding
are one step. `granted`, `answered`, `spent` and `issued` are ghosts: what was
approved, which success was reported, how often a ticket was used.
API authentication appears only through `Strong` (deciders must not be
creators). The window of a ticket is `Hour` ticks, scaled down.

### Ledger

A `Ledger` object stands for one `audit.Open` in any process. A digest is the
sequence of all records it covers, so it is injective as SHA-256 is assumed to
be. Offsets count records; `torn` says half a record follows them. `Open` is
two steps because `loadTail` reads to EOF and then takes the size; `Verify` is
two because it reads the head after the file. `raced`, `peak` and `lost` are
ghosts. Left out: a Stat that counts half a record, the re-scan after a file
shrank (tampering), removal of the directory, signatures (one key per root,
a function of the digest), redaction (before the digest is taken).

### Launch

One launch is one `agentpvm run` process (`cmd/agentpvm/main.go` calls
`StartTask` once), so whatever the code keeps in memory of the process is a
field of `run[p]`: the state object, the address allocator, the port registry
once loaded. Files and kernel tables are shared variables: `uids` (uidmap.json),
`status` (state.json), `overlays`, `portFile` (portmappings.json), `rules`.
One step is one stage; its name is the function it calls. `defers` is the stack
of deferred functions in the order the code registers them, and `RunDeferred`
pops one. `StageFails` is an error return that leaves nothing of the stage
behind; the places that return before they have deferred the cleanup of what
they made are actions of their own (`OverlayFails`, which covers a create that
fails halfway and a chown that fails, `SocketGrantFails`, `AllocateUnsynced`).
A deferred function may fail to remove any part of what it should (`Stubborn`),
warns and goes on; the error of `SaveState` is dropped, so that any save may
leave state.json as it was. `Degraded` is a failure the launch survives if the warning
can be written. `Crash` is the death of the process at any step: the kernel
closes its descriptors and PDEATHSIG kills its guest. The uid table is truncated
and then written: a write that fails (`AllocateFails`, `releaseUIDRange`) or a
death (`CrashInMutate`) in between leaves an empty table or one that does not
decode (`Torn`).

`wiped` (guests whose range an emptied table forgot), `unsaved` (launches whose
last save failed), the field `left` (what a launch failed to remove or lost
track of) and `last` are ghosts. Assumptions: the process is root (so
the uid table is used); `Overlap` is FALSE, i.e. no id is launched twice at the
same time (section 5); the stages of one port list are one step. Left out: tokens and egress
policies (memory of the process), `watchDeadline`, the DNS proxy falling back
to loopback, grants on image files, the text of the kernel command line.

### BlockDev and Qcow2

`BlockDev` is a disk of words: a write takes effect word by word, reports
success only when all its words are there, and one that fails or whose server
dies may have reached any of them. `Qcow2` is the image: `file` is what is on
disk (L1, refcount table, clusters), `mem` what the serving process keeps (its
L1, its cached L2 tables, the length it appends at), `op` the write in progress.
A step of a write is one write of the host file, in the order of
`qcow2_write.go`: `AllocData`, `RegisterBlock`, `WriteTableEntry`,
`WriteRefcount`, `WriteData`, `AllocL2`, `ZeroL2`, `LinkL1`, `LinkL2`.
`WriteFails`, `ShortWrite` and `ShortInPlace` are its error returns, `Crash` is
the death of the server anywhere. `Compact` is one step: it builds a new file
and renames it. The refinement maps the disk to `View`, what a read through
tables, zero flags and the backing image returns. Width, size and cache are
parameters; the cluster size only scales them. Left out: headers of foreign
images, the COPIED flag (always set by this code), offsets inside a word.

### Vhost

`server` is the listener, `d[s]` a session as the server keeps it, `g[s]` the
rings and the guest's view of them. A message handler, a pop phase and a publish
phase hold `session.mu` and are one step each; the IO of a batch runs between
two of them. Memory tables and kick descriptors are numbered by the set-up that
brought them, so "unmapped" is a comparison of numbers and `fault` is a touch of
an unmapped ring. Indices wrap at `IdxMod` (2^16 in the code). The guest posts,
kicks, sets its queue up in protocol order, may reset it at any time, and may
vanish. The addresses it sends translate and are aligned, so `setup` does not
refuse them. A request is a plain write, one past the end of the disk, a short
chain or a malformed one.

### Snapshots

The disk of a task is one block that is a hole or a value, its file a record of
that block and a backing path. `sn`, `cl`, `rb` and `del` are the operations
that may be under way at once, each with the mutex it holds; every operation is
cut where another one may run. `os.RemoveAll` takes a directory file by file, in
any order, and may fail or die after any of them (`DropPart`, `RemovePart`, in the
stories with the kind "part"). `excused` collects the tasks whose chain the code
gives up knowingly or by one of the findings (deletion during a clone, crash),
so `ChainsResolve` is about the others; of a snapshot, `bare` says that the copy of
state.json was skipped and `cut` that a removal has begun on it. `Profiles` bound
the behaviours by story. Left out: memory images, which a rollback does not read,
and the bound on the length of a chain.

### Volumes

`back[i]` is what image `i` overlays, `rec[v]` its registry record, `req[k]` a
request between its check and its act (every request makes its own engine, so
the engine's mutex excludes nobody). The mount half has one manager per process
(`wiring`), the mounts belong to the node, `box[s]` is `StartTask` attaching a
list of volumes and taking it down. `raced`, `crossed` and `spoiled` are history
variables for the exceptions the code leaves (section 5): `raced` holds images
branched while their source was being removed, and those that the scan before a
removal skipped because they no longer open. The halves share no state, so a
behaviour of the run has requests or launches (`Budgets`). An image that a failed
`createQcow2` leaves is "torn" (it does not open), or whole; compensations fail
like any other step. The fallback of a clone to a volume named `snap-<id>` is left
out (`CloneCheck`): it is the same branch from another name.

### DnsLearn and Egress

`DnsLearn` keeps learners, whitelist maps and goroutines: a table change is one
step under the mutex, the map writes it leaves to do are the worker's `ops`, and
each map write takes the handle and uses it in two steps, and may fail there: a
map has room for `MapEntries` addresses, and `whitelistAdd` is the second writer,
the command line. `Expire` is time.
`Egress` adds the flows: `pc` runs through verdict, dial, floor and rebinding
guard, registration, transfer and end; `SetPolicy` raises the generation, takes
the tunnels off the list and closes them in a second step. Of a request the
policy sees host, scheme, port and operation; an upload is a number of chunks, of
which a CONNECT may have forwarded some before its pipes run (`early`). The
ClientHello that a splice writes upstream before it registers (transparent.go:286)
is left out; no formula depends on it.

### Containment

One server process over two files: `keyFile` (identity.key) and `file`
(identity-revocations.json). A token is its id, task claim and expiry. A
rotation is `RefreshCheck` and `RefreshMint` with the revocation of the old
token; a report is `Handle` and then one step per hook, each of which may fail.
`box[t]` is the guest as the hooks see it. `gone` and `narrowed` are ghosts: what
was reported as revoked, and whether a start lost the revocation file.

## 3. Runs

All cfgs set `CHECK_DEADLOCK FALSE`: requests, faults, time and restarts are
bounded, so a behaviour ends when they are used up.

| Run | Bounds | Properties |
|---|---|---|
| `task_all` | 1 request of 6 kinds, 4 generations, 2 failures, 1 restart, the guest may exit; fair | `TypeOK`, `SingleCurrentPause`, `RetryNeverClobbers`; `RunningNotFrozen` and `RunningIsWatched`: settled and Running means thawed and watched; `EventuallyPaused`; `LockReleased` |
| `task_handlers` | three kinds of task: 5 pause, deep-pause and resume requests without an idle timer and 1 failure; the idle callback's deep pause against activity and 1 failure; a task outside the pool and without a cgroup, 2 failures | `AllCompensated`: freezer, quota, balloon, guest and status agree after every error path (exceptions in section 5); `DeepPauseSurvives` |
| `pool_all` | 2 goroutines, 3 sandboxes, capacity 2, two quotas, 1 fault, 1 restart | `Bounded`, `CountersMatch`, `SandboxesKept` (no leak, no destruction of a listed sandbox, memory mirrors the store), `QuotaAtCommit` |
| `gate_all` | 2 requests, 2 tickets, 2 keys, 3 effects, 1 fault, 1 restart | `AllowOnce`, `ExecutedAsApproved`, `DecisionStands`, `NothingByDefault` |
| `ledger_all` | 2 objects, 2 records, 2 faults; fair | `RecordsIntact` (chain and watermark), `VerifySound`, `EveryRecordMarked` |
| `launch_all` | 2 processes, 3 kinds of task, 2 uid slots, 2 failures or deaths | `GuestKept` (papers, cage, own uids while it lives), `Returned` (everything given back but what an operation failed to remove, outcome on disk), `CompactsIdleOverlay` |
| `disk_all` | 5 words in clusters of 2, 3 operations, 1 failure or death, a cache of 1 table | `NoSharedCluster` (no cluster shared, what is linked is in the file and counted), `IsDisk` (refinement of `BlockDev`) |
| `vhost_all` | queue of 2, indices mod 4; up to 5 requests, 1 odd one, 1 reset or 2 frontends; fair | `MemorySafe`, `AnsweredOnce`, `Served` (no lost kick, close ends) |
| `snapshots_all` | 3 tasks, 2 snapshots each, 7 stories of 4 to 6 operations | `ChainsResolve`, `CompleteWhenListed`, `FrozenOnlyWhileCaptured` |
| `volumes_all` | 2 volumes, 2 snapshots, 2 requests, 2 sandboxes, 2 managers, 6 requests or 4 launches in all, 1 failure | `VolumeChains`, `NoOrphanBlock`, `MountsMatchHolders` |
| `egress_all` | 2 flows, 3 policies, 2 names, 3 addresses (one private), 2 goroutines, 2 learners, 2 maps of one entry, 3 requests | `TunnelsObeyPolicy`, `UploadBilled`, `LearnerSound` (map matches table, nothing leaks) |
| `contain_all` | 1 task, 3 tokens, 2 handlers, 3 reports, 3 requests, 2 failures | `RevokedStaysRevoked`, `ContainmentComplete`, `EscalatesOnThird` |

Conjunctions such as `Compensated` (which `AllCompensated` asks of each kind of
task) or `GuestKept` join named parts that are stated, and can be checked, one
by one.

Why the bounds are enough. The hazards need one interleaved actor per
unprotected window and one failure per compensation path: a request and a
callback, two goroutines, two clients or two objects reach every such pair. In
`task_all` four generations give an arm, a re-arm by the request and two
retries; the idle callback there pauses by freezing (`DeepTask` FALSE).
`task_handlers` needs five requests for pause, resume, deep pause, deep resume
and one retry after the failure. `pool_all` has one more sandbox than the
capacity, so the rechecks refuse. In `gate_all` two tickets of one call make a
claim choose. In `ledger_all` two faults allow a short write and a failed
truncate or a crash after it. In `launch_all` the three task specifications take
between them every branch of `StartTask`; two faults allow a crash followed by
a failed stage of the next launch, or a degraded layer followed by the failure
of its warning; two slots are as many as processes, so a slot left behind by a
crash exhausts the table. In `disk_all` five words make a last cluster that is
half past the end, two L2 tables and a cache that evicts; the backing image is
shorter than the overlay; three operations give write, failure and retry, or
write, compaction and read. In `vhost_all` five requests wrap the indices of a
queue of two, and four with a reset let stale answers free a descriptor that is
still in use. In `volumes_all` six requests orphan a snapshot, one on it, and
remove the first. In `egress_all` caps 1 and 2 make the table evict, and a cap of 2
over maps of one entry fills a map before its table. In
`contain_all` three reports reach the escalation, three tokens a rotation of a
rotated token.

`task_all` leaves out the kinds "pause" and "deeppause", and in `task_handlers` a
task has either an idle timer or pause and resume requests, because a callback
that races a manual pause breaks several of these properties (section 5). `task_handlers` also leaves out "mem" (errors of
`RestorePauseBalloon` are ignored by documented intent). `MCTask` adds the
history variable `contained`: an incident may freeze a Running task for good.
Its variable `box` names the kind of task a behaviour is about, each an instance
of `TaskControl` with other constants; `box` never changes.

Fairness. `Fairness` of `TaskControl` is weak fairness of each goroutine once it
has started: Go runs runnable goroutines, timers fire, and `taskLock` is a
mutex that is eventually granted. Requests need not arrive, and the launcher
need not move. `SlowTimers` (an idle timeout is longer than the work of one
callback) is assumed by `task_all`; idle timeouts are seconds to minutes, a pause
is a few file writes. `Spec` of `Ledger` is weak fairness of the flusher (a
ticker), of a started `Close` and of the rollback of a short write. `FairSpec`
of `Vhost` is weak fairness of each thread of a session, and of the kick of a
guest that has posted (a driver posts and then notifies). Faults are bounded, so
retries succeed in the end; with a disk that fails for ever they would not.

## 4. Proofs

`LifecycleProofs` (for every number of requests, generations, faults and
restarts and every set of faulty operations, and for every kind of request
where no restriction is named):

- `TypeCorrect`: `TypeOK`.
- `SinglePause`: `SingleCurrentPause`. It is not inductive. `EpochInv` adds
  that no callback past its claim carries an epoch from the future, so a bump
  of the epoch invalidates them all at once. Each step is shown either to be benign (it does not
  move a callback past the claim and only raises the epoch) or to be the
  claim itself.
- `RetrySafe`: the action property `RetryNeverClobbers`, from the same
  invariant.
- `NeverSilent`: `RunningIsWatched`, under `IdleOnly`: an idle timeout that
  outlasts a callback (`SlowTimers`), a shallow pause, no pause request, and no
  POST /transition to Running (its handler bumps the timer by the status it
  loaded, before it writes). Exec, resume, the
  incident hooks, the watchdog, the guest's exit, either launcher, failures of
  every operation and restarts are all allowed. `WInv` says who owes the task a
  schedule: while it is Running with a live guest and nothing is armed,
  somebody is about to run `ResumeArm`, or a callback whose epoch is current is
  between its claim and its save or retry (`Tended`). `OneCallback` adds that a
  callback which was overtaken has left a live schedule behind, so its rollback
  to Running is watched; `Fits` that nobody else holds a copy of the state that
  says Running, and that the launcher drops the schedule of a dead guest only.
- `DeepPauseKept`: the action property `DeepPauseSurvives` (no launcher that loaded
  the state after the deep pause was saved records an end over it), under `HandlersOnly`:
  no idle timer, a guest that does not end by itself, a launcher that waits in
  `WaitExit`, and requests that pause, deep-pause or resume. Any operation may
  fail any number of times, and the server may restart. With the launcher of
  `StartTask` the code does not keep it (section 5); kill, terminate and
  /transition are meant to end a deep pause; the idle callback's deep pause is
  left to `task_handlers`.
- `HandlersCompensate`: `Compensated`, the body of `AllCompensated`, under
  `HandlersOnly` and `Gentle` (at most one failure, none of memory.max, no restart).
- The last two rest on `HInv`. The holder of the per-task lock is the only handler at
  work; `Doing` (`PauseWorks`, `ResumeWorks`, `DeepWorks`, `GuestWorks`) says, for
  each of its 31 steps, what is on disk, what the copy it will save says, and which
  of frozen, unsqueezed and booked holds already; `Settled` and `Accounted` hold
  while the lock is free. A launcher that loaded Running between a dump and its save
  may record its end at any later moment, under any handler: every claim of `Doing`
  about the disk is therefore "or `Ended`", and what a later save needs is a fact of
  the handler's own copy and of the host. `Accounted` says that a dead guest is a deep
  pause, a deep pause whose restore failed, an end that is recorded, or `lost`;
  only between dump and save is it none of them. The second failure that the
  re-freeze, the thaw after a failed save, the rollback of Resuming and the undo of a
  squeeze cannot survive is excluded by `Gentle` and by `faults > 0` at those steps.

`GateProofs` (for every set of tickets, tasks, tools, keys, effects, clients
and rule books, and any number of faults and restarts):

- `TypeCorrect` (`TypeOK`), `UnlocksOnce` (`AllowOnce`), `RunsWhatWasApproved`
  (`ExecutedAsApproved`), `ReportedDecisionsStand` (`DecisionStands`).
- The inductive invariant `IInv` says of the tickets in memory and of those in
  the file the same five things (issued, bound, approved as granted, standing,
  burned once used), since a restart makes the file the memory; `Lag` says a
  ticket approved in the file is approved in memory or lost there, which is
  what makes a later write of another ticket harmless; `Once` and `Requests`
  are about the requests in flight.
- `NothingUncovered` (the action property `NothingByDefault`): only `Exec` starts
  a request, and what `Decide` answers unless it denies is the action of the
  first rule that covers the call (`FirstRuleDecides`).

`PoolProofs` (for every number of goroutines, sandboxes, tenants, templates,
quotas, ticks, faults and restarts):

- `PoolBounded` (`Bounded`), `ChargesExact` (`CountersMatch`), `NothingLost`
  (`NoLeak` and `DestroyedNotListed`, and all of `SandboxesKept` unless
  `Undurable`: a store that reports an error after its rename refutes the
  mirror, section 5), `QuotaHeld` (the action property `QuotaAtCommit`).
- The invariant says the same of the pool in memory and of pool.json, since a
  restart makes the file the pool: within capacity, and exactly the claimed and
  paused entries have a tenant. The books are the sums over the pool in memory,
  so nothing that a release takes back is cut off at zero. A sandbox that a
  goroutine carries over an unlocked call (factory, destroyer) is known to no
  pool, no cleanup and no other goroutine: without this a commit could list what
  another has torn down.
- A sum over sandboxes is written as the number of its units (`Total`), whose
  laws follow from those of finite cardinalities; a recursive sum would need
  induction.

`LedgerProofs` (for every number of objects, records and faults):

- `LedgerIntact` (`RecordsIntact`), `NoFalseAlarm` (`VerifySound`).
- `InStep` ties the tail every object remembers to the record its number names
  in the file and its offset to no later one, so a refresh that starts at the
  offset misses nothing; every watermark pending or being written names a record
  of the file. What holds only without two openings racing is under `~raced`.

The second part of `GateProofs` is about `Containment` (for every number of
tasks, handlers, reports, tokens and faults; inductive invariant `ContainInv`):

- `RevocationHolds` (`RevokedStaysRevoked`): what was reported as revoked is in
  the file unless a start lost it, and in memory while the process is up; a
  rotation in flight belongs to the process that checked its token.
- `ContainmentHolds` (`ContainmentComplete`): a stage that is neither ahead of a
  report nor failed is in force already.
- `ThirdEscalates` (`EscalatesOnThird`): the mild reports on a task never
  outnumber the count read under the lock.

`EgressProofs` (for every number of flows, names, addresses, policies,
operations, learners and workers):

- `PolicyHolds` (`TunnelsObeyPolicy`): a flow judged under the generation in
  force is one the policy in force allows, a registered tunnel is of that
  generation, and one that carries bytes is registered or about to be closed.
- `Billed` (`UploadBilled`): at every step the account of a flow says what its
  end will bill, and how much of it a CONNECT forwarded uncounted.
- `FloorSound` (`LearnerSound`), by the invariant `LInv`. `Floor` is its heart:
  an address that is live in the table is in the map, queued to be added or
  `adrift`, and an address in the map is in the table, queued to be deleted or
  `adrift`. This is not inductive, because a queued write is applied long after
  the table was unlocked. `Serves` adds that whoever writes for the task's
  learner holds the task's map, and that a queued write which nothing overtook
  still says what the table says (`Due`); a later change of the table marks the
  opposite writes in other queues stale, and only a stale write, one that fails or
  the command line may set an address adrift (`Outcome`). `Hands` makes the references of a map the number of goroutines that
  hold it, so the last release, and no other, closes a retired map. `Stage` ties
  the task's learner, map and pin to the stage of its life; `Named` and `Known`
  keep a learner's number from being reused while somebody names it; `TableOK`
  makes `total` the number of filled entries, which a sweep and an eviction take
  down by exactly what they remove; `Shaped` says which fields of a goroutine
  mean something at which step. The only induction is over the position in a
  queue of writes, through the least position where it fails.

`LaunchProofs` (for every number of launches, tasks, uid ranges and failures,
and every specification of a task, if no task is launched while a launch of it
is under way; with `Overlap` the code does not keep this, section 5):

- `GuestsKept` (`GuestKept`), `AllReturned` (`Returned`), `CompactsIdle`
  (`CompactsIdleOverlay`).
- The invariant has a part about each launch alone and a part about what they
  share. Alone: what surrounds the guest at each stage (`Caged`), what has been
  written down about it (`Papered`), that everything held is released by a
  deferred function that has not run (`Owed`, over the stack `Due`), and the
  status that goes with the stage (`Statused`). Shared: the launch under way is
  the newest of its task and state.json is its, unless a save of it failed
  (`Newest`); the uid table gives a range to one task and a launch that was not
  `wiped` has the range the table says (`Ranged`); every rule, overlay and uid
  range is traced to a launch that will remove it, that committed it, that failed
  to remove it, or that crashed (`Traced`).
- A failed address allocation after which the launch goes on degraded has its
  own action: it saves Provisioning again, and returns before the release of
  the range is deferred when the warning cannot be written. The proof attempt
  showed that an earlier form of the model left the save out.

`SnapshotsProofs` (for every set of tasks and snapshot names and every profile
of operations):

- `ListedIsComplete` (`CompleteWhenListed`): as long as the directory that a
  snapshot made is there and no removal has begun on it, there is a state to copy
  or it has been copied or skipped (`SnOK`); a recorded overlay is in place, listed
  or not (`SnapsOK`), and the same in an archive (`ArchOK`), which may hold a
  half-made snapshot.
- `StoppedIsCaptured` (`FrozenOnlyWhileCaptured`).
- What an image reads as plays no part in these two. The first needs that a
  restore does not put an archived snapshot where one is being taken: names hold
  the task and the time (`snap-<task>-<nanoseconds>`), which the model's slots do
  not, and `Import` says so in its guard.
- `ChainsHold` (`ChainsResolve`), by the invariant `CInv`. `Linked`: what the file
  of a task that is not excused backs onto is there, or its task is excused.
  A removal keeps this only because of `Guarded`: the markers under `.clones`,
  those a clone under way is about to write included, lead from the task backed
  onto to the owner of the file, so a task whose file is in use has a marker and
  fails the guard of its deletion. "Lead to" is said without a path: every set
  that holds the one and is closed under the markers holds the other. `Grounded`:
  every non-empty set of such files has one that backs onto none of the set,
  which is the absence of cycles, again without a path; the converted image of a
  rollback starts a new chain, so it closes none. `RemovedExcused`: whoever is being
  removed, by a deletion past its guard or by a failed clone, is excused, so files
  that go one by one break no other chain. From these, a walk along
  the backing paths repeats no file before it leaves the files, so after as many
  hops as there are paths it is at `None` or at an excused task. The walk is a
  function on `0 .. Hops`, and what it reaches is proved with the least number at
  which it would fail.
- A chain that is whole can still be too long: `openGuestImage` refuses more than
  33 files (`maxBackingChainDepth`), and `createOverlayValidated` opens the file
  below the new one, not the new one, so on a chain of 33 files it makes a disk
  that nothing can open. Neither the run nor the theorem counts the files.

The last part of `SnapshotsProofs` is about `Volumes` (for every finite set of
volumes and snapshots, every number of requests, sandboxes, managers, failures
and crashes, and every volume list). Of `VolumesAssumption`, `NamesApart` is used
for the images and `ListsNameVolumes` for the mounts.

- `BlocksRecorded` (`NoOrphanBlock`), by `BooksInv`: a target that requests did
  not cross on and no failure hit has one request (`Alone`); what that request checked is still so
  when it acts (`Owes`: the clone's record and the free name, the image gone when
  the record is to be forgotten); and what no request works on has its record
  (`Recorded`).
- `VolumesChained` (`VolumeChains`), by `VolInv`. `Chained`: every set of images
  that is closed under backing, holds an image that is there and none that was
  given up, holds the end of a chain. `Doomed`: what overlays an image about to
  be removed was given up. A walk of as many hops as there are images stays in,
  and closes, the set of what it meets, by counting (`TrailFollows`); so it meets
  the end. The first volume on it is the one under which the snapshot is listed.
- The attempt to prove `VolumeChains` refuted its earlier form, which TLC had
  passed with four requests: the scan before a removal skips images that do not
  open, so a snapshot orphaned by a race loses the protection of the image under
  the next snapshot on it. `Skipped` is in the model for this, and the run has
  six requests, with which TLC finds the counterexample to the earlier form.
- `MountsKept` (`MountsMatchHolders`), by `MountInv`: the property, and, for a
  bucket that nothing spoiled, that its metadata names the one driver it is held
  through and that one manager holds it (`InOrder`). Without these a last
  detachment could unmount under another holder, or be unable to find the
  mountpoint. The holders are counted as places in the lists of the sandboxes
  (`Claims`): an attachment adds one, a detachment moves the others up, which is a
  bijection (`ClaimsShrink`).

The second part of `LedgerProofs` (for every queue size, every index width that
is a multiple of it, every batch size, and any number of frontends, requests and
resets):

- `MemoryKept`: `MemorySafe`. No conjunct of it is inductive. `VhostInv` adds, of a
  session, that it has no table and no rings before its first set-up and, until the
  second, no rings but those of the current table, none while a SET_MEM_TABLE is
  being handled, and some while a batch is out (`Mapped`); of the listener, that
  every earlier session is closed with its pump gone, that no frontend has reached
  a later one (`ServerOK`), and that the listener is replacing only a session that
  is closed. `Moves` is what any step of one session owes the
  others, so each action is proved on its own session alone. The batches and the
  indices need that a pop takes slots of the ring and no more than a batch
  (`PoppedOK`).
- `RequestsAnswered`: `AnsweredOnce`. `AnswerInv` follows each descriptor of a queue
  that is set up once from the available ring (`QueueOK`: not yet applied) through
  the batch (`BatchOK`: applied between the IO and the publication, if it is a
  write) into the used ring (`AnswersOK`: "ok" exactly if applied): it is at one
  place of one of them, and the places together are no more than the descriptors
  in flight. That count is the heart of it: it is at most the size of the queue, so
  neither ring overtakes itself where the indices wrap (`SlotsApart`, `SlotShift`,
  from `IdxMod % Num = 0`). `SetupOK` is the order of the first set-up, by which
  SET_VRING_BASE cannot rewind the ring once it is in use.
- The attempt to prove `AnsweredOnce` refuted its earlier form, which TLC had
  passed with two requests and a reset: that no write at all is applied twice. A
  queue that is set up again reads stale answers, frees a descriptor that is still
  queued, and posts it again. `twice` is now kept per session, and the run has
  four requests with a reset.

`Qcow2Proofs` (for every size of clusters, disks, files and caches, every
backing image, and any number of writes, compactions, failures and crashes):

- `ClustersApart`: `NoSharedCluster`. The
  inductive invariant `DiskInv` has one part for each thing that outlives a step.
  `ImageOK`: entries of the file are in range, no two are equal, and what is linked
  is counted. `MemOK`: the L1 table and the cached L2 tables of the server are the
  ones in the file, and the file is no longer than the server remembers, which is
  why a cluster appended at the remembered length is new even after a short write.
  `OpOK`: the clusters the write has taken and not linked yet are referred to by
  nothing, and of the nested allocations of `bumpRefcount` the last count owed is
  that of the new cluster. A crash drops the server and the write and leaves
  `ImageOK`, which is all a new server needs.
- `ImageIsDisk`: the refinement `IsDisk`. `OpOK` also says what the copy holds
  before it is linked: what the disk reads there (`Reads`), with the guest's words
  in it. So linking it (`LinkL2`) changes the words of the write at once, and every
  step before it changes none (`Keeps`). `ViewReads` makes the guest's view through
  the cache the content of the file. `Compact` is a recursive function over the
  clusters of the disk: `WalkExists` and `CompactOK` go by the least cluster at
  which the walk would not exist or not hold what the old image held (`Holds`), so
  they need no induction principle with an operator for a parameter.

Assumptions are those on the constants (`LifecycleAssumption`,
`TaskControlAssumption`, `GateAssumption`, `PoolAssumption`, `LedgerAssumption`,
`LaunchAssumption`, `SnapshotsAssumption`, `VolumesAssumption`,
`LearnAssumption`, `EgressAssumption`, `ContainAssumption`, `VhostAssumption`,
`Qcow2Assumption`, `LayoutAssumption`), which TLC evaluates in every run:
bounds are natural numbers, sentinels are no members of the sets they stand
outside of, there is a task to launch (`Tasks # {}`), 0 is no address
(`0 \notin IPs`), there are finitely many addresses (IPv4, 32 bits), and the base
image holds a value (`MaxValue` is not 0). `LayoutAssumption` says that the sizing
loop of a fresh image settles within its 32 rounds (the code errs otherwise and
creates nothing) and that the image fits the bound on the file. Every inductive invariant was first
checked by TLC at the bounds of its component's run.

Only model-checked, and why:

- `EventuallyPaused`, `LockReleased`, `EveryRecordMarked`, `Served`: fairness is
  outside the prover.
- `RunningNotFrozen`, and `AllCompensated` for a task with an idle timer or
  without a cgroup: what races with the idle callback takes no lock, and they
  hold for the kinds of request and the task settings of their runs and not for
  all (section 5).

## 5. Disagreements found

Each is a finding in PROJECT.json that quotes the text it contradicts. The runs
show what the code does keep; a finding is either an exception written into a
property, or a stronger property that TLC refutes when it is added to the cfg.

Stronger properties, stated in the modules and refuted:

- `ActsOnOwnTask` (`Pool`, two tasks): `SuspendByTask` may suspend a sandbox that
  was recycled for another task.
- `StoreKept` (`Gate`): an unreadable approvals.json is replaced.
- `Chained` (`Ledger`): an append inside an `Open` breaks the chain.
- `GuestAddressUnique` (`Launch` with `MCBridgeSpecOf`): two processes give two
  guests on one bridge the same address.
- `CloseAlwaysEnds` (`Vhost`): close wakes the kick descriptor it holds now,
  not the replaced one its pump waits on.
- `RollbackRestores` (`Snapshots`): a snapshot is an empty overlay on the live
  disk, so what the guest writes later is in it.

Constants or kinds that make a checked property fail:

- "exec" among the `Kinds` of `TaskHandlers.cfg` with `AutoResume`: activity thaws
  a deep-paused task instead of restoring it (`RunningIsAlive`).
- `LaunchPath` "StartTask" in `TaskHandlers.cfg`: the launcher overwrites a deep
  pause (`DeepPauseSurvives`).
- "resume" among the `Kinds` of the idling task of `MCTask`: the resume handler
  asks `IsDeepPaused` and `Resume` loads the state again; a deep pause by the idle
  callback in between is thawed instead of restored (`RunningIsAlive`).
- `MaxFaults` 2 in `TaskHandlers.cfg`: a re-freeze that fails after the save
  failed has "no remedy at this layer" (`SuspendedIsFrozen`).
- "pause" among the `Kinds` of `TaskAll.cfg`: a manual pause that races the idle
  callback ends Running without a timer (`RunningIsWatched`), or Suspended and
  thawed (`SuspendedIsFrozen`); a resume that loads before `BalloonPause` saves
  its marker leaves memory squeezed (`RunningIsCharged`).
- `Undurable` in `PoolAll.cfg`: `fsjson.Write` may report `ErrDurability` after
  its rename (`MirrorsStore`).
- `Overlap` in `LaunchAll.cfg`: launching one id twice frees the uid range of a
  running guest (`DisjointRanges`).

Exceptions written into the properties:

- Task: a failed criu restore leaves Resuming on disk, which no resume accepts
  (`NotStuckResuming`). The criu dump ends the guest before the deep pause is saved:
  a `WaitExit` that loads in between overwrites it (`DeepPauseSurvives`), and a save
  that fails leaves Running without a guest (`RunningIsAlive`, `lost`). A deep resume
  does not thaw the cgroup that the deep pause froze (`RunningIsThawed`, `unthawed`).
  The watchdog's Destroy may be overwritten by a callback
  that saves the state it loaded earlier.
- Gate: `Create` and `Decide` return an error but keep the change when
  approvals.json cannot be written.
- Ledger: `Verify` may report truncation when the ledger grows under it, and a
  stalled flush may put back an older watermark.
- Launch: a failed create or chown of the overlay, a failed chown of the vhost
  socket and a failed fsync of uidmap.json leak what was just made; clean-ups that
  fail only warn (`left`); a failed write or a death right after truncating
  uidmap.json leaves an empty table, and ranges of live guests are handed out
  again (`wiped`); errors of `SaveState` are dropped (`unsaved`);
  the port registry is read once per process and written back whole; a degraded
  jail has no barrier, so the limits come after the guest has started.
- Disk: without preallocation the layout does not count the L2 tables that are
  added later when it sizes the refcount table. `RefcountTableSuffices` states
  what the comment promises and no run checks it: it holds of some sizes and not
  of others. With Size = 18, MaxRun = 18, HostClusters = 30, MaxOps = 1 it
  fails.
- Vhost: after SET_MEM_TABLE the ring slices point into the old table until the
  next SET_VRING_ADDR (`RingMapped`); a queue that is set up again starts with
  the old used index, so that the guest reads stale answers and a write can be
  applied twice (`AnsweredOnce` excepts such queues).
- Snapshots: a deletion that has passed its guard can overtake a clone; a clone
  whose state cannot be saved leaves its marker, and one whose removal fails a
  directory that answers "already exists"; rollback forgets the process. A snapshot
  is listed without its copy of the state when state.json cannot be read (`bare`),
  and without the disk when Stat fails; a removal that stops midway leaves it
  listed with some of its files (`cut`), and a rollback then takes the missing
  overlay for a snapshot without a disk.
- Volumes: each request has its own engine, so a snapshot or clone can branch
  from an image that is being deleted, and what no longer opens does not protect
  the image it is on (`raced`, `crossed`); a failed create leaves its file, so POST
  and clone leave an image without a record, and errors of their undo are dropped
  (`crossed`); counts are kept per volume id and process, not per driver and node,
  and a failed write of the credentials or a death in `Attach` leaves the file
  (`spoiled`).
- Egress: a raw CONNECT tunnel is untracked as soon as its handler returns;
  spliced uploads and chunked bodies in an interception are not billed; deny
  rules also land on the flat block list; what a guest pipelines behind its CONNECT
  is forwarded and not billed (`early`); sweep and an answer that race leave a map
  entry without its table entry, map writes that fail are only logged, a map holds
  1024 entries where a table may hold 4096, and `agentpvm network whitelist add`
  writes what no table knows (`adrift`).
- Containment: a corrupt revocation file is an empty one (`narrowed`); a
  controller built before the broker has none for good; a task outside a cgroup
  is not frozen; an empty key file stops every later start.

## 6. Not modelled

Templates (a record and external build commands; planned), the artifact gate
(independent pure verifiers), image pulls, specification parsing, API
authentication, the guest file and process API, collectors, archives, overlay
mounts, logging, the command line, SDK, web UI and the eBPF programs. Of the
modelled parts: wire formats, signatures, retention by age, the data plane's
own maps and bridge set-up; see the notes under `components`.

## 7. Plan

1. Done: task control, pool, approval gate, audit ledger, task launch; images
   with their refinement, block backend, snapshots, volumes, DNS learning and
   egress gateway, broker and incidents.
2. Done: the proofs of section 4.
3. An abstract specification of pausing (who may commit a pause) that
   `TaskControl` implements; templates and their promotion from snapshots.
