-------------------------------- MODULE Pool --------------------------------
(***************************************************************************)
(* internal/pool: the warm pool and the tenants' quotas.                   *)
(*                                                                         *)
(* Every section under m.mu is one step, the write of pool.json included.  *)
(* Factory and Destroyer run without the lock, so a goroutine p has a      *)
(* program counter th[p].pc that says which unlocked call it is in.  The   *)
(* pool is a function over all sandbox ids, "absent" marking the ids that  *)
(* are not in the slice: which ready sandbox of a template is handed out   *)
(* is the only thing the order of the slice decides.                       *)
(***************************************************************************)
EXTENDS Integers, FiniteSets

CONSTANTS
    Ids,          \* sandbox ids Factory may return
    Tenants, Tasks, Templates,
    CPU(_),       \* a template's cpus
    MemMB(_),     \* a template's memory, as parseMemMB reads it
    Quotas,       \* quotas a tenant may be given
    DefaultQuota,
    Capacity,
    Procs,        \* goroutines that call the manager
    MaxWarm,      \* bound: the n of Warm
    MaxTime,      \* bound: ticks of the clock
    Hour,         \* ticks in the hourly window
    MaxFaults,    \* bound: failures of Factory, Destroyer and the store
    MaxRestarts,  \* bound: restarts of the process
    Undurable,    \* the store may fail after its rename (fsjson.ErrDurability)
    None          \* no tenant, task, template, quota or id

Quota == [conc: Nat, cpu: Nat, mem: Nat, rate: Nat]

ASSUME PoolAssumption ==
    /\ IsFiniteSet(Ids) /\ None \notin Ids /\ None \notin Tenants
    /\ None \notin Tasks /\ None \notin Templates /\ None \notin Quotas
    /\ \A t \in Templates : CPU(t) \in Nat /\ MemMB(t) \in Nat
    /\ Quotas \subseteq Quota /\ DefaultQuota \in Quotas
    /\ Capacity \in Nat /\ MaxWarm \in Nat /\ MaxTime \in Nat /\ Hour \in Nat \ {0}
    /\ MaxFaults \in Nat /\ MaxRestarts \in Nat /\ Undurable \in BOOLEAN

VARIABLES
    pool,      \* the sandboxes the manager lists
    quotas,    \* tenant -> quota
    books,     \* tenant -> running, cpu, mem and the hourly starts
    store,     \* pool.json
    mirrored,  \* persistPath # ""
    pending,   \* pendingCleanups
    sweeping,  \* cleanupSweeping
    live,      \* sandboxes that exist on the host
    made,      \* ids Factory has returned
    reported,  \* ids whose failed teardown Release reported to its caller
    th,        \* the goroutines
    clock, faults, restarts

vars == <<pool, quotas, books, store, mirrored, pending, sweeping, live, made, reported,
          th, clock, faults, restarts>>
ledgers == <<pool, quotas, books, store>>
host    == <<live, made>>
queue   == <<pending, sweeping>>
misc    == <<mirrored, reported, clock, restarts>>

Times == 0 .. MaxTime

Sandbox == [state: {"absent", "ready", "claimed", "paused"}, tmpl: Templates \cup {None},
            task: Tasks \cup {None}, tenant: Tenants \cup {None},
            cpu: Nat, mem: Nat, reserved: Nat, at: Times]

Absent == [state |-> "absent", tmpl |-> None, task |-> None, tenant |-> None,
           cpu |-> 0, mem |-> 0, reserved |-> 0, at |-> 0]

Books == [running: Nat, cpu: Nat, mem: Nat, hourly: [Times -> Nat]]
NoBooks == [running |-> 0, cpu |-> 0, mem |-> 0, hourly |-> [t \in Times |-> 0]]

Thread == [pc: {"idle", "make", "commit", "warm", "wmake", "wcommit", "reject", "drop",
                "suspend", "resume", "sweep"},
           tenant: Tenants \cup {None}, task: Tasks \cup {None}, tmpl: Templates \cup {None},
           id: Ids \cup {None}, left: 0 .. MaxWarm, ids: SUBSET Ids]

IdleThread == [pc |-> "idle", tenant |-> None, task |-> None, tmpl |-> None,
               id |-> None, left |-> 0, ids |-> {}]

NoQuotas == [t \in Tenants |-> None]
EmptyPool == [i \in Ids |-> Absent]

\* EnablePersistence found no store.
Init ==
    /\ pool = EmptyPool
    /\ quotas = NoQuotas
    /\ books = [t \in Tenants |-> NoBooks]
    /\ store = [pool |-> EmptyPool, quotas |-> NoQuotas]
    /\ mirrored = TRUE
    /\ pending = {} /\ sweeping = FALSE
    /\ live = {} /\ made = {} /\ reported = {}
    /\ th = [p \in Procs |-> IdleThread]
    /\ clock = 0 /\ faults = 0 /\ restarts = 0

-----------------------------------------------------------------------------
(* Accounting: pure functions of one tenant's books. *)

Monus(a, b) == IF a > b THEN a - b ELSE 0

\* The sum of a function's values, as the number of their units.
Units(f) == UNION {{i} \X (1 .. f[i]) : i \in DOMAIN f}
Total(f) == Cardinality(Units(f))

memExceeded(limit, used, want) == want > limit - used

pruneHourly(b) == [b EXCEPT !.hourly = [t \in Times |-> IF t > clock - Hour THEN @[t] ELSE 0]]

Started(b) == Total(b.hourly)

accountClaim(b, tmpl) ==
    [b EXCEPT !.running = @ + 1, !.cpu = @ + CPU(tmpl), !.mem = @ + MemMB(tmpl),
              !.hourly[clock] = @ + 1]

rollbackClaim(b, tmpl) ==
    [b EXCEPT !.running = Monus(@, 1), !.cpu = Monus(@, CPU(tmpl)), !.mem = Monus(@, MemMB(tmpl)),
              !.hourly[clock] = Monus(@, 1)]

\* A real release keeps the hourly start.
releaseQuota(b, s) ==
    [b EXCEPT !.running = Monus(@, 1), !.cpu = Monus(@, s.cpu), !.mem = Monus(@, s.mem)]

rollbackRelease(b, s) ==
    [b EXCEPT !.running = @ + 1, !.cpu = @ + s.cpu, !.mem = @ + s.mem]

\* A missing quota reads as the default.
QuotaOf(tenant) == IF quotas[tenant] = None THEN DefaultQuota ELSE quotas[tenant]

Exceeds(q, b, tmpl) ==
    \/ Started(b) >= q.rate
    \/ b.running >= q.conc
    \/ b.cpu + CPU(tmpl) > q.cpu
    \/ memExceeded(q.mem, b.mem, MemMB(tmpl))

Members == {i \in Ids : pool[i].state # "absent"}
AtCapacity == Cardinality(Members) >= Capacity

-----------------------------------------------------------------------------
(* The store, Factory and Destroyer. *)

Works == UNCHANGED faults
Fails == faults < MaxFaults /\ faults' = faults + 1

\* persistLocked: ok is what it returns for the pool pl and the quotas qs.
\* fsjson.Write may also report an error after its rename has committed.
persistLocked(pl, qs, ok) ==
    LET written == [pool |-> pl, quotas |-> qs] IN
    \/ ok /\ Works /\ store' = IF mirrored THEN written ELSE store
    \/ ~ok /\ mirrored /\ Fails /\ UNCHANGED store
    \/ ~ok /\ mirrored /\ Undurable /\ Fails /\ store' = written

\* Factory(tmpl) either fails or returns an id never seen before.
Factory(id) == id \in Ids \ made /\ Works /\ live' = live \cup {id} /\ made' = made \cup {id}
FactoryFails == Fails /\ UNCHANGED host

Destroyer(id) == Works /\ live' = live \ {id}

At(p, label) == th[p].pc = label
Goto(p, label) == th' = [th EXCEPT ![p].pc = label]
Return(p) == th' = [th EXCEPT ![p] = IdleThread]

-----------------------------------------------------------------------------
(* Claim. *)

claimed(tenant, tmpl, task) ==
    [state |-> "claimed", tmpl |-> tmpl, task |-> task, tenant |-> tenant,
     cpu |-> CPU(tmpl), mem |-> MemMB(tmpl), reserved |-> 0, at |-> clock]
ready(tmpl) == [Absent EXCEPT !.state = "ready", !.tmpl = tmpl]

\* Put a claimed sandbox into the pool, account for it and persist; a failed
\* persist rolls both back.
Bind(id, b, tenant, tmpl, task, ok) ==
    LET bound  == [pool EXCEPT ![id] = claimed(tenant, tmpl, task)]
        billed == accountClaim(b, tmpl)
    IN  /\ persistLocked(bound, quotas', ok)
        /\ pool' = IF ok THEN bound ELSE pool
        /\ books' = [books EXCEPT ![tenant] = IF ok THEN billed ELSE rollbackClaim(billed, tmpl)]

\* Phase 1: the quota check, then a warm sandbox, or leave to call Factory.
claimPhase1(p, tenant, tmpl, task) ==
    LET b     == pruneHourly(books[tenant])
        warm  == {i \in Ids : pool[i].state = "ready" /\ pool[i].tmpl = tmpl}
        quiet == /\ books' = [books EXCEPT ![tenant] = b]
                 /\ UNCHANGED <<pool, store, faults>>
    IN
    /\ At(p, "idle")
    /\ quotas' = [quotas EXCEPT ![tenant] = QuotaOf(tenant)]
    /\ \/ Exceeds(QuotaOf(tenant), b, tmpl) /\ quiet /\ UNCHANGED th
       \/ /\ ~Exceeds(QuotaOf(tenant), b, tmpl)
          /\ \E id \in warm, ok \in BOOLEAN : Bind(id, b, tenant, tmpl, task, ok)
          /\ UNCHANGED th
       \/ /\ ~Exceeds(QuotaOf(tenant), b, tmpl) /\ warm = {} /\ quiet
          /\ IF AtCapacity THEN UNCHANGED th
             ELSE th' = [th EXCEPT ![p].pc = "make", ![p].tenant = tenant,
                                   ![p].tmpl = tmpl, ![p].task = task]
    /\ UNCHANGED <<host, queue, misc>>

\* Phase 2: Factory, without the lock.
claimPhase2(p) ==
    /\ At(p, "make")
    /\ \/ \E id \in Ids : Factory(id) /\ th' = [th EXCEPT ![p].pc = "commit", ![p].id = id]
       \/ FactoryFails /\ Return(p)
    /\ UNCHANGED <<ledgers, queue, misc>>

\* Mutant: phase 3 trusts the quota check of phase 1.
claimPhase3_NoRecheck(p) ==
    LET self == th[p] IN
    /\ At(p, "commit")
    /\ UNCHANGED quotas
    /\ \/ /\ AtCapacity /\ Goto(p, "reject")
          /\ UNCHANGED <<pool, books, store, faults>>
       \/ /\ ~AtCapacity
          /\ \E ok \in BOOLEAN :
               /\ Bind(self.id, books[self.tenant], self.tenant, self.tmpl, self.task, ok)
               /\ IF ok THEN Return(p) ELSE Goto(p, "reject")
    /\ UNCHANGED <<host, queue, misc>>

\* Phase 3: the latest quota and a fresh clock; what is refused is destroyed.
claimPhase3(p) ==
    LET self == th[p]
        b    == pruneHourly(books[self.tenant])
    IN
    /\ At(p, "commit")
    /\ UNCHANGED quotas
    /\ \/ /\ AtCapacity /\ Goto(p, "reject")
          /\ UNCHANGED <<pool, books, store, faults>>
       \/ /\ ~AtCapacity /\ Exceeds(QuotaOf(self.tenant), b, self.tmpl)
          /\ Goto(p, "reject")
          /\ books' = [books EXCEPT ![self.tenant] = b]
          /\ UNCHANGED <<pool, store, faults>>
       \/ /\ ~AtCapacity /\ ~Exceeds(QuotaOf(self.tenant), b, self.tmpl)
          /\ \E ok \in BOOLEAN :
               /\ Bind(self.id, b, self.tenant, self.tmpl, self.task, ok)
               /\ IF ok THEN Return(p) ELSE Goto(p, "reject")
    /\ UNCHANGED <<host, queue, misc>>

\* Mutant: a failed teardown is discarded.
destroy_Discards(p) ==
    /\ At(p, "reject")
    /\ \/ Destroyer(th[p].id)
       \/ Fails /\ UNCHANGED live
    /\ Return(p)
    /\ UNCHANGED <<ledgers, made, queue, misc>>

\* destroy: a teardown that fails is queued for RetryCleanups.
destroy(p) ==
    /\ At(p, "reject")
    /\ \/ Destroyer(th[p].id) /\ UNCHANGED pending
       \/ Fails /\ UNCHANGED live /\ pending' = pending \cup {th[p].id}
    /\ Return(p)
    /\ UNCHANGED <<ledgers, made, sweeping, misc>>

-----------------------------------------------------------------------------
(* Warm, SetQuota, RetryCleanups. *)

Warm(p, tmpl, n) ==
    /\ At(p, "idle")
    /\ th' = [th EXCEPT ![p].pc = "warm", ![p].tmpl = tmpl, ![p].left = n]
    /\ UNCHANGED <<ledgers, host, queue, misc, faults>>

WarmCheck(p) ==
    /\ At(p, "warm")
    /\ IF th[p].left = 0 \/ AtCapacity THEN Return(p) ELSE Goto(p, "wmake")
    /\ UNCHANGED <<ledgers, host, queue, misc, faults>>

NextWarm(p) == th' = [th EXCEPT ![p].pc = "warm", ![p].left = @ - 1, ![p].id = None]

WarmMake(p) ==
    /\ At(p, "wmake")
    /\ \/ \E id \in Ids : Factory(id) /\ th' = [th EXCEPT ![p].pc = "wcommit", ![p].id = id]
       \/ FactoryFails /\ NextWarm(p)
    /\ UNCHANGED <<ledgers, queue, misc>>

\* Mutant: capacity is only checked before Factory.
WarmCommit_NoRecheck(p) ==
    LET filled == [pool EXCEPT ![th[p].id] = ready(th[p].tmpl)] IN
    /\ At(p, "wcommit")
    /\ \E ok \in BOOLEAN :
         /\ persistLocked(filled, quotas, ok)
         /\ pool' = IF ok THEN filled ELSE pool
         /\ IF ok THEN NextWarm(p) ELSE Goto(p, "reject")
    /\ UNCHANGED <<quotas, books, host, queue, misc>>

WarmCommit(p) ==
    LET filled == [pool EXCEPT ![th[p].id] = ready(th[p].tmpl)] IN
    /\ At(p, "wcommit")
    /\ \/ AtCapacity /\ Goto(p, "reject") /\ UNCHANGED <<pool, store, faults>>
       \/ /\ ~AtCapacity
          /\ \E ok \in BOOLEAN :
               /\ persistLocked(filled, quotas, ok)
               /\ pool' = IF ok THEN filled ELSE pool
               /\ IF ok THEN NextWarm(p) ELSE Goto(p, "reject")
    /\ UNCHANGED <<quotas, books, host, queue, misc>>

SetQuota(tenant, q) ==
    LET set == [quotas EXCEPT ![tenant] = q] IN
    /\ \E ok \in BOOLEAN :
         /\ persistLocked(pool, set, ok)
         /\ quotas' = IF ok THEN set ELSE quotas
    /\ UNCHANGED <<pool, books, host, queue, misc, th>>

\* RetryCleanups: one sweep at a time over a snapshot of the queue.
SweepStart(p) ==
    /\ At(p, "idle") /\ ~sweeping
    /\ sweeping' = TRUE
    /\ th' = [th EXCEPT ![p].pc = "sweep", ![p].ids = pending]
    /\ UNCHANGED <<ledgers, host, pending, misc, faults>>

SweepOne(p, id) ==
    /\ At(p, "sweep") /\ id \in th[p].ids
    /\ \/ Destroyer(id) /\ pending' = pending \ {id}
       \/ Fails /\ UNCHANGED <<live, pending>>
    /\ th' = [th EXCEPT ![p].ids = @ \ {id}]
    /\ UNCHANGED <<ledgers, made, sweeping, misc>>

SweepEnd(p) ==
    /\ At(p, "sweep") /\ th[p].ids = {}
    /\ sweeping' = FALSE
    /\ Return(p)
    /\ UNCHANGED <<ledgers, host, pending, misc, faults>>

-----------------------------------------------------------------------------
(* Release, Suspend, Resume. *)

Refund(s) == IF s.tenant = None THEN books
             ELSE [books EXCEPT ![s.tenant] = releaseQuota(books[s.tenant], s)]
Recharge(s, bs) == IF s.tenant = None THEN bs
                   ELSE [bs EXCEPT ![s.tenant] = rollbackRelease(bs[s.tenant], s)]

\* Mutant: a failed release does not charge the tenant again.
Release_NoRecharge(p, id, recycle) ==
    LET s    == pool[id]
        left == [pool EXCEPT ![id] = IF recycle THEN ready(s.tmpl) ELSE Absent]
    IN
    /\ At(p, "idle") /\ id \in Members
    /\ \E ok \in BOOLEAN :
         /\ persistLocked(left, quotas, ok)
         /\ pool' = IF ok THEN left ELSE pool
         /\ books' = Refund(s)
         /\ th' = IF ok /\ ~recycle THEN [th EXCEPT ![p].pc = "drop", ![p].id = id] ELSE th
    /\ UNCHANGED <<quotas, host, queue, misc>>

\* Recycle the sandbox, or drop it and destroy it without the lock.
Release(p, id, recycle) ==
    LET s    == pool[id]
        left == [pool EXCEPT ![id] = IF recycle THEN ready(s.tmpl) ELSE Absent]
    IN
    /\ At(p, "idle") /\ id \in Members
    /\ \E ok \in BOOLEAN :
         /\ persistLocked(left, quotas, ok)
         /\ pool' = IF ok THEN left ELSE pool
         /\ books' = IF ok THEN Refund(s) ELSE Recharge(s, Refund(s))
         /\ th' = IF ok /\ ~recycle THEN [th EXCEPT ![p].pc = "drop", ![p].id = id] ELSE th
    /\ UNCHANGED <<quotas, host, queue, misc>>

\* A failed teardown is returned to the caller, not queued.
ReleaseDestroy(p) ==
    /\ At(p, "drop")
    /\ \/ Destroyer(th[p].id) /\ UNCHANGED reported
       \/ Fails /\ UNCHANGED live /\ reported' = reported \cup {th[p].id}
    /\ Return(p)
    /\ UNCHANGED <<ledgers, made, queue, mirrored, clock, restarts>>

\* SuspendByTask and ResumeByTask: sandboxIDForTask, then a second section.
sandboxIDForTask(p, task, label) ==
    /\ At(p, "idle")
    /\ \E id \in Ids : /\ pool[id].task = task
                       /\ th' = [th EXCEPT ![p].pc = label, ![p].id = id, ![p].task = task]
    /\ UNCHANGED <<ledgers, host, queue, misc, faults>>

\* A change s of the sandbox and a change b of the tenant's books, both
\* undone by a failed persist.  Undoing restores the exact amounts: none of
\* them was cut off at zero.
Rebook(id, s, b) ==
    LET changed == [pool EXCEPT ![id] = s] IN
    \E ok \in BOOLEAN :
      /\ persistLocked(changed, quotas, ok)
      /\ pool' = IF ok THEN changed ELSE pool
      /\ books' = IF ok THEN [books EXCEPT ![s.tenant] = b] ELSE books

Suspend(p) ==
    LET s == pool[th[p].id]
        b == books[s.tenant]
    IN
    /\ At(p, "suspend")
    /\ \/ /\ s.state = "claimed"
          /\ Rebook(th[p].id, [s EXCEPT !.state = "paused", !.mem = 0, !.reserved = s.mem],
                    [b EXCEPT !.mem = Monus(@, s.mem)])
       \/ s.state # "claimed" /\ UNCHANGED <<pool, books, store, faults>>
    /\ Return(p)
    /\ UNCHANGED <<quotas, host, queue, misc>>

Resume(p) ==
    LET s       == pool[th[p].id]
        b       == books[s.tenant]
        refused == s.reserved > 0 /\ memExceeded(QuotaOf(s.tenant).mem, b.mem, s.reserved)
    IN
    /\ At(p, "resume")
    /\ \/ /\ s.state = "paused" /\ ~refused
          /\ Rebook(th[p].id, [s EXCEPT !.state = "claimed", !.mem = s.reserved, !.reserved = 0],
                    [b EXCEPT !.mem = @ + s.reserved])
       \/ /\ s.state = "paused" => refused
          /\ UNCHANGED <<pool, books, store, faults>>
    /\ Return(p)
    /\ UNCHANGED <<quotas, host, queue, misc>>

-----------------------------------------------------------------------------
(* The clock, and a restart with EnablePersistence. *)

Tick == /\ clock < MaxTime
        /\ clock' = clock + 1
        /\ UNCHANGED <<ledgers, host, queue, mirrored, reported, restarts, th, faults>>

\* The books of a tenant as EnablePersistence derives them from the entries:
\* a paused sandbox holds its slot and its cpus but no memory.
rebuilt(pl, tenant) ==
    LET bound == {i \in Ids : pl[i].tenant = tenant /\ pl[i].state \in {"claimed", "paused"}} IN
    [running |-> Cardinality(bound),
     cpu     |-> Total([i \in Ids |-> IF i \in bound THEN pl[i].cpu ELSE 0]),
     mem     |-> Total([i \in Ids |-> IF i \in bound /\ pl[i].state = "claimed" THEN pl[i].mem ELSE 0]),
     hourly  |-> [t \in Times |-> Cardinality({i \in bound : pl[i].at = t})]]

\* Everything in memory is lost.  A first persist that fails rolls the
\* restore back and leaves the manager without a store.
Restart ==
    /\ restarts < MaxRestarts
    /\ restarts' = restarts + 1
    /\ \/ /\ Works /\ mirrored' = TRUE
          /\ pool' = store.pool /\ quotas' = store.quotas
          /\ books' = [t \in Tenants |-> rebuilt(store.pool, t)]
       \/ /\ Fails /\ mirrored' = FALSE
          /\ pool' = EmptyPool /\ quotas' = NoQuotas
          /\ books' = [t \in Tenants |-> NoBooks]
    /\ pending' = {} /\ sweeping' = FALSE
    /\ th' = [p \in Procs |-> IdleThread]
    /\ UNCHANGED <<store, host, reported, clock>>

-----------------------------------------------------------------------------

Step(p) ==
    \/ \E n \in Tenants, t \in Templates, k \in Tasks : claimPhase1(p, n, t, k)
    \/ claimPhase2(p) \/ claimPhase3(p) \/ destroy(p)
    \/ \E t \in Templates, n \in 1 .. MaxWarm : Warm(p, t, n)
    \/ WarmCheck(p) \/ WarmMake(p) \/ WarmCommit(p)
    \/ SweepStart(p) \/ (\E id \in Ids : SweepOne(p, id)) \/ SweepEnd(p)
    \/ \E id \in Ids, recycle \in BOOLEAN : Release(p, id, recycle)
    \/ ReleaseDestroy(p)
    \/ \E k \in Tasks, label \in {"suspend", "resume"} : sandboxIDForTask(p, k, label)
    \/ Suspend(p) \/ Resume(p)

Next == \/ \E p \in Procs : Step(p)
        \/ \E n \in Tenants, q \in Quotas : SetQuota(n, q)
        \/ Tick \/ Restart

Spec == Init /\ [][Next]_vars

-----------------------------------------------------------------------------
(* Properties. *)

\* Every variable has its type.
TypeOK ==
    /\ pool \in [Ids -> Sandbox]
    /\ quotas \in [Tenants -> Quotas \cup {None}]
    /\ books \in [Tenants -> Books]
    /\ store \in [pool: [Ids -> Sandbox], quotas: [Tenants -> Quotas \cup {None}]]
    /\ mirrored \in BOOLEAN /\ sweeping \in BOOLEAN
    /\ pending \subseteq Ids /\ reported \subseteq Ids
    /\ live \subseteq made /\ made \subseteq Ids
    /\ th \in [Procs -> Thread]
    /\ clock \in Times /\ faults \in 0 .. MaxFaults /\ restarts \in 0 .. MaxRestarts

BoundTo(t) == {i \in Ids : pool[i].tenant = t}

\* The counters a claim is judged by are the sums over the sandboxes the pool
\* lists, through every rollback, race and restart (accountClaim,
\* rollbackClaimLocked, rollbackReleaseLocked, EnablePersistence).
CountersMatch ==
    \A t \in Tenants :
        /\ books[t].running = Cardinality(BoundTo(t))
        /\ books[t].cpu = Total([i \in Ids |-> IF i \in BoundTo(t) THEN pool[i].cpu ELSE 0])
        /\ books[t].mem = Total([i \in Ids |-> IF i \in BoundTo(t) THEN pool[i].mem ELSE 0])

\* Claims and warm-ups that left the lock for Factory together never push the
\* pool over its capacity (the rechecks of claim and Warm).
CapacityHeld == Cardinality(Members) <= Capacity

\* Whatever raises a tenant's usage stays within the quota in force at that
\* moment, not the one read before Factory ran (claim, phase 3; Resume).
QuotaAtCommit ==
    [][\A t \in Tenants :
        LET b == books[t]  c == books'[t]  q == QuotaOf(t) IN
        restarts' = restarts =>
          /\ c.running > b.running => c.running <= q.conc /\ c.cpu <= q.cpu /\ Started(c) <= q.rate
          /\ c.mem > b.mem => c.mem <= q.mem]_vars

\* The ids a goroutine carries across an unlocked Factory or Destroyer call.
Holds(p) == th[p].pc \in {"commit", "wcommit", "reject", "drop"}
InFlight == {th[p].id : p \in {x \in Procs : Holds(x)}}

\* Until a restart, no sandbox exists that nobody will ever tear down: it is
\* in the pool, in some goroutine's hands, queued for RetryCleanups, or its
\* failed teardown was reported to the caller of Release (destroy:
\* "gets retried instead of leaking the sandbox with no trace").
NoLeak == restarts = 0 => live \subseteq Members \cup InFlight \cup pending \cup reported

\* The Destroyer never runs for a sandbox the pool still lists: "the
\* destroyer must not run for a sandbox the registry still owns" (Release).
DestroyedNotListed ==
    /\ \A p \in Procs : th[p].pc \in {"reject", "drop"} => th[p].id \notin Members
    /\ pending \cap Members = {}

\* "Memory mirrors the durable store": what is in pool.json is what the
\* manager acts on, so a restart resurrects nothing (claim, Release, Suspend).
MirrorsStore == mirrored => store.pool = pool

\* SuspendByTask and ResumeByTask act on the sandbox "currently bound to
\* taskID" (pool/manager.go, SuspendByTask).
ActsOnOwnTask ==
    [][\A p \in Procs : th[p].pc \in {"suspend", "resume"} /\ th'[p].pc = "idle"
          /\ pool'[th[p].id] # pool[th[p].id] /\ restarts' = restarts
          => pool[th[p].id].task = th[p].task]_vars

\* The pool stays within its types and its capacity.
Bounded == TypeOK /\ CapacityHeld

\* What exists on the host, what the manager lists and what pool.json says are
\* about the same sandboxes: none leaks, none is destroyed while listed, none
\* is resurrected by a restart (destroy, Release, persistLocked).
SandboxesKept == NoLeak /\ DestroyedNotListed /\ MirrorsStore
=============================================================================
