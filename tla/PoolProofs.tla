----------------------------- MODULE PoolProofs -----------------------------
(***************************************************************************)
(* Theorems about Pool, for any number of goroutines, sandboxes, tenants,  *)
(* templates, quotas, ticks, faults and restarts.                          *)
(*                                                                         *)
(* The invariant: the pool in memory and the one in pool.json are both     *)
(* within capacity, and exactly their claimed and paused entries have a    *)
(* tenant; the books are the sums over the pool in memory, so that         *)
(* nothing a release takes back is cut off at zero; and a sandbox that a   *)
(* goroutine carries over an unlocked call is its own: no pool, no cleanup *)
(* and no other goroutine knows it.                                        *)
(***************************************************************************)
EXTENDS Pool, FiniteSetTheorems, FunctionTheorems, TLAPS

Listed(pl) == {i \in Ids : pl[i].state # "absent"}

\* A tenant's part of a pool.
Owned(pl, t) == {i \in Ids : pl[i].tenant = t}
CpuOf(pl, t) == [i \in Ids |-> IF pl[i].tenant = t THEN pl[i].cpu ELSE 0]
MemOf(pl, t) == [i \in Ids |-> IF pl[i].tenant = t THEN pl[i].mem ELSE 0]

Entry(s) ==
    /\ s.state \in {"absent", "ready"} <=> s.tenant = None
    /\ s.state = "paused" => s.mem = 0

\* A pool, in memory or in pool.json.
SlotsOK(pl) ==
    /\ pl \in [Ids -> Sandbox]
    /\ \A i \in Ids : Entry(pl[i])
    /\ Listed(pl) \subseteq made
    /\ Cardinality(Listed(pl)) <= Capacity

\* The books of the tenants are the sums over a pool.
Booked(bs, pl) ==
    \A t \in Tenants :
        /\ bs[t].running = Cardinality(Owned(pl, t))
        /\ bs[t].cpu = Total(CpuOf(pl, t))
        /\ bs[t].mem = Total(MemOf(pl, t))

\* What a goroutine knows across its unlocked calls.
Knows(x) ==
    /\ x.pc \in {"make", "commit"} => x.tenant \in Tenants /\ x.tmpl \in Templates /\ x.task \in Tasks
    /\ x.pc \in {"warm", "wmake", "wcommit"} => x.tmpl \in Templates
    /\ x.pc \in {"wmake", "wcommit"} => x.left > 0
    /\ x.pc \in {"suspend", "resume"} => x.id \in Ids

Carries(x) == x.pc \in {"commit", "wcommit", "reject", "drop"}

\* The sandboxes in flight are unknown to everybody else.
ThreadsOK ==
    /\ pending \subseteq made /\ pending \cap Members = {}
    /\ \A p \in Procs :
          /\ Knows(th[p])
          /\ Carries(th[p]) => th[p].id \in made /\ th[p].id \notin Members /\ th[p].id \notin pending
    /\ \A p, q \in Procs : Carries(th[p]) /\ Carries(th[q]) /\ th[p].id = th[q].id => p = q

\* Somebody will tear the sandbox down, or said that he could not.
Safe(id) ==
    \/ id \in Members \/ id \in pending \/ id \in reported
    \/ \E p \in Procs : Carries(th[p]) /\ th[p].id = id

Kept == restarts = 0 => \A id \in live : Safe(id)

IInv ==
    /\ TypeOK
    /\ SlotsOK(pool) /\ SlotsOK(store.pool) /\ Booked(books, pool)
    /\ ThreadsOK /\ Kept
    /\ Undurable = FALSE => MirrorsStore

\* What raises a tenant's usage stays within the quota in force.
WithinQuota ==
    \A t \in Tenants :
        LET b == books[t]  c == books'[t]  q == QuotaOf(t) IN
        restarts' = restarts =>
          /\ c.running > b.running => c.running <= q.conc /\ c.cpu <= q.cpu /\ Started(c) <= q.rate
          /\ c.mem > b.mem => c.mem <= q.mem

-----------------------------------------------------------------------------
(* Sums. *)

LEMMA InUnits ==
    ASSUME NEW D, NEW f \in [D -> Nat], NEW u
    PROVE  u \in Units(f) <=> \E i \in D : u \in {i} \X (1 .. f[i])
BY DEF Units

LEMMA UnitsFinite ==
    ASSUME NEW D, IsFiniteSet(D), NEW f \in [D -> Nat]
    PROVE  IsFiniteSet(Units(f)) /\ Total(f) \in Nat
<1> DEFINE T == {{i} \X (1 .. f[i]) : i \in D}
           g == [i \in D |-> {i} \X (1 .. f[i])]
<1>1. g \in Surjection(D, T)  BY DEF Surjection
<1>2. IsFiniteSet(T)  BY <1>1, FS_Surjection
<1>3. \A S \in T : IsFiniteSet(S)
  <2>1. SUFFICES ASSUME NEW i \in D  PROVE IsFiniteSet({i} \X (1 .. f[i]))  OBVIOUS
  <2>2. PICK n \in Int : n = f[i]  OBVIOUS
  <2>5. IsFiniteSet(1 .. n)  BY FS_Interval
  <2>3. IsFiniteSet({i}) /\ IsFiniteSet(1 .. f[i])  BY <2>2, <2>5, FS_Singleton
  <2>4. QED  BY <2>3, FS_Product
<1>4. IsFiniteSet(UNION T)  BY <1>2, <1>3, FS_UNION
<1>5. Units(f) = UNION T  BY DEF Units
<1>6. QED  BY <1>4, <1>5, FS_CardinalityType DEF Total

\* The units of one argument.
LEMMA Column ==
    ASSUME NEW j, NEW v \in Nat
    PROVE  IsFiniteSet({j} \X (1 .. v)) /\ Cardinality({j} \X (1 .. v)) = v
<1>1. IsFiniteSet({j}) /\ Cardinality({j}) = 1  BY FS_Singleton
<1>2. IsFiniteSet(1 .. v) /\ Cardinality(1 .. v) = v  BY FS_Interval
<1>3. IsFiniteSet({j} \X (1 .. v)) /\ Cardinality({j} \X (1 .. v)) = Cardinality({j}) * Cardinality(1 .. v)
  BY <1>1, <1>2, FS_Product
<1>4. QED  BY <1>1, <1>2, <1>3

\* A sum without one argument, and the sum with it.
LEMMA TotalSplit ==
    ASSUME NEW D, IsFiniteSet(D), NEW f \in [D -> Nat], NEW j \in D
    PROVE  LET R == {u \in Units(f) : u \notin {j} \X (1 .. f[j])}
           IN  IsFiniteSet(R) /\ Cardinality(R) \in Nat /\ Total(f) = Cardinality(R) + f[j]
<1> DEFINE C == {j} \X (1 .. f[j])
           R == {u \in Units(f) : u \notin C}
<1>1. IsFiniteSet(C) /\ Cardinality(C) = f[j]  BY Column
<1>2. IsFiniteSet(Units(f))  BY UnitsFinite
<1>3. R \in SUBSET Units(f)  OBVIOUS
<1>4. IsFiniteSet(R)  BY <1>2, <1>3, FS_Subset
<1>5. C \subseteq Units(f)  BY InUnits
<1>6. Units(f) = R \cup C /\ R \cap C = {}  BY <1>5
<1> HIDE DEF C, R
<1>7. Cardinality(R \cup C) = Cardinality(R) + Cardinality(C) - Cardinality(R \cap C)
  BY <1>1, <1>4, FS_Union
<1>8. Cardinality(R) \in Nat  BY <1>4, FS_CardinalityType
<1>9. Cardinality(R \cap C) = 0  BY <1>6, FS_EmptySet
<1>10. Total(f) = Cardinality(R) + f[j]  BY <1>1, <1>6, <1>7, <1>8, <1>9 DEF Total
<1>11. QED  BY <1>4, <1>8, <1>10 DEF R, C

\* One argument changes: so does the sum.
LEMMA TotalExcept ==
    ASSUME NEW D, IsFiniteSet(D), NEW f \in [D -> Nat], NEW g \in [D -> Nat], NEW j \in D,
           \A i \in D : i # j => g[i] = f[i]
    PROVE  Total(g) = (Total(f) - f[j]) + g[j] /\ f[j] <= Total(f) /\ Total(f) \in Nat /\ Total(g) \in Nat
<1> DEFINE R == {u \in Units(f) : u \notin {j} \X (1 .. f[j])}
           Q == {u \in Units(g) : u \notin {j} \X (1 .. g[j])}
<1>1. \A u : u \in R <=> \E i \in D : i # j /\ u \in {i} \X (1 .. f[i])  BY InUnits
<1>2. \A u : u \in Q <=> \E i \in D : i # j /\ u \in {i} \X (1 .. g[i])  BY InUnits
<1>3. R = Q  BY <1>1, <1>2
<1>4. Cardinality(R) \in Nat /\ Total(f) = Cardinality(R) + f[j]  BY TotalSplit
<1>5. Cardinality(Q) \in Nat /\ Total(g) = Cardinality(Q) + g[j]  BY TotalSplit
<1> HIDE DEF R, Q
<1>6. f[j] \in Nat /\ g[j] \in Nat  OBVIOUS
<1>7. QED  BY <1>3, <1>4, <1>5, <1>6

-----------------------------------------------------------------------------
(* Pools that differ in one entry. *)

Patched(q, pl, id, s) == q = [pl EXCEPT ![id] = s]

LEMMA SlotSums ==
    ASSUME NEW pl \in [Ids -> Sandbox], NEW id \in Ids, NEW s \in Sandbox, NEW t,
           NEW q, Patched(q, pl, id, s)
    PROVE  /\ Total(CpuOf(q, t)) = (Total(CpuOf(pl, t)) - (IF pl[id].tenant = t THEN pl[id].cpu ELSE 0))
                                   + (IF s.tenant = t THEN s.cpu ELSE 0)
           /\ Total(MemOf(q, t)) = (Total(MemOf(pl, t)) - (IF pl[id].tenant = t THEN pl[id].mem ELSE 0))
                                   + (IF s.tenant = t THEN s.mem ELSE 0)
           /\ Cardinality(Owned(q, t)) = (Cardinality(Owned(pl, t)) - (IF pl[id].tenant = t THEN 1 ELSE 0))
                                         + (IF s.tenant = t THEN 1 ELSE 0)
<1>0. q \in [Ids -> Sandbox] /\ q[id] = s /\ \A i \in Ids : i # id => q[i] = pl[i]
  BY DEF Patched
<1>1. IsFiniteSet(Ids)  BY PoolAssumption
<1>2. PICK v \in Nat : v = IF s.tenant = t THEN s.cpu ELSE 0  BY DEF Sandbox
<1>3. PICK w \in Nat : w = IF s.tenant = t THEN s.mem ELSE 0  BY DEF Sandbox
<1>4. CpuOf(pl, t) \in [Ids -> Nat] /\ MemOf(pl, t) \in [Ids -> Nat]
  BY DEF CpuOf, MemOf, Sandbox
<1>5. CpuOf(q, t) = [CpuOf(pl, t) EXCEPT ![id] = v]  BY <1>0, <1>2 DEF CpuOf
<1>6. MemOf(q, t) = [MemOf(pl, t) EXCEPT ![id] = w]  BY <1>0, <1>3 DEF MemOf
<1>7. Total(CpuOf(q, t)) = (Total(CpuOf(pl, t)) - CpuOf(pl, t)[id]) + v
  <2>1. PICK f \in [Ids -> Nat] : f = CpuOf(pl, t)  BY <1>4
  <2>2. PICK g \in [Ids -> Nat] : g = [f EXCEPT ![id] = v]  OBVIOUS
  <2>5. \A i \in Ids : i # id => g[i] = f[i]  BY <2>2
  <2>3. Total(g) = (Total(f) - f[id]) + g[id]  BY <1>1, <2>5, TotalExcept
  <2>4. QED  BY <1>5, <2>1, <2>2, <2>3
<1>8. Total(MemOf(q, t)) = (Total(MemOf(pl, t)) - MemOf(pl, t)[id]) + w
  <2>1. PICK f \in [Ids -> Nat] : f = MemOf(pl, t)  BY <1>4
  <2>2. PICK g \in [Ids -> Nat] : g = [f EXCEPT ![id] = w]  OBVIOUS
  <2>5. \A i \in Ids : i # id => g[i] = f[i]  BY <2>2
  <2>3. Total(g) = (Total(f) - f[id]) + g[id]  BY <1>1, <2>5, TotalExcept
  <2>4. QED  BY <1>6, <2>1, <2>2, <2>3
<1>9. CpuOf(pl, t)[id] = (IF pl[id].tenant = t THEN pl[id].cpu ELSE 0)  BY DEF CpuOf
<1>10. MemOf(pl, t)[id] = (IF pl[id].tenant = t THEN pl[id].mem ELSE 0)  BY DEF MemOf
<1>11. Cardinality(Owned(q, t)) = (Cardinality(Owned(pl, t)) - (IF pl[id].tenant = t THEN 1 ELSE 0))
                                  + (IF s.tenant = t THEN 1 ELSE 0)
  <2>1. Owned(pl, t) \in SUBSET Ids  BY DEF Owned
  <2>2. IsFiniteSet(Owned(pl, t)) /\ Cardinality(Owned(pl, t)) \in Nat
    BY <1>1, <2>1, FS_Subset, FS_CardinalityType
  <2>3. id \in Owned(pl, t) <=> pl[id].tenant = t  BY DEF Owned
  <2>4. CASE s.tenant = t
    <3>1. Owned(q, t) = Owned(pl, t) \cup {id}  BY <1>0, <2>4 DEF Owned
    <3>2. PICK O : O = Owned(pl, t)  OBVIOUS
    <3>3. Cardinality(O \cup {id}) = IF id \in O THEN Cardinality(O) ELSE Cardinality(O) + 1
      BY <2>2, <3>2, FS_AddElement
    <3>4. QED  BY <2>2, <2>3, <2>4, <3>1, <3>2, <3>3
  <2>5. CASE s.tenant # t
    <3>1. Owned(q, t) = Owned(pl, t) \ {id}  BY <1>0, <2>5 DEF Owned
    <3>2. PICK O : O = Owned(pl, t)  OBVIOUS
    <3>3. Cardinality(O \ {id}) = IF id \in O THEN Cardinality(O) - 1 ELSE Cardinality(O)
      BY <2>2, <3>2, FS_RemoveElement
    <3>4. QED  BY <2>2, <2>3, <2>5, <3>1, <3>2, <3>3
  <2>6. QED  BY <2>4, <2>5
<1>12. QED  BY <1>2, <1>3, <1>7, <1>8, <1>9, <1>10, <1>11

\* What an entry of a tenant costs is in the tenant's books.
LEMMA Covered ==
    ASSUME NEW pl \in [Ids -> Sandbox], NEW id \in Ids, NEW t, pl[id].tenant = t
    PROVE  /\ pl[id].cpu <= Total(CpuOf(pl, t)) /\ pl[id].mem <= Total(MemOf(pl, t))
           /\ Cardinality(Owned(pl, t)) >= 1
<1>1. IsFiniteSet(Ids)  BY PoolAssumption
<1>2. CpuOf(pl, t) \in [Ids -> Nat] /\ MemOf(pl, t) \in [Ids -> Nat]
  BY DEF CpuOf, MemOf, Sandbox
<1>3. CpuOf(pl, t)[id] <= Total(CpuOf(pl, t)) /\ MemOf(pl, t)[id] <= Total(MemOf(pl, t))
  <2>1. PICK f, g \in [Ids -> Nat] : f = CpuOf(pl, t) /\ g = MemOf(pl, t)  BY <1>2
  <2>2. f[id] <= Total(f) /\ g[id] <= Total(g)  BY <1>1, TotalExcept
  <2>3. QED  BY <2>1, <2>2
<1>4. CpuOf(pl, t)[id] = pl[id].cpu /\ MemOf(pl, t)[id] = pl[id].mem  BY DEF CpuOf, MemOf
<1>5. Owned(pl, t) \in SUBSET Ids /\ id \in Owned(pl, t)  BY DEF Owned
<1>6. IsFiniteSet(Owned(pl, t)) /\ Cardinality(Owned(pl, t)) \in Nat /\ Cardinality(Owned(pl, t)) # 0
  BY <1>1, <1>5, FS_Subset, FS_CardinalityType, FS_EmptySet
<1>7. QED  BY <1>3, <1>4, <1>6

LEMMA TotalZero ==
    ASSUME NEW D
    PROVE  Total([i \in D |-> 0]) = 0
<1>1. Units([i \in D |-> 0]) = {}  BY DEF Units
<1>2. QED  BY <1>1, FS_EmptySet DEF Total

\* One entry of a pool changes.
LEMMA SlotsChange ==
    ASSUME NEW pl, SlotsOK(pl), NEW id \in Ids, NEW s \in Sandbox, Entry(s),
           s.state = "absent" \/ id \in Listed(pl) \/ (id \in made /\ Cardinality(Listed(pl)) < Capacity)
    PROVE  SlotsOK([pl EXCEPT ![id] = s])
<1>0. pl \in [Ids -> Sandbox] /\ Listed(pl) \in SUBSET Ids /\ Capacity \in Nat
  BY PoolAssumption DEF SlotsOK, Listed
<1>1. PICK q : q = [pl EXCEPT ![id] = s]  OBVIOUS
<1>2. q \in [Ids -> Sandbox] /\ q[id] = s /\ \A i \in Ids : i # id => q[i] = pl[i]  BY <1>0, <1>1
<1>3. \A i \in Ids : Entry(q[i])  BY <1>2 DEF SlotsOK
<1>4. PICK L : L = Listed(pl)  OBVIOUS
<1>5. IsFiniteSet(L) /\ Cardinality(L) \in Nat /\ Cardinality(L) <= Capacity
  BY <1>0, <1>4, PoolAssumption, FS_Subset, FS_CardinalityType DEF SlotsOK
<1>6. CASE s.state = "absent"
  <2>1. Listed(q) = L \ {id}  BY <1>2, <1>4, <1>6 DEF Listed
  <2>2. Cardinality(L \ {id}) = IF id \in L THEN Cardinality(L) - 1 ELSE Cardinality(L)
    BY <1>5, FS_RemoveElement
  <2>3. Cardinality(L \ {id}) <= Capacity  BY <1>0, <1>5, <2>2
  <2>4. L \ {id} \subseteq made  BY <1>4 DEF SlotsOK
  <2>5. QED  BY <1>1, <1>2, <1>3, <2>1, <2>3, <2>4 DEF SlotsOK
<1>7. CASE s.state # "absent"
  <2>1. Listed(q) = L \cup {id}  BY <1>2, <1>4, <1>7 DEF Listed
  <2>2. Cardinality(L \cup {id}) = IF id \in L THEN Cardinality(L) ELSE Cardinality(L) + 1
    BY <1>5, FS_AddElement
  <2>3. id \in L \/ (id \in made /\ Cardinality(L) < Capacity)  BY <1>4, <1>7
  <2>4. Cardinality(L \cup {id}) <= Capacity  BY <1>0, <1>5, <2>2, <2>3
  <2>5. L \cup {id} \subseteq made  BY <1>4, <2>3 DEF SlotsOK
  <2>6. QED  BY <1>1, <1>2, <1>3, <2>1, <2>4, <2>5 DEF SlotsOK
<1>8. QED  BY <1>6, <1>7

LEMMA SlotsKept ==
    ASSUME NEW pl, SlotsOK(pl), made \subseteq made'
    PROVE  SlotsOK(pl)'
BY DEF SlotsOK

\* A step that leaves the ledgers alone.
LEMMA LedgersKept ==
    ASSUME IInv, UNCHANGED <<pool, books, mirrored>>, store' = store, made \subseteq made'
    PROVE  /\ SlotsOK(pool)' /\ SlotsOK(store.pool)' /\ Booked(books, pool)'
           /\ Undurable = FALSE => MirrorsStore'
<1>1. PICK a, b : a = pool /\ b = store.pool  OBVIOUS
<1>2. SlotsOK(a) /\ SlotsOK(b)  BY <1>1 DEF IInv
<1>3. SlotsOK(a)' /\ SlotsOK(b)'  BY <1>2, SlotsKept
<1>4. pool' = a /\ store'.pool = b  BY <1>1
<1>5. SlotsOK(pool)' /\ SlotsOK(store.pool)'  BY <1>3, <1>4 DEF SlotsOK, Listed
<1>6. Booked(books, pool)'  BY DEF IInv, Booked, Owned, CpuOf, MemOf
<1>7. Undurable = FALSE => MirrorsStore'  BY DEF IInv, MirrorsStore
<1>8. QED  BY <1>5, <1>6, <1>7

\* persistLocked, of what it writes.
Persisted(w, ok) ==
    \/ ok /\ UNCHANGED faults /\ store' = IF mirrored THEN w ELSE store
    \/ ~ok /\ mirrored /\ Fails /\ (UNCHANGED store \/ (Undurable /\ store' = w))

\* A pool is written and then acted on, or the write fails and it is not.
LEMMA Committed ==
    ASSUME IInv, NEW q, SlotsOK(q), NEW qs \in [Tenants -> Quotas \cup {None}], NEW ok \in BOOLEAN,
           Persisted([pool |-> q, quotas |-> qs], ok),
           pool' = IF ok THEN q ELSE pool, UNCHANGED <<made, mirrored>>
    PROVE  /\ SlotsOK(pool)' /\ SlotsOK(store.pool)'
           /\ store' \in [pool: [Ids -> Sandbox], quotas: [Tenants -> Quotas \cup {None}]]
           /\ faults' \in 0 .. MaxFaults
           /\ Undurable = FALSE => MirrorsStore'
<1>0. TypeOK /\ SlotsOK(pool) /\ SlotsOK(store.pool) /\ q \in [Ids -> Sandbox]  BY DEF IInv, SlotsOK
<1>1. PICK w : w = [pool |-> q, quotas |-> qs]  OBVIOUS
<1>2. w \in [pool: [Ids -> Sandbox], quotas: [Tenants -> Quotas \cup {None}]] /\ w.pool = q
  BY <1>0, <1>1
<1>3. /\ store' = store \/ store' = w
      /\ ok /\ mirrored => store' = w
      /\ ~ok /\ Undurable = FALSE => store' = store
      /\ faults' = faults \/ (faults < MaxFaults /\ faults' = faults + 1)
  BY <1>1 DEF Persisted, Fails
<1>4. faults' \in 0 .. MaxFaults  BY <1>0, <1>3, PoolAssumption DEF TypeOK
<1>5. PICK a, b : a = pool' /\ b = store'.pool  OBVIOUS
<1>6. SlotsOK(a) /\ SlotsOK(b)  BY <1>0, <1>2, <1>3, <1>5
<1>7. SlotsOK(a)' /\ SlotsOK(b)'  BY <1>6, SlotsKept
<1>8. SlotsOK(pool)' /\ SlotsOK(store.pool)'  BY <1>5, <1>7 DEF SlotsOK, Listed
<1>9. Undurable = FALSE => MirrorsStore'  BY <1>2, <1>3 DEF IInv, MirrorsStore
<1>10. store' \in [pool: [Ids -> Sandbox], quotas: [Tenants -> Quotas \cup {None}]]
  BY <1>0, <1>2, <1>3 DEF TypeOK
<1>11. QED  BY <1>4, <1>8, <1>9, <1>10

\* One goroutine moves on, and the sandboxes it leaves behind are safe.
LEMMA OneThread ==
    ASSUME IInv, NEW p \in Procs, NEW x \in Thread, th' = [th EXCEPT ![p] = x], Knows(x),
           made \subseteq made', pending' \subseteq made', pending' \cap Members' = {}, restarts' = restarts,
           Carries(x) => x.id \in made' /\ x.id \notin Members' /\ x.id \notin pending',
           \A q \in Procs : q # p /\ Carries(th[q]) =>
               /\ th[q].id \notin Members' /\ th[q].id \notin pending'
               /\ Carries(x) => th[q].id # x.id,
           \A id \in live' : id \in live \/ (Carries(x) /\ x.id = id),
           \A id \in live' : id \in Members \/ id \in pending \/ id \in reported \/ (Carries(th[p]) /\ th[p].id = id)
               => id \in Members' \/ id \in pending' \/ id \in reported' \/ (Carries(x) /\ x.id = id)
    PROVE  th' \in [Procs -> Thread] /\ ThreadsOK' /\ Kept'
<1>0. th \in [Procs -> Thread] /\ ThreadsOK /\ Kept  BY DEF IInv, TypeOK
<1>1. th' \in [Procs -> Thread] /\ th'[p] = x /\ \A q \in Procs : q # p => th'[q] = th[q]  BY <1>0
<1>2. ThreadsOK'
  <2>1. \A q \in Procs : Knows(th'[q]) /\ (Carries(th'[q]) =>
                            th'[q].id \in made' /\ th'[q].id \notin Members' /\ th'[q].id \notin pending')
    <3>1. TAKE q \in Procs
    <3>2. CASE q = p  BY <1>1, <3>2
    <3>3. CASE q # p  BY <1>0, <1>1, <3>3 DEF ThreadsOK
    <3>4. QED  BY <3>2, <3>3
  <2>2. \A q, r \in Procs : Carries(th'[q]) /\ Carries(th'[r]) /\ th'[q].id = th'[r].id => q = r
    BY <1>0, <1>1 DEF ThreadsOK
  <2>3. QED  BY <2>1, <2>2 DEF ThreadsOK, Knows, Carries
<1>3. Kept'
  <2>1. SUFFICES ASSUME restarts = 0, NEW id \in live'  PROVE Safe(id)'
    BY DEF Kept
  <2>2. CASE Carries(x) /\ x.id = id  BY <1>1, <2>2 DEF Safe, Carries
  <2>3. CASE id \in Members' \/ id \in pending' \/ id \in reported'  BY <2>3 DEF Safe
  <2>4. CASE ~(Carries(x) /\ x.id = id) /\ ~(id \in Members' \/ id \in pending' \/ id \in reported')
    <3>1. Safe(id)  BY <1>0, <2>1, <2>4 DEF Kept
    <3>2. PICK q \in Procs : Carries(th[q]) /\ th[q].id = id /\ q # p  BY <2>4, <3>1 DEF Safe
    <3>3. Carries(th'[q]) /\ th'[q].id = id  BY <1>1, <3>2
    <3>4. QED  BY <3>3 DEF Safe, Carries
  <2>5. QED  BY <2>2, <2>3, <2>4
<1>4. QED  BY <1>1, <1>2, <1>3

-----------------------------------------------------------------------------
(* Steps that leave the ledgers alone. *)

LEMMA IdleType == IdleThread \in Thread /\ Knows(IdleThread) /\ ~Carries(IdleThread)
BY PoolAssumption DEF IdleThread, Thread, Knows, Carries

LEMMA NoUsage ==
    ASSUME IInv, UNCHANGED books
    PROVE  WithinQuota
<1>1. \A t \in Tenants : books[t] \in Books  BY DEF IInv, TypeOK
<1>2. \A t \in Tenants : books[t].running \in Nat /\ books[t].mem \in Nat  BY <1>1 DEF Books
<1>3. QED  BY <1>2 DEF WithinQuota

\* A goroutine goes on with what it knows.
LEMMA ThreadOnly ==
    ASSUME IInv, NEW p \in Procs, NEW x \in Thread, th' = [th EXCEPT ![p] = x], Knows(x),
           Carries(x) <=> Carries(th[p]), Carries(x) => x.id = th[p].id,
           UNCHANGED <<ledgers, host, pending, misc, faults>>, sweeping' \in BOOLEAN
    PROVE  IInv' /\ WithinQuota
<1>1. UNCHANGED <<pool, quotas, books, store, live, made, pending, mirrored, reported, clock, restarts, faults>>
  BY DEF ledgers, host, misc
<1>2. Members' = Members  BY <1>1 DEF Members
<1>3. ThreadsOK  BY DEF IInv
<1>4. th' \in [Procs -> Thread] /\ ThreadsOK' /\ Kept'  BY <1>1, <1>2, <1>3, OneThread DEF ThreadsOK
<1>5. TypeOK'  BY <1>1, <1>4 DEF IInv, TypeOK
<1>6. QED  BY <1>1, <1>4, <1>5, LedgersKept, NoUsage DEF IInv

LEMMA WarmInv ==
    ASSUME IInv, NEW p \in Procs, NEW tmpl \in Templates, NEW n \in 1 .. MaxWarm, Warm(p, tmpl, n)
    PROVE  IInv' /\ WithinQuota
<1>0. th[p] \in Thread /\ th \in [Procs -> Thread] /\ MaxWarm \in Nat  BY PoolAssumption DEF IInv, TypeOK
<1>1. PICK x : x = [th[p] EXCEPT !.pc = "warm", !.tmpl = tmpl, !.left = n]  OBVIOUS
<1>7. n \in 0 .. MaxWarm  BY <1>0
<1>2. x \in Thread /\ x.pc = "warm" /\ x.tmpl = tmpl  BY <1>0, <1>1, <1>7 DEF Thread
<1>3. th' = [th EXCEPT ![p] = x] /\ th[p].pc = "idle"  BY <1>0, <1>1 DEF Warm, At
<1>4. Knows(x) /\ ~Carries(x) /\ ~Carries(th[p])  BY <1>2, <1>3 DEF Knows, Carries
<1>5. UNCHANGED <<ledgers, host, pending, misc, faults>> /\ sweeping' \in BOOLEAN
  BY DEF Warm, queue, IInv, TypeOK
<1>6. QED  BY <1>2, <1>3, <1>4, <1>5, ThreadOnly

LEMMA WarmCheckInv == ASSUME IInv, NEW p \in Procs, WarmCheck(p) PROVE IInv' /\ WithinQuota
<1>0. th[p] \in Thread /\ th \in [Procs -> Thread] /\ th[p].pc = "warm" /\ Knows(th[p])
  BY DEF IInv, TypeOK, WarmCheck, At, ThreadsOK
<1>1. ~Carries(th[p])  BY <1>0 DEF Carries
<1>2. UNCHANGED <<ledgers, host, pending, misc, faults>> /\ sweeping' \in BOOLEAN
  BY DEF WarmCheck, queue, IInv, TypeOK
<1>3. CASE Return(p)
  <2>1. th' = [th EXCEPT ![p] = IdleThread]  BY <1>3 DEF Return
  <2>2. QED  BY <1>1, <1>2, <2>1, IdleType, ThreadOnly
<1>4. CASE th[p].left # 0 /\ Goto(p, "wmake")
  <2>1. PICK x : x = [th[p] EXCEPT !.pc = "wmake"]  OBVIOUS
  <2>2. x \in Thread /\ x.pc = "wmake" /\ x.tmpl = th[p].tmpl /\ x.left = th[p].left
        /\ th' = [th EXCEPT ![p] = x]
    BY <1>0, <1>4, <2>1 DEF Thread, Goto
  <2>3. x.left > 0  BY <1>0, <1>4, <2>2 DEF Thread
  <2>4. Knows(x) /\ ~Carries(x)  BY <1>0, <2>2, <2>3 DEF Knows, Carries
  <2>5. QED  BY <1>1, <1>2, <2>2, <2>4, ThreadOnly
<1>5. QED  BY <1>3, <1>4 DEF WarmCheck

LEMMA SweepInv ==
    ASSUME IInv, NEW p \in Procs, SweepStart(p) \/ SweepEnd(p)
    PROVE  IInv' /\ WithinQuota
<1>0. th[p] \in Thread /\ th \in [Procs -> Thread] /\ pending \subseteq Ids  BY DEF IInv, TypeOK
<1>1. CASE SweepStart(p)
  <2>1. PICK x : x = [th[p] EXCEPT !.pc = "sweep", !.ids = pending]  OBVIOUS
  <2>2. x \in Thread /\ x.pc = "sweep" /\ th' = [th EXCEPT ![p] = x] /\ th[p].pc = "idle"
    BY <1>0, <1>1, <2>1 DEF Thread, SweepStart, At
  <2>3. Knows(x) /\ ~Carries(x) /\ ~Carries(th[p])  BY <2>2 DEF Knows, Carries
  <2>4. UNCHANGED <<ledgers, host, pending, misc, faults>> /\ sweeping' \in BOOLEAN  BY <1>1 DEF SweepStart
  <2>5. QED  BY <2>2, <2>3, <2>4, ThreadOnly
<1>2. CASE SweepEnd(p)
  <2>1. th' = [th EXCEPT ![p] = IdleThread] /\ th[p].pc = "sweep"  BY <1>2 DEF SweepEnd, Return, At
  <2>2. ~Carries(th[p])  BY <2>1 DEF Carries
  <2>3. UNCHANGED <<ledgers, host, pending, misc, faults>> /\ sweeping' \in BOOLEAN  BY <1>2 DEF SweepEnd
  <2>4. QED  BY <2>1, <2>2, <2>3, IdleType, ThreadOnly
<1>3. QED  BY <1>1, <1>2

LEMMA ForTaskInv ==
    ASSUME IInv, NEW p \in Procs, NEW k \in Tasks, NEW label \in {"suspend", "resume"},
           sandboxIDForTask(p, k, label)
    PROVE  IInv' /\ WithinQuota
<1>0. th[p] \in Thread /\ th \in [Procs -> Thread]  BY DEF IInv, TypeOK
<1>1. PICK id \in Ids : th' = [th EXCEPT ![p].pc = label, ![p].id = id, ![p].task = k]
  BY DEF sandboxIDForTask
<1>2. PICK x : x = [th[p] EXCEPT !.pc = label, !.id = id, !.task = k]  OBVIOUS
<1>3. x \in Thread /\ x.pc = label /\ x.id = id /\ th' = [th EXCEPT ![p] = x]
  BY <1>0, <1>1, <1>2 DEF Thread
<1>4. Knows(x) /\ ~Carries(x)  BY <1>3 DEF Knows, Carries
<1>5. ~Carries(th[p])  BY DEF sandboxIDForTask, At, Carries
<1>6. UNCHANGED <<ledgers, host, pending, misc, faults>> /\ sweeping' \in BOOLEAN
  BY DEF sandboxIDForTask, queue, IInv, TypeOK
<1>7. QED  BY <1>3, <1>4, <1>5, <1>6, ThreadOnly

\* Factory: the id is new to everybody.
LEMMA MakeInv ==
    ASSUME IInv, NEW p \in Procs, claimPhase2(p) \/ WarmMake(p)
    PROVE  IInv' /\ WithinQuota
<1>0. /\ th[p] \in Thread /\ th \in [Procs -> Thread] /\ Knows(th[p]) /\ TypeOK /\ ThreadsOK
      /\ MaxFaults \in Nat
  BY PoolAssumption DEF IInv, TypeOK, ThreadsOK
<1>1. th[p].pc \in {"make", "wmake"} /\ ~Carries(th[p])
  BY DEF claimPhase2, WarmMake, At, Carries
<1>2. UNCHANGED <<pool, quotas, books, store, pending, sweeping, mirrored, reported, clock, restarts>>
  BY DEF claimPhase2, WarmMake, ledgers, queue, misc
<1>3. Members' = Members  BY <1>2 DEF Members
<1>4. Members \subseteq made  BY DEF IInv, SlotsOK, Listed, Members
<1>5. ASSUME NEW id \in Ids, NEW label \in {"commit", "wcommit"}, Factory(id),
             th' = [th EXCEPT ![p].pc = label, ![p].id = id],
             label = "commit" => th[p].pc = "make", label = "wcommit" => th[p].pc = "wmake"
      PROVE  IInv' /\ WithinQuota
  <2>1. PICK x : x = [th[p] EXCEPT !.pc = label, !.id = id]  OBVIOUS
  <2>2. /\ x \in Thread /\ x.pc = label /\ x.id = id /\ x.tenant = th[p].tenant /\ x.tmpl = th[p].tmpl
        /\ x.task = th[p].task /\ x.left = th[p].left
        /\ th' = [th EXCEPT ![p] = x]
    BY <1>0, <1>5, <2>1 DEF Thread
  <2>3. Knows(x) /\ Carries(x)  BY <1>0, <1>5, <2>2 DEF Knows, Carries
  <2>4. id \notin made /\ made' = made \cup {id} /\ live' = live \cup {id} /\ faults' = faults
    BY <1>5 DEF Factory, Works
  <2>5. th' \in [Procs -> Thread] /\ ThreadsOK' /\ Kept'
    BY <1>0, <1>1, <1>2, <1>3, <1>4, <2>2, <2>3, <2>4, OneThread DEF ThreadsOK
  <2>6. TypeOK'  BY <1>0, <1>2, <2>4, <2>5 DEF TypeOK
  <2>7. QED  BY <1>2, <2>4, <2>5, <2>6, LedgersKept, NoUsage DEF IInv
<1>6. ASSUME FactoryFails, NEW x \in Thread, th' = [th EXCEPT ![p] = x], Knows(x), ~Carries(x)
      PROVE  IInv' /\ WithinQuota
  <2>1. UNCHANGED <<live, made>> /\ faults' \in 0 .. MaxFaults
    BY <1>0, <1>6 DEF FactoryFails, Fails, host, TypeOK
  <2>2. th' \in [Procs -> Thread] /\ ThreadsOK' /\ Kept'
    BY <1>0, <1>1, <1>2, <1>3, <1>6, <2>1, OneThread DEF ThreadsOK
  <2>3. TypeOK'  BY <1>0, <1>2, <2>1, <2>2 DEF TypeOK
  <2>4. QED  BY <1>2, <2>1, <2>2, <2>3, LedgersKept, NoUsage DEF IInv
<1>7. CASE claimPhase2(p)
  <2>1. th[p].pc = "make"  BY <1>7 DEF claimPhase2, At
  <2>2. CASE \E id \in Ids : Factory(id) /\ th' = [th EXCEPT ![p].pc = "commit", ![p].id = id]
    BY <1>5, <2>1, <2>2
  <2>3. CASE FactoryFails /\ Return(p)
    <3>1. th' = [th EXCEPT ![p] = IdleThread]  BY <2>3 DEF Return
    <3>2. QED  BY <1>6, <2>3, <3>1, IdleType
  <2>4. QED  BY <1>7, <2>2, <2>3 DEF claimPhase2
<1>8. CASE WarmMake(p)
  <2>1. th[p].pc = "wmake"  BY <1>8 DEF WarmMake, At
  <2>2. CASE \E id \in Ids : Factory(id) /\ th' = [th EXCEPT ![p].pc = "wcommit", ![p].id = id]
    BY <1>5, <2>1, <2>2
  <2>3. CASE FactoryFails /\ NextWarm(p)
    <3>1. PICK x : x = [th[p] EXCEPT !.pc = "warm", !.left = @ - 1, !.id = None]  OBVIOUS
    <3>2. th[p].left - 1 \in 0 .. MaxWarm  BY <1>0, <2>1, PoolAssumption DEF Knows, Thread
    <3>3. x \in Thread /\ x.pc = "warm" /\ x.tmpl = th[p].tmpl /\ th' = [th EXCEPT ![p] = x]
      BY <1>0, <2>3, <3>1, <3>2 DEF Thread, NextWarm
    <3>4. Knows(x) /\ ~Carries(x)  BY <1>0, <2>1, <3>3 DEF Knows, Carries
    <3>5. QED  BY <1>6, <2>3, <3>3, <3>4
  <2>4. QED  BY <1>8, <2>2, <2>3 DEF WarmMake
<1>9. QED  BY <1>7, <1>8

\* A teardown that fails is queued, or reported to the caller.
LEMMA DestroyInv ==
    ASSUME IInv, NEW p \in Procs, destroy(p) \/ ReleaseDestroy(p)
    PROVE  IInv' /\ WithinQuota
<1>0. th[p] \in Thread /\ TypeOK /\ ThreadsOK /\ MaxFaults \in Nat
  BY PoolAssumption DEF IInv, TypeOK
<1>1. th[p].pc \in {"reject", "drop"} /\ Carries(th[p])
  BY DEF destroy, ReleaseDestroy, At, Carries
<1>2. UNCHANGED <<pool, quotas, books, store, made, sweeping, mirrored, clock, restarts>>
      /\ th' = [th EXCEPT ![p] = IdleThread]
  BY DEF destroy, ReleaseDestroy, ledgers, queue, misc, Return
<1>3. Members' = Members  BY <1>2 DEF Members
<1>4. PICK i \in Ids : i = th[p].id  BY <1>0, <1>1 DEF ThreadsOK, TypeOK
<1>5. i \in made /\ i \notin Members /\ i \notin pending
      /\ \A q \in Procs : q # p /\ Carries(th[q]) => th[q].id # i
  BY <1>0, <1>1, <1>4 DEF ThreadsOK
<1>6. /\ \/ live' = live \ {i} /\ pending' = pending /\ reported' = reported /\ faults' = faults
         \/ live' = live /\ pending' = pending \cup {i} /\ reported' = reported /\ faults' \in 0 .. MaxFaults
         \/ live' = live /\ pending' = pending /\ reported' = reported \cup {i} /\ faults' \in 0 .. MaxFaults
  <2>1. CASE destroy(p)
    BY <1>0, <1>4, <2>1 DEF destroy, Destroyer, Works, Fails, misc, TypeOK
  <2>2. CASE ReleaseDestroy(p)
    BY <1>0, <1>4, <2>2 DEF ReleaseDestroy, Destroyer, Works, Fails, queue, TypeOK
  <2>3. QED  BY <2>1, <2>2
<1>7. /\ pending' \subseteq made' /\ pending' \cap Members' = {} /\ pending \subseteq pending'
      /\ reported \subseteq reported' /\ live' \subseteq live
      /\ i \in live' => i \in pending' \/ i \in reported'
      /\ \A q \in Procs : q # p /\ Carries(th[q]) => th[q].id \notin Members' /\ th[q].id \notin pending'
  BY <1>0, <1>2, <1>3, <1>5, <1>6 DEF ThreadsOK
<1>8. th' \in [Procs -> Thread] /\ ThreadsOK' /\ Kept'
  <2>1. \A id \in live' : id \in live \/ (Carries(IdleThread) /\ IdleThread.id = id)  BY <1>7
  <2>2. \A id \in live' : id \in Members \/ id \in pending \/ id \in reported \/ (Carries(th[p]) /\ th[p].id = id)
           => id \in Members' \/ id \in pending' \/ id \in reported' \/ (Carries(IdleThread) /\ IdleThread.id = id)
    BY <1>3, <1>4, <1>7
  <2>3. made \subseteq made' /\ restarts' = restarts  BY <1>2
  <2>4. QED  BY <1>2, <1>7, <2>1, <2>2, <2>3, IdleType, OneThread
<1>9. TypeOK'  BY <1>0, <1>2, <1>6, <1>8 DEF TypeOK
<1>10. QED  BY <1>2, <1>8, <1>9, LedgersKept, NoUsage DEF IInv

LEMMA SweepOneInv ==
    ASSUME IInv, NEW p \in Procs, NEW id \in Ids, SweepOne(p, id)
    PROVE  IInv' /\ WithinQuota
<1>0. th[p] \in Thread /\ TypeOK /\ ThreadsOK /\ MaxFaults \in Nat /\ Knows(th[p])
  BY PoolAssumption DEF IInv, TypeOK, ThreadsOK
<1>1. PICK x : x = [th[p] EXCEPT !.ids = @ \ {id}]  OBVIOUS
<1>2. x \in Thread /\ x.pc = "sweep" /\ th[p].pc = "sweep" /\ th' = [th EXCEPT ![p] = x]
  BY <1>0, <1>1 DEF Thread, SweepOne, At
<1>3. Knows(x) /\ ~Carries(x) /\ ~Carries(th[p])  BY <1>2 DEF Knows, Carries
<1>4. UNCHANGED <<pool, quotas, books, store, made, sweeping, mirrored, reported, clock, restarts>>
  BY DEF SweepOne, ledgers, misc
<1>5. /\ \/ live' = live \ {id} /\ pending' = pending \ {id} /\ faults' = faults
         \/ live' = live /\ pending' = pending /\ faults' \in 0 .. MaxFaults
  BY <1>0 DEF SweepOne, Destroyer, Works, Fails, TypeOK
<1>6. Members' = Members  BY <1>4 DEF Members
<1>7. th' \in [Procs -> Thread] /\ ThreadsOK' /\ Kept'
  BY <1>0, <1>2, <1>3, <1>4, <1>5, <1>6, OneThread DEF ThreadsOK
<1>8. TypeOK'  BY <1>0, <1>4, <1>5, <1>7 DEF TypeOK
<1>9. QED  BY <1>4, <1>7, <1>8, LedgersKept, NoUsage DEF IInv

LEMMA TickInv == ASSUME IInv, Tick PROVE IInv' /\ WithinQuota
<1>1. UNCHANGED <<pool, quotas, books, store, live, made, pending, sweeping, mirrored, reported, restarts, th, faults>>
  BY DEF Tick, ledgers, host, queue
<1>2. clock' \in Times  BY PoolAssumption DEF Tick, IInv, TypeOK, Times
<1>3. TypeOK'  BY <1>1, <1>2 DEF IInv, TypeOK
<1>4. Members' = Members  BY <1>1 DEF Members
<1>5. ThreadsOK' /\ Kept'  BY <1>1, <1>4 DEF IInv, ThreadsOK, Kept, Safe, Knows, Carries
<1>6. QED  BY <1>1, <1>3, <1>5, LedgersKept, NoUsage DEF IInv

-----------------------------------------------------------------------------
(* The books. *)

LEMMA Prune ==
    ASSUME TypeOK, NEW b \in Books
    PROVE  LET c == pruneHourly(b)
           IN  c \in Books /\ c.running = b.running /\ c.cpu = b.cpu /\ c.mem = b.mem
<1>1. PICK h \in [Times -> Nat] : h = [t \in Times |-> IF t > clock - Hour THEN b.hourly[t] ELSE 0]
  BY DEF Books
<1>2. pruneHourly(b) = [b EXCEPT !.hourly = h]  BY <1>1 DEF pruneHourly
<1>3. QED  BY <1>1, <1>2 DEF Books

\* A claim is counted once, and a rollback takes back exactly that.
LEMMA Account ==
    ASSUME TypeOK, NEW b \in Books, NEW tmpl \in Templates
    PROVE  LET c == accountClaim(b, tmpl)
           IN  /\ c \in Books /\ c.running = b.running + 1
               /\ c.cpu = b.cpu + CPU(tmpl) /\ c.mem = b.mem + MemMB(tmpl)
               /\ Started(c) = Started(b) + 1 /\ Started(b) \in Nat
               /\ rollbackClaim(c, tmpl) = b
<1>0. PICK u, m \in Nat : u = CPU(tmpl) /\ m = MemMB(tmpl)  BY PoolAssumption
<1>1. b.running \in Nat /\ b.cpu \in Nat /\ b.mem \in Nat /\ b.hourly \in [Times -> Nat] /\ clock \in Times
  BY DEF Books, TypeOK
<1>9. PICK n \in Nat : n = b.hourly[clock] + 1  BY <1>1
<1>2. PICK h \in [Times -> Nat] : h = [b.hourly EXCEPT ![clock] = n]  BY <1>1
<1>3. PICK c : c = accountClaim(b, tmpl)  OBVIOUS
<1>4. c = [b EXCEPT !.running = b.running + 1, !.cpu = b.cpu + u, !.mem = b.mem + m, !.hourly = h]
  BY <1>0, <1>2, <1>3, <1>9 DEF accountClaim, Books
<1>10. b.running + 1 \in Nat /\ b.cpu + u \in Nat /\ b.mem + m \in Nat  BY <1>1
<1>5. c \in Books /\ c.running = b.running + 1 /\ c.cpu = b.cpu + u /\ c.mem = b.mem + m /\ c.hourly = h
  BY <1>4, <1>10 DEF Books
<1>6. Started(c) = Started(b) + 1 /\ Started(b) \in Nat
  <2>1. IsFiniteSet(Times)  BY PoolAssumption, FS_Interval DEF Times
  <2>2. PICK f \in [Times -> Nat], k \in Times : f = b.hourly /\ k = clock  BY <1>1
  <2>3. h[k] = f[k] + 1 /\ \A t \in Times : t # k => h[t] = f[t]  BY <1>2, <1>9, <2>2
  <2>4. Total(h) = (Total(f) - f[k]) + h[k] /\ Total(f) \in Nat  BY <2>1, <2>3, TotalExcept
  <2>5. f[k] \in Nat  OBVIOUS
  <2>6. QED  BY <1>5, <2>2, <2>3, <2>4, <2>5 DEF Started
<1>7. rollbackClaim(c, tmpl) = b
  <2>1. /\ Monus(c.running, 1) = b.running /\ Monus(c.cpu, u) = b.cpu /\ Monus(c.mem, m) = b.mem
        /\ Monus(h[clock], 1) = b.hourly[clock]
    BY <1>1, <1>2, <1>5, <1>9 DEF Monus
  <2>2. [h EXCEPT ![clock] = b.hourly[clock]] = b.hourly  BY <1>1, <1>2
  <2>3. rollbackClaim(c, tmpl) = [c EXCEPT !.running = b.running, !.cpu = b.cpu, !.mem = b.mem,
                                           !.hourly = b.hourly]
    BY <1>0, <1>5, <2>1, <2>2 DEF rollbackClaim, Books
  <2>4. QED  BY <1>4, <2>3 DEF Books
<1>8. QED  BY <1>0, <1>3, <1>5, <1>6, <1>7

LEMMA Refunded ==
    ASSUME IInv, NEW id \in Ids, pool[id].tenant # None
    PROVE  LET s == pool[id]
               b == books[s.tenant]
               c == releaseQuota(b, s)
           IN  /\ s.tenant \in Tenants /\ s \in Sandbox /\ b \in Books /\ c \in Books
               /\ c.running = b.running - 1 /\ c.cpu = b.cpu - s.cpu /\ c.mem = b.mem - s.mem
               /\ rollbackRelease(c, s) = b
<1>1. PICK s \in Sandbox : s = pool[id]  BY DEF IInv, TypeOK
<1>2. s.tenant \in Tenants  BY <1>1 DEF Sandbox
<1>3. PICK b \in Books : b = books[s.tenant]  BY <1>2 DEF IInv, TypeOK
<1>4. pool \in [Ids -> Sandbox]  BY DEF IInv, TypeOK
<1>5. s.cpu <= b.cpu /\ s.mem <= b.mem /\ 1 <= b.running
  BY <1>1, <1>2, <1>3, <1>4, Covered DEF IInv, Booked
<1>6. b.running \in Nat /\ b.cpu \in Nat /\ b.mem \in Nat /\ s.cpu \in Nat /\ s.mem \in Nat
  BY DEF Books, Sandbox
<1>7. Monus(b.running, 1) = b.running - 1 /\ Monus(b.cpu, s.cpu) = b.cpu - s.cpu /\ Monus(b.mem, s.mem) = b.mem - s.mem
  BY <1>5, <1>6 DEF Monus
<1>8. PICK c : c = releaseQuota(b, s)  OBVIOUS
<1>9. c = [b EXCEPT !.running = b.running - 1, !.cpu = b.cpu - s.cpu, !.mem = b.mem - s.mem]
  BY <1>7, <1>8 DEF releaseQuota, Books
<1>14. b.running - 1 \in Nat /\ b.cpu - s.cpu \in Nat /\ b.mem - s.mem \in Nat  BY <1>5, <1>6
<1>10. c \in Books /\ c.running = b.running - 1 /\ c.cpu = b.cpu - s.cpu /\ c.mem = b.mem - s.mem
       /\ c.hourly = b.hourly
  BY <1>9, <1>14 DEF Books
<1>11. c.running + 1 = b.running /\ c.cpu + s.cpu = b.cpu /\ c.mem + s.mem = b.mem  BY <1>6, <1>10
<1>12. rollbackRelease(c, s) = b
  <2>1. rollbackRelease(c, s) = [c EXCEPT !.running = b.running, !.cpu = b.cpu, !.mem = b.mem]
    BY <1>10, <1>11 DEF rollbackRelease, Books
  <2>2. QED  BY <1>9, <2>1 DEF Books
<1>13. QED  BY <1>1, <1>2, <1>3, <1>8, <1>10, <1>12

LEMMA BookedNext ==
    ASSUME NEW bs, NEW pl, books' = bs, pool' = pl, Booked(bs, pl)
    PROVE  Booked(books, pool)'
BY DEF Booked, Owned, CpuOf, MemOf

LEMMA QuotaType ==
    ASSUME IInv, NEW t \in Tenants
    PROVE  QuotaOf(t) \in Quota /\ QuotaOf(t) \in Quotas
BY PoolAssumption DEF IInv, TypeOK, QuotaOf

\* The ledgers after a step of one tenant's books: the invariant's part that no
\* goroutine is in.
LedgersOK ==
    /\ SlotsOK(pool)' /\ SlotsOK(store.pool)' /\ Booked(books, pool)'
    /\ books' \in [Tenants -> Books]
    /\ store' \in [pool: [Ids -> Sandbox], quotas: [Tenants -> Quotas \cup {None}]]
    /\ faults' \in 0 .. MaxFaults
    /\ Undurable = FALSE => MirrorsStore'
    /\ WithinQuota

\* A refused or failed claim leaves the tenant's usage as it was.
LEMMA Unbilled ==
    ASSUME IInv, NEW t \in Tenants, NEW b \in Books,
           b.running = books[t].running, b.cpu = books[t].cpu, b.mem = books[t].mem,
           books' = [books EXCEPT ![t] = b], UNCHANGED pool
    PROVE  /\ books' \in [Tenants -> Books] /\ Booked(books, pool)' /\ WithinQuota
<1>1. books \in [Tenants -> Books]  BY DEF IInv, TypeOK
<1>2. PICK bs \in [Tenants -> Books] : bs = books'  BY <1>1
<1>3. \A n \in Tenants : bs[n].running = books[n].running /\ bs[n].cpu = books[n].cpu /\ bs[n].mem = books[n].mem
  BY <1>1, <1>2
<1>4. PICK pl : pl = pool  OBVIOUS
<1>5. Booked(bs, pl)  BY <1>3, <1>4 DEF IInv, Booked
<1>6. Booked(books, pool)'  BY <1>2, <1>4, <1>5, BookedNext
<1>7. \A n \in Tenants : books[n].running \in Nat /\ books[n].mem \in Nat  BY <1>1 DEF Books
<1>8. WithinQuota  BY <1>2, <1>3, <1>7 DEF WithinQuota
<1>9. QED  BY <1>2, <1>6, <1>8

\* Bind: a claim within the quota and the capacity.
LEMMA Bound ==
    ASSUME IInv, NEW id \in Ids, NEW t \in Tenants, NEW tmpl \in Templates, NEW k \in Tasks,
           NEW ok \in BOOLEAN, NEW b \in Books, b = pruneHourly(books[t]),
           Bind(id, b, t, tmpl, k, ok), ~Exceeds(QuotaOf(t), b, tmpl),
           pool[id].tenant = None, id \in Members \/ (id \in made /\ ~AtCapacity),
           quotas' \in [Tenants -> Quotas \cup {None}], UNCHANGED <<made, mirrored>>
    PROVE  /\ LedgersOK
           /\ Members' = IF ok THEN Members \cup {id} ELSE Members
<1>0. /\ TypeOK /\ pool \in [Ids -> Sandbox] /\ books \in [Tenants -> Books]
      /\ books[t] \in Books /\ Members = Listed(pool)
  BY DEF IInv, TypeOK, Members, Listed
<1>1. b.running = books[t].running /\ b.cpu = books[t].cpu /\ b.mem = books[t].mem  BY <1>0, Prune
<1>2. PICK u, m \in Nat : u = CPU(tmpl) /\ m = MemMB(tmpl)  BY PoolAssumption
<1>3. PICK s : s = claimed(t, tmpl, k)  OBVIOUS
<1>4. s \in Sandbox /\ s.state = "claimed" /\ s.tenant = t /\ s.cpu = u /\ s.mem = m
  BY <1>0, <1>2, <1>3 DEF claimed, Sandbox, TypeOK
<1>5. Entry(s)  BY <1>4, PoolAssumption DEF Entry
<1>6. PICK q : q = [pool EXCEPT ![id] = s]  OBVIOUS
<1>7. SlotsOK(q)
  <2>1. Cardinality(Listed(pool)) < Capacity \/ id \in Listed(pool)
    <3>1. Listed(pool) \in SUBSET Ids  BY DEF Listed
    <3>2. Cardinality(Listed(pool)) \in Nat /\ Capacity \in Nat
      BY <3>1, PoolAssumption, FS_Subset, FS_CardinalityType
    <3>3. QED  BY <1>0, <3>2 DEF AtCapacity
  <2>2. PICK pl : pl = pool  OBVIOUS
  <2>3. id \in Listed(pl) \/ (id \in made /\ Cardinality(Listed(pl)) < Capacity)  BY <1>0, <2>1, <2>2
  <2>4. SlotsOK(pl)  BY <2>2 DEF IInv
  <2>5. SlotsOK([pl EXCEPT ![id] = s])  BY <1>4, <1>5, <2>3, <2>4, SlotsChange
  <2>6. QED  BY <1>6, <2>2, <2>5
<1>9. PICK qs \in [Tenants -> Quotas \cup {None}] : qs = quotas'  OBVIOUS
<1>8. Persisted([pool |-> q, quotas |-> qs], ok) /\ pool' = IF ok THEN q ELSE pool
  BY <1>3, <1>6, <1>9 DEF Bind, persistLocked, Persisted, Works
<1>16. books' = [books EXCEPT ![t] = IF ok THEN accountClaim(b, tmpl) ELSE rollbackClaim(accountClaim(b, tmpl), tmpl)]
  BY DEF Bind
<1>10. /\ SlotsOK(pool)' /\ SlotsOK(store.pool)'
       /\ store' \in [pool: [Ids -> Sandbox], quotas: [Tenants -> Quotas \cup {None}]]
       /\ faults' \in 0 .. MaxFaults
       /\ Undurable = FALSE => MirrorsStore'
  BY <1>7, <1>8, <1>9, Committed
<1>11. PICK c : c = accountClaim(b, tmpl)  OBVIOUS
<1>12. /\ c \in Books /\ c.running = b.running + 1 /\ c.cpu = b.cpu + u /\ c.mem = b.mem + m
       /\ Started(c) = Started(b) + 1 /\ Started(b) \in Nat /\ rollbackClaim(c, tmpl) = b
  BY <1>0, <1>2, <1>11, Account
<1>13. CASE ok
  <2>1. pool' = q /\ books' = [books EXCEPT ![t] = c]  BY <1>8, <1>11, <1>13, <1>16
  <2>2. PICK bs : bs = books'  OBVIOUS
  <2>3. bs \in [Tenants -> Books] /\ bs[t] = c /\ \A n \in Tenants : n # t => bs[n] = books[n]
    BY <1>0, <1>12, <2>1, <2>2
  <2>4. PICK pl \in [Ids -> Sandbox] : pl = pool  BY <1>0
  <2>5. ASSUME NEW n \in Tenants
        PROVE  /\ bs[n].running = Cardinality(Owned(q, n)) /\ bs[n].cpu = Total(CpuOf(q, n))
               /\ bs[n].mem = Total(MemOf(q, n))
    <3>8. Patched(q, pl, id, s)  BY <1>6, <2>4 DEF Patched
    <3>1. /\ Total(CpuOf(q, n)) = (Total(CpuOf(pl, n)) - (IF pl[id].tenant = n THEN pl[id].cpu ELSE 0))
                                   + (IF s.tenant = n THEN s.cpu ELSE 0)
          /\ Total(MemOf(q, n)) = (Total(MemOf(pl, n)) - (IF pl[id].tenant = n THEN pl[id].mem ELSE 0))
                                   + (IF s.tenant = n THEN s.mem ELSE 0)
          /\ Cardinality(Owned(q, n)) = (Cardinality(Owned(pl, n)) - (IF pl[id].tenant = n THEN 1 ELSE 0))
                                         + (IF s.tenant = n THEN 1 ELSE 0)
      BY <1>4, <3>8, SlotSums
    <3>2. pl[id].tenant # n  BY <2>4, PoolAssumption
    <3>3. /\ books[n].running = Cardinality(Owned(pl, n)) /\ books[n].cpu = Total(CpuOf(pl, n))
          /\ books[n].mem = Total(MemOf(pl, n))
      BY <2>4 DEF IInv, Booked
    <3>4. books[n].running \in Nat /\ books[n].cpu \in Nat /\ books[n].mem \in Nat  BY <1>0 DEF Books
    <3>5. CASE n = t  BY <1>1, <1>4, <1>12, <2>3, <3>1, <3>2, <3>3, <3>4, <3>5
    <3>6. CASE n # t  BY <1>4, <2>3, <3>1, <3>2, <3>3, <3>4, <3>6
    <3>7. QED  BY <3>5, <3>6
  <2>6. Booked(bs, q)  BY <2>5 DEF Booked
  <2>7. Booked(books, pool)'  BY <2>1, <2>2, <2>6, BookedNext
  <2>8. WithinQuota
    <3>1. PICK z \in Quota : z = QuotaOf(t)  BY QuotaType
    <3>2. z.conc \in Nat /\ z.cpu \in Nat /\ z.mem \in Nat /\ z.rate \in Nat  BY DEF Quota
    <3>3. ~(Started(b) >= z.rate) /\ ~(b.running >= z.conc) /\ ~(b.cpu + u > z.cpu) /\ ~(m > z.mem - b.mem)
      BY <1>2, <3>1 DEF Exceeds, memExceeded
    <3>4. b.running \in Nat /\ b.cpu \in Nat /\ b.mem \in Nat  BY DEF Books
    <3>5. c.running <= z.conc /\ c.cpu <= z.cpu /\ Started(c) <= z.rate /\ c.mem <= z.mem
      BY <1>12, <3>2, <3>3, <3>4
    <3>6. \A n \in Tenants : books[n].running \in Nat /\ books[n].mem \in Nat  BY <1>0 DEF Books
    <3>7. QED  BY <2>2, <2>3, <3>1, <3>5, <3>6 DEF WithinQuota
  <2>9. Members' = Members \cup {id}  BY <1>0, <1>4, <1>6, <2>1 DEF Members
  <2>10. QED  BY <1>10, <1>13, <2>2, <2>3, <2>7, <2>8, <2>9 DEF LedgersOK
<1>14. CASE ~ok
  <2>1. pool' = pool /\ books' = [books EXCEPT ![t] = b]  BY <1>8, <1>11, <1>12, <1>14, <1>16
  <2>2. books' \in [Tenants -> Books] /\ Booked(books, pool)' /\ WithinQuota  BY <1>1, <2>1, Unbilled
  <2>3. Members' = Members  BY <2>1 DEF Members
  <2>4. QED  BY <1>10, <1>14, <2>2, <2>3 DEF LedgersOK
<1>15. QED  BY <1>13, <1>14

\* Nothing but the pruned window of a tenant changes.
LEMMA Pruned ==
    ASSUME IInv, NEW t \in Tenants, books' = [books EXCEPT ![t] = pruneHourly(books[t])],
           UNCHANGED <<pool, store, faults, made, mirrored>>
    PROVE  LedgersOK /\ Members' = Members
<1>0. TypeOK /\ books[t] \in Books  BY DEF IInv, TypeOK
<1>1. PICK b : b = pruneHourly(books[t])  OBVIOUS
<1>2. b \in Books /\ b.running = books[t].running /\ b.cpu = books[t].cpu /\ b.mem = books[t].mem
  BY <1>0, <1>1, Prune
<1>3. books' \in [Tenants -> Books] /\ Booked(books, pool)' /\ WithinQuota  BY <1>1, <1>2, Unbilled
<1>4. SlotsOK(pool)' /\ SlotsOK(store.pool)'  BY DEF IInv, SlotsOK, Listed
<1>5. Undurable = FALSE => MirrorsStore'  BY DEF IInv, MirrorsStore
<1>6. Members' = Members  BY DEF Members
<1>7. QED  BY <1>0, <1>3, <1>4, <1>5, <1>6 DEF LedgersOK, TypeOK

\* One entry and the books of its tenants change together.
LEMMA Rebooked ==
    ASSUME IInv, NEW id \in Ids, NEW s \in Sandbox, NEW x \in Sandbox, x = pool[id],
           NEW q, Patched(q, pool, id, s), NEW bs \in [Tenants -> Books],
           \A n \in Tenants :
               /\ bs[n].running = (books[n].running - (IF x.tenant = n THEN 1 ELSE 0)) + (IF s.tenant = n THEN 1 ELSE 0)
               /\ bs[n].cpu = (books[n].cpu - (IF x.tenant = n THEN x.cpu ELSE 0)) + (IF s.tenant = n THEN s.cpu ELSE 0)
               /\ bs[n].mem = (books[n].mem - (IF x.tenant = n THEN x.mem ELSE 0)) + (IF s.tenant = n THEN s.mem ELSE 0)
    PROVE  Booked(bs, q)
<1>1. PICK pl \in [Ids -> Sandbox] : pl = pool  BY DEF IInv, TypeOK
<1>2. Patched(q, pl, id, s)  BY <1>1 DEF Patched
<1>3. ASSUME NEW n \in Tenants
      PROVE  /\ bs[n].running = Cardinality(Owned(q, n)) /\ bs[n].cpu = Total(CpuOf(q, n))
             /\ bs[n].mem = Total(MemOf(q, n))
  <2>1. /\ Total(CpuOf(q, n)) = (Total(CpuOf(pl, n)) - (IF pl[id].tenant = n THEN pl[id].cpu ELSE 0))
                                 + (IF s.tenant = n THEN s.cpu ELSE 0)
        /\ Total(MemOf(q, n)) = (Total(MemOf(pl, n)) - (IF pl[id].tenant = n THEN pl[id].mem ELSE 0))
                                 + (IF s.tenant = n THEN s.mem ELSE 0)
        /\ Cardinality(Owned(q, n)) = (Cardinality(Owned(pl, n)) - (IF pl[id].tenant = n THEN 1 ELSE 0))
                                       + (IF s.tenant = n THEN 1 ELSE 0)
    BY <1>2, SlotSums
  <2>2. /\ books[n].running = Cardinality(Owned(pl, n)) /\ books[n].cpu = Total(CpuOf(pl, n))
        /\ books[n].mem = Total(MemOf(pl, n)) /\ pl[id] = x
    BY <1>1 DEF IInv, Booked
  <2>3. QED  BY <2>1, <2>2
<1>4. QED  BY <1>3 DEF Booked

LEMMA SameThreads ==
    ASSUME IInv, UNCHANGED <<th, live, made, pending, reported, restarts>>, Members' = Members
    PROVE  th' \in [Procs -> Thread] /\ ThreadsOK' /\ Kept'
BY DEF IInv, TypeOK, ThreadsOK, Kept, Safe, Knows, Carries

\* A goroutine goes on with the sandbox it carries.
LEMMA SameCargo ==
    ASSUME IInv, NEW p \in Procs, NEW x \in Thread, th' = [th EXCEPT ![p] = x], Knows(x),
           Carries(x), Carries(th[p]), x.id = th[p].id,
           UNCHANGED <<live, made, pending, reported, restarts>>, Members' = Members
    PROVE  th' \in [Procs -> Thread] /\ ThreadsOK' /\ Kept'
<1>1. ThreadsOK  BY DEF IInv
<1>2. x.id \in made' /\ x.id \notin Members' /\ x.id \notin pending'  BY <1>1 DEF ThreadsOK
<1>3. \A q \in Procs : q # p /\ Carries(th[q]) =>
          th[q].id \notin Members' /\ th[q].id \notin pending' /\ (Carries(x) => th[q].id # x.id)
  BY <1>1 DEF ThreadsOK
<1>4. pending' \subseteq made' /\ pending' \cap Members' = {}  BY <1>1 DEF ThreadsOK
<1>5. QED  BY <1>2, <1>3, <1>4, OneThread

LEMMA Assembled ==
    ASSUME IInv, LedgersOK, quotas' \in [Tenants -> Quotas \cup {None}],
           th' \in [Procs -> Thread], ThreadsOK', Kept', UNCHANGED <<host, queue, misc>>
    PROVE  IInv' /\ WithinQuota
<1>1. UNCHANGED <<live, made, pending, sweeping, mirrored, reported, clock, restarts>>
  BY DEF host, queue, misc
<1>2. TypeOK'  BY <1>1 DEF IInv, TypeOK, LedgersOK, SlotsOK
<1>3. QED  BY <1>2 DEF LedgersOK, IInv

LEMMA Phase1Inv ==
    ASSUME IInv, NEW p \in Procs, NEW t \in Tenants, NEW tmpl \in Templates, NEW k \in Tasks,
           claimPhase1(p, t, tmpl, k)
    PROVE  IInv' /\ WithinQuota
<1>0. TypeOK /\ th[p] \in Thread /\ th \in [Procs -> Thread] /\ th[p].pc = "idle"
  BY DEF IInv, TypeOK, claimPhase1, At
<1>1. UNCHANGED <<host, queue, misc>>
      /\ UNCHANGED <<live, made, pending, sweeping, mirrored, reported, clock, restarts>>
  BY DEF claimPhase1, host, queue, misc
<1>2. quotas' \in [Tenants -> Quotas \cup {None}]
  <2>1. quotas' = [quotas EXCEPT ![t] = QuotaOf(t)]  BY DEF claimPhase1
  <2>2. QED  BY <1>0, <2>1, QuotaType DEF TypeOK
<1>3. PICK b : b = pruneHourly(books[t])  OBVIOUS
<1>4. b \in Books  BY <1>0, <1>3, Prune DEF TypeOK
<1>5. CASE books' = [books EXCEPT ![t] = b] /\ UNCHANGED <<pool, store, faults>> /\ UNCHANGED th
  <2>1. LedgersOK /\ Members' = Members  BY <1>1, <1>3, <1>5, Pruned
  <2>2. QED  BY <1>1, <1>2, <1>5, <2>1, SameThreads, Assembled
<1>6. CASE /\ books' = [books EXCEPT ![t] = b] /\ UNCHANGED <<pool, store, faults>>
           /\ th' = [th EXCEPT ![p].pc = "make", ![p].tenant = t, ![p].tmpl = tmpl, ![p].task = k]
  <2>1. LedgersOK /\ Members' = Members  BY <1>1, <1>3, <1>6, Pruned
  <2>2. PICK x : x = [th[p] EXCEPT !.pc = "make", !.tenant = t, !.tmpl = tmpl, !.task = k]  OBVIOUS
  <2>3. x \in Thread /\ x.pc = "make" /\ x.tenant = t /\ x.tmpl = tmpl /\ x.task = k
        /\ th' = [th EXCEPT ![p] = x]
    BY <1>0, <1>6, <2>2 DEF Thread
  <2>4. Knows(x) /\ ~Carries(x) /\ ~Carries(th[p])  BY <1>0, <2>3 DEF Knows, Carries
  <2>5. ThreadsOK  BY DEF IInv
  <2>6. th' \in [Procs -> Thread] /\ ThreadsOK' /\ Kept'
    BY <1>1, <2>1, <2>3, <2>4, <2>5, OneThread DEF ThreadsOK
  <2>7. QED  BY <1>1, <1>2, <2>1, <2>6, Assembled
<1>7. ASSUME NEW id \in Ids, NEW ok \in BOOLEAN, pool[id].state = "ready",
             Bind(id, b, t, tmpl, k, ok), ~Exceeds(QuotaOf(t), b, tmpl), UNCHANGED th
      PROVE  IInv' /\ WithinQuota
  <2>1. pool[id].tenant = None /\ id \in Members  BY <1>7 DEF IInv, SlotsOK, Entry, Members
  <2>2. LedgersOK /\ Members' = IF ok THEN Members \cup {id} ELSE Members
    BY <1>1, <1>2, <1>3, <1>4, <1>7, <2>1, Bound
  <2>3. Members' = Members  BY <2>1, <2>2
  <2>4. QED  BY <1>1, <1>2, <1>7, <2>2, <2>3, SameThreads, Assembled
<1>8. QED  BY <1>3, <1>5, <1>6, <1>7 DEF claimPhase1

LEMMA Phase3Inv == ASSUME IInv, NEW p \in Procs, claimPhase3(p) PROVE IInv' /\ WithinQuota
<1>0. TypeOK /\ ThreadsOK /\ th[p] \in Thread /\ th \in [Procs -> Thread] /\ th[p].pc = "commit"
  BY DEF IInv, TypeOK, claimPhase3, At
<1>1. UNCHANGED <<host, queue, misc>> /\ UNCHANGED quotas
      /\ UNCHANGED <<live, made, pending, sweeping, mirrored, reported, clock, restarts>>
  BY DEF claimPhase3, host, queue, misc
<1>2. quotas' \in [Tenants -> Quotas \cup {None}]  BY <1>0, <1>1 DEF TypeOK
<1>3. Carries(th[p]) /\ Knows(th[p])  BY <1>0 DEF Carries, ThreadsOK
<1>4. PICK t \in Tenants, tmpl \in Templates, k \in Tasks :
          t = th[p].tenant /\ tmpl = th[p].tmpl /\ k = th[p].task
  BY <1>0, <1>3 DEF Knows
<1>5. PICK id \in Ids : id = th[p].id  BY <1>0, <1>3 DEF ThreadsOK, TypeOK
<1>6. id \in made /\ id \notin Members /\ id \notin pending
      /\ \A q \in Procs : q # p /\ Carries(th[q]) => th[q].id # id
  BY <1>0, <1>3, <1>5 DEF ThreadsOK
<1>7. PICK b : b = pruneHourly(books[t])  OBVIOUS
<1>8. b \in Books  BY <1>0, <1>7, Prune DEF TypeOK
\* The sandbox is refused and stays in the goroutine's hands.
<1>9. ASSUME Goto(p, "reject"), LedgersOK, Members' = Members  PROVE IInv' /\ WithinQuota
  <2>1. PICK x : x = [th[p] EXCEPT !.pc = "reject"]  OBVIOUS
  <2>2. x \in Thread /\ x.pc = "reject" /\ x.id = id /\ th' = [th EXCEPT ![p] = x]
    BY <1>0, <1>5, <1>9, <2>1 DEF Thread, Goto
  <2>3. Knows(x) /\ Carries(x)  BY <2>2 DEF Knows, Carries
  <2>4. th' \in [Procs -> Thread] /\ ThreadsOK' /\ Kept'
    BY <1>1, <1>3, <1>5, <1>9, <2>2, <2>3, SameCargo
  <2>5. QED  BY <1>1, <1>2, <1>9, <2>4, Assembled
<1>10. CASE Goto(p, "reject") /\ UNCHANGED <<pool, books, store, faults>>
  <2>1. LedgersOK /\ Members' = Members
    <3>1. Members' = Members  BY <1>10 DEF Members
    <3>2. QED  BY <1>0, <1>1, <1>10, <3>1, LedgersKept, NoUsage DEF LedgersOK, TypeOK
  <2>2. QED  BY <1>9, <1>10, <2>1
<1>11. CASE Goto(p, "reject") /\ books' = [books EXCEPT ![t] = b] /\ UNCHANGED <<pool, store, faults>>
  <2>1. LedgersOK /\ Members' = Members  BY <1>1, <1>7, <1>11, Pruned
  <2>2. QED  BY <1>9, <1>11, <2>1
<1>12. ASSUME NEW ok \in BOOLEAN, ~AtCapacity, ~Exceeds(QuotaOf(t), b, tmpl), Bind(id, b, t, tmpl, k, ok),
              IF ok THEN Return(p) ELSE Goto(p, "reject")
       PROVE  IInv' /\ WithinQuota
  <2>1. pool[id].tenant = None  BY <1>6 DEF IInv, SlotsOK, Entry, Members
  <2>2. LedgersOK /\ Members' = IF ok THEN Members \cup {id} ELSE Members
    BY <1>1, <1>2, <1>6, <1>7, <1>8, <1>12, <2>1, Bound
  <2>3. CASE ok
    <3>1. th' = [th EXCEPT ![p] = IdleThread] /\ Members' = Members \cup {id}
      BY <1>12, <2>2, <2>3 DEF Return
    <3>2. pending' \cap Members' = {} /\ \A q \in Procs : q # p /\ Carries(th[q]) =>
              th[q].id \notin Members' /\ th[q].id \notin pending'
      BY <1>0, <1>1, <1>6, <3>1 DEF ThreadsOK
    <3>3. pending' \subseteq made' /\ made \subseteq made' /\ restarts' = restarts  BY <1>0, <1>1 DEF ThreadsOK
    <3>4. th' \in [Procs -> Thread] /\ ThreadsOK' /\ Kept'
      <4>1. \A i \in live' : i \in live \/ (Carries(IdleThread) /\ IdleThread.id = i)  BY <1>1
      <4>2. \A i \in live' : i \in Members \/ i \in pending \/ i \in reported \/ (Carries(th[p]) /\ th[p].id = i)
               => i \in Members' \/ i \in pending' \/ i \in reported' \/ (Carries(IdleThread) /\ IdleThread.id = i)
        BY <1>1, <1>5, <3>1
      <4>3. QED  BY <3>1, <3>2, <3>3, <4>1, <4>2, IdleType, OneThread
    <3>5. QED  BY <1>1, <1>2, <2>2, <3>4, Assembled
  <2>4. CASE ~ok  BY <1>9, <1>12, <2>2, <2>4
  <2>5. QED  BY <2>3, <2>4
<1>13. QED  BY <1>4, <1>5, <1>7, <1>10, <1>11, <1>12 DEF claimPhase3

LEMMA Readied ==
    ASSUME NEW tmpl \in Templates \cup {None}
    PROVE  /\ ready(tmpl) \in Sandbox /\ ready(tmpl).state = "ready" /\ ready(tmpl).tenant = None
           /\ Entry(ready(tmpl))
           /\ Absent \in Sandbox /\ Absent.state = "absent" /\ Absent.tenant = None /\ Entry(Absent)
<1>1. 0 \in Times  BY PoolAssumption DEF Times
<1>2. Absent \in Sandbox /\ Absent.state = "absent" /\ Absent.tenant = None  BY <1>1 DEF Absent, Sandbox
<1>3. ready(tmpl) \in Sandbox /\ ready(tmpl).state = "ready" /\ ready(tmpl).tenant = None
  BY <1>2 DEF ready, Sandbox
<1>4. QED  BY <1>2, <1>3 DEF Entry

\* A fresh sandbox joins the pool for nobody.
LEMMA WarmCommitInv == ASSUME IInv, NEW p \in Procs, WarmCommit(p) PROVE IInv' /\ WithinQuota
<1>0. TypeOK /\ ThreadsOK /\ th[p] \in Thread /\ th \in [Procs -> Thread] /\ th[p].pc = "wcommit"
  BY DEF IInv, TypeOK, WarmCommit, At
<1>1. UNCHANGED <<host, queue, misc>> /\ UNCHANGED <<quotas, books>>
      /\ UNCHANGED <<live, made, pending, sweeping, mirrored, reported, clock, restarts>>
  BY DEF WarmCommit, host, queue, misc
<1>2. quotas' \in [Tenants -> Quotas \cup {None}]  BY <1>0, <1>1 DEF TypeOK
<1>3. Carries(th[p]) /\ Knows(th[p])  BY <1>0 DEF Carries, ThreadsOK
<1>4. PICK tmpl \in Templates : tmpl = th[p].tmpl  BY <1>0, <1>3 DEF Knows
<1>5. PICK id \in Ids : id = th[p].id  BY <1>0, <1>3 DEF ThreadsOK, TypeOK
<1>6. id \in made /\ id \notin Members /\ id \notin pending
      /\ \A q \in Procs : q # p /\ Carries(th[q]) => th[q].id # id
  BY <1>0, <1>3, <1>5 DEF ThreadsOK
<1>7. ASSUME Goto(p, "reject"), LedgersOK, Members' = Members  PROVE IInv' /\ WithinQuota
  <2>1. PICK x : x = [th[p] EXCEPT !.pc = "reject"]  OBVIOUS
  <2>2. x \in Thread /\ x.pc = "reject" /\ x.id = th[p].id /\ th' = [th EXCEPT ![p] = x]
    BY <1>0, <1>7, <2>1 DEF Thread, Goto
  <2>3. Knows(x) /\ Carries(x)  BY <2>2 DEF Knows, Carries
  <2>4. th' \in [Procs -> Thread] /\ ThreadsOK' /\ Kept'  BY <1>1, <1>3, <1>7, <2>2, <2>3, SameCargo
  <2>5. QED  BY <1>1, <1>2, <1>7, <2>4, Assembled
<1>8. CASE Goto(p, "reject") /\ UNCHANGED <<pool, store, faults>>
  <2>1. Members' = Members  BY <1>8 DEF Members
  <2>2. LedgersOK  BY <1>0, <1>1, <1>8, LedgersKept, NoUsage DEF LedgersOK, TypeOK
  <2>3. QED  BY <1>7, <1>8, <2>1, <2>2
<1>9. PICK s : s = ready(tmpl)  OBVIOUS
<1>10. s \in Sandbox /\ s.state = "ready" /\ s.tenant = None /\ Entry(s)  BY <1>9, Readied
<1>11. PICK q : q = [pool EXCEPT ![id] = s]  OBVIOUS
<1>12. ASSUME ~AtCapacity  PROVE SlotsOK(q) /\ Booked(books, q)
  <2>1. PICK pl : pl = pool  OBVIOUS
  <2>2. Cardinality(Listed(pl)) < Capacity
    <3>1. Listed(pl) \in SUBSET Ids /\ Members = Listed(pl)  BY <2>1 DEF Listed, Members
    <3>2. Cardinality(Listed(pl)) \in Nat /\ Capacity \in Nat
      BY <3>1, PoolAssumption, FS_Subset, FS_CardinalityType
    <3>3. QED  BY <1>12, <3>1, <3>2 DEF AtCapacity
  <2>3. SlotsOK(pl)  BY <2>1 DEF IInv
  <2>4. SlotsOK([pl EXCEPT ![id] = s])  BY <1>6, <1>10, <2>2, <2>3, SlotsChange
  <2>5. PICK x \in Sandbox : x = pool[id]  BY <1>0 DEF TypeOK
  <2>6. x.tenant = None  BY <1>6, <2>5 DEF IInv, SlotsOK, Entry, Members
  <2>7. Patched(q, pool, id, s)  BY <1>11 DEF Patched
  <2>8. PICK bs \in [Tenants -> Books] : bs = books  BY <1>0 DEF TypeOK
  <2>9. \A n \in Tenants : n # None /\ books[n].running \in Nat /\ books[n].cpu \in Nat /\ books[n].mem \in Nat
    BY <1>0, PoolAssumption DEF TypeOK, Books
  <2>10. \A n \in Tenants :
           /\ bs[n].running = (books[n].running - (IF x.tenant = n THEN 1 ELSE 0)) + (IF s.tenant = n THEN 1 ELSE 0)
           /\ bs[n].cpu = (books[n].cpu - (IF x.tenant = n THEN x.cpu ELSE 0)) + (IF s.tenant = n THEN s.cpu ELSE 0)
           /\ bs[n].mem = (books[n].mem - (IF x.tenant = n THEN x.mem ELSE 0)) + (IF s.tenant = n THEN s.mem ELSE 0)
    BY <1>10, <2>6, <2>8, <2>9
  <2>11. Booked(bs, q)  BY <1>10, <2>5, <2>7, <2>10, Rebooked
  <2>12. QED  BY <1>11, <2>1, <2>4, <2>8, <2>11
<1>13. ASSUME NEW ok \in BOOLEAN, ~AtCapacity, persistLocked(q, quotas, ok), pool' = IF ok THEN q ELSE pool,
              IF ok THEN NextWarm(p) ELSE Goto(p, "reject")
       PROVE  IInv' /\ WithinQuota
  <2>1. PICK qs \in [Tenants -> Quotas \cup {None}] : qs = quotas  BY <1>0 DEF TypeOK
  <2>2. Persisted([pool |-> q, quotas |-> qs], ok)  BY <1>13, <2>1 DEF persistLocked, Persisted, Works
  <2>3. /\ SlotsOK(pool)' /\ SlotsOK(store.pool)'
        /\ store' \in [pool: [Ids -> Sandbox], quotas: [Tenants -> Quotas \cup {None}]]
        /\ faults' \in 0 .. MaxFaults
        /\ Undurable = FALSE => MirrorsStore'
    BY <1>1, <1>12, <1>13, <2>2, Committed
  <2>4. Booked(books, pool)'
    <3>1. PICK bs, r : bs = books' /\ r = pool'  OBVIOUS
    <3>2. Booked(bs, r)  BY <1>1, <1>12, <1>13, <3>1 DEF IInv
    <3>3. QED  BY <3>1, <3>2, BookedNext
  <2>5. LedgersOK  BY <1>0, <1>1, <2>3, <2>4, NoUsage DEF LedgersOK, TypeOK
  <2>6. CASE ok
    <3>1. Members' = Members \cup {id}  BY <1>0, <1>10, <1>11, <1>13, <2>6 DEF Members, TypeOK
    <3>2. PICK x : x = [th[p] EXCEPT !.pc = "warm", !.left = @ - 1, !.id = None]  OBVIOUS
    <3>3. th[p].left - 1 \in 0 .. MaxWarm  BY <1>0, <1>3, PoolAssumption DEF Knows, Thread
    <3>4. x \in Thread /\ x.pc = "warm" /\ x.tmpl = tmpl /\ th' = [th EXCEPT ![p] = x]
      BY <1>0, <1>4, <1>13, <2>6, <3>2, <3>3 DEF Thread, NextWarm
    <3>5. Knows(x) /\ ~Carries(x)  BY <3>4 DEF Knows, Carries
    <3>6. pending' \cap Members' = {} /\ \A r \in Procs : r # p /\ Carries(th[r]) =>
              th[r].id \notin Members' /\ th[r].id \notin pending'
      BY <1>0, <1>1, <1>6, <3>1 DEF ThreadsOK
    <3>7. pending' \subseteq made' /\ made \subseteq made' /\ restarts' = restarts  BY <1>0, <1>1 DEF ThreadsOK
    <3>8. th' \in [Procs -> Thread] /\ ThreadsOK' /\ Kept'
      <4>1. \A i \in live' : i \in live \/ (Carries(x) /\ x.id = i)  BY <1>1
      <4>2. \A i \in live' : i \in Members \/ i \in pending \/ i \in reported \/ (Carries(th[p]) /\ th[p].id = i)
               => i \in Members' \/ i \in pending' \/ i \in reported' \/ (Carries(x) /\ x.id = i)
        BY <1>1, <1>5, <3>1
      <4>3. QED  BY <3>4, <3>5, <3>6, <3>7, <4>1, <4>2, OneThread
    <3>9. QED  BY <1>1, <1>2, <2>5, <3>8, Assembled
  <2>7. CASE ~ok
    <3>1. Members' = Members  BY <1>13, <2>7 DEF Members
    <3>2. QED  BY <1>7, <1>13, <2>5, <2>7, <3>1
  <2>8. QED  BY <2>6, <2>7
<1>14. QED
  <2>1. [pool EXCEPT ![th[p].id] = ready(th[p].tmpl)] = q  BY <1>4, <1>5, <1>9, <1>11
  <2>2. CASE AtCapacity /\ Goto(p, "reject") /\ UNCHANGED <<pool, store, faults>>  BY <1>8, <2>2
  <2>3. CASE ~(AtCapacity /\ Goto(p, "reject") /\ UNCHANGED <<pool, store, faults>>)
    <3>1. PICK ok \in BOOLEAN : /\ ~AtCapacity /\ persistLocked(q, quotas, ok) /\ pool' = IF ok THEN q ELSE pool
                                /\ IF ok THEN NextWarm(p) ELSE Goto(p, "reject")
      BY <2>1, <2>3 DEF WarmCommit, persistLocked
    <3>2. QED  BY <1>13, <3>1
  <2>4. QED  BY <2>2, <2>3

\* An entry of the pool and the books of its tenant are rewritten together,
\* or neither is.
LEMMA Rewritten ==
    ASSUME IInv, NEW id \in Members, NEW s \in Sandbox, Entry(s), NEW x \in Sandbox, x = pool[id],
           NEW q, Patched(q, pool, id, s), NEW bs \in [Tenants -> Books],
           \A n \in Tenants :
               /\ bs[n].running = (books[n].running - (IF x.tenant = n THEN 1 ELSE 0)) + (IF s.tenant = n THEN 1 ELSE 0)
               /\ bs[n].cpu = (books[n].cpu - (IF x.tenant = n THEN x.cpu ELSE 0)) + (IF s.tenant = n THEN s.cpu ELSE 0)
               /\ bs[n].mem = (books[n].mem - (IF x.tenant = n THEN x.mem ELSE 0)) + (IF s.tenant = n THEN s.mem ELSE 0),
           \A n \in Tenants :
               /\ ~(bs[n].running > books[n].running)
               /\ bs[n].mem > books[n].mem => bs[n].mem <= QuotaOf(n).mem,
           NEW ok \in BOOLEAN, NEW qs \in [Tenants -> Quotas \cup {None}],
           Persisted([pool |-> q, quotas |-> qs], ok),
           pool' = IF ok THEN q ELSE pool, books' = IF ok THEN bs ELSE books, UNCHANGED <<made, mirrored>>
    PROVE  /\ LedgersOK
           /\ Members' = IF ok /\ s.state = "absent" THEN Members \ {id} ELSE Members
<1>0. TypeOK /\ id \in Ids /\ pool \in [Ids -> Sandbox]  BY DEF IInv, TypeOK, Members
<1>1. SlotsOK(q)
  <2>1. PICK pl : pl = pool  OBVIOUS
  <2>2. id \in Listed(pl) /\ SlotsOK(pl)  BY <2>1 DEF Members, Listed, IInv
  <2>3. SlotsOK([pl EXCEPT ![id] = s])  BY <1>0, <2>2, SlotsChange
  <2>4. QED  BY <2>1, <2>3 DEF Patched
<1>2. /\ SlotsOK(pool)' /\ SlotsOK(store.pool)'
      /\ store' \in [pool: [Ids -> Sandbox], quotas: [Tenants -> Quotas \cup {None}]]
      /\ faults' \in 0 .. MaxFaults
      /\ Undurable = FALSE => MirrorsStore'
  BY <1>1, Committed
<1>3. Booked(bs, q)  BY <1>0, Rebooked
<1>4. q[id] = s /\ \A i \in Ids : i # id => q[i] = pool[i]  BY <1>0 DEF Patched
<1>5. CASE ok
  <2>1. pool' = q /\ books' = bs  BY <1>5
  <2>2. Booked(books, pool)'  BY <1>3, <2>1, BookedNext
  <2>3. WithinQuota  BY <2>1 DEF WithinQuota
  <2>4. Members' = IF s.state = "absent" THEN Members \ {id} ELSE Members  BY <1>4, <2>1 DEF Members
  <2>5. QED  BY <1>2, <1>5, <2>1, <2>2, <2>3, <2>4 DEF LedgersOK
<1>6. CASE ~ok
  <2>1. pool' = pool /\ books' = books  BY <1>6
  <2>2. PICK bb, pl : bb = books /\ pl = pool  OBVIOUS
  <2>3. Booked(bb, pl)  BY <2>2 DEF IInv
  <2>4. Booked(books, pool)'  BY <2>1, <2>2, <2>3, BookedNext
  <2>5. WithinQuota /\ books' \in [Tenants -> Books]  BY <1>0, <2>1, NoUsage DEF TypeOK
  <2>6. Members' = Members  BY <2>1 DEF Members
  <2>7. QED  BY <1>2, <1>6, <2>4, <2>5, <2>6 DEF LedgersOK
<1>7. QED  BY <1>5, <1>6

LEMMA ReleaseInv ==
    ASSUME IInv, NEW p \in Procs, NEW id \in Ids, NEW recycle \in BOOLEAN, Release(p, id, recycle)
    PROVE  IInv' /\ WithinQuota
<1>0. TypeOK /\ ThreadsOK /\ th[p] \in Thread /\ th \in [Procs -> Thread] /\ th[p].pc = "idle" /\ id \in Members
  BY DEF IInv, TypeOK, Release, At
<1>1. UNCHANGED <<host, queue, misc>> /\ UNCHANGED quotas
      /\ UNCHANGED <<live, made, pending, sweeping, mirrored, reported, clock, restarts>>
  BY DEF Release, host, queue, misc
<1>2. quotas' \in [Tenants -> Quotas \cup {None}]  BY <1>0, <1>1 DEF TypeOK
<1>3. PICK x \in Sandbox : x = pool[id]  BY <1>0 DEF TypeOK
<1>4. x.tmpl \in Templates \cup {None}  BY DEF Sandbox
<1>5. PICK s : s = IF recycle THEN ready(x.tmpl) ELSE Absent  OBVIOUS
<1>6. s \in Sandbox /\ Entry(s) /\ s.tenant = None /\ (s.state = "absent" <=> ~recycle)
  BY <1>4, <1>5, Readied
<1>7. PICK q : q = [pool EXCEPT ![id] = s]  OBVIOUS
<1>8. PICK bs : bs = Refund(x)  OBVIOUS
<1>9. books \in [Tenants -> Books] /\ \A n \in Tenants : /\ n # None /\ books[n].running \in Nat
                                                         /\ books[n].cpu \in Nat /\ books[n].mem \in Nat
  BY <1>0, PoolAssumption DEF TypeOK, Books
\* The books after the refund, and what taking it back restores.
<1>10. /\ bs \in [Tenants -> Books] /\ Recharge(x, bs) = books
       /\ \A n \in Tenants :
            /\ bs[n].running = (books[n].running - (IF x.tenant = n THEN 1 ELSE 0)) + (IF s.tenant = n THEN 1 ELSE 0)
            /\ bs[n].cpu = (books[n].cpu - (IF x.tenant = n THEN x.cpu ELSE 0)) + (IF s.tenant = n THEN s.cpu ELSE 0)
            /\ bs[n].mem = (books[n].mem - (IF x.tenant = n THEN x.mem ELSE 0)) + (IF s.tenant = n THEN s.mem ELSE 0)
  <2>1. CASE x.tenant = None
    <3>1. bs = books /\ Recharge(x, bs) = books  BY <1>8, <2>1 DEF Refund, Recharge
    <3>2. QED  BY <1>6, <1>9, <2>1, <3>1
  <2>2. CASE x.tenant # None
    <3>1. PICK b, c : b = books[x.tenant] /\ c = releaseQuota(b, x)  OBVIOUS
    <3>2. /\ x.tenant \in Tenants /\ b \in Books /\ c \in Books
          /\ c.running = b.running - 1 /\ c.cpu = b.cpu - x.cpu /\ c.mem = b.mem - x.mem
          /\ rollbackRelease(c, x) = b
      BY <1>3, <2>2, <3>1, Refunded
    <3>3. bs = [books EXCEPT ![x.tenant] = c]  BY <1>8, <2>2, <3>1 DEF Refund
    <3>4. bs \in [Tenants -> Books] /\ bs[x.tenant] = c /\ \A n \in Tenants : n # x.tenant => bs[n] = books[n]
      BY <1>9, <3>2, <3>3
    <3>5. Recharge(x, bs) = [bs EXCEPT ![x.tenant] = b]  BY <2>2, <3>2, <3>4 DEF Recharge
    <3>6. Recharge(x, bs) = books  BY <1>9, <3>1, <3>2, <3>3, <3>5
    <3>7. x.cpu \in Nat /\ x.mem \in Nat /\ b.running \in Nat /\ b.cpu \in Nat /\ b.mem \in Nat
          /\ c.running \in Nat /\ c.cpu \in Nat /\ c.mem \in Nat
      BY <3>2 DEF Sandbox, Books
    <3>8. ASSUME NEW n \in Tenants
          PROVE  /\ bs[n].running = (books[n].running - (IF x.tenant = n THEN 1 ELSE 0)) + (IF s.tenant = n THEN 1 ELSE 0)
                 /\ bs[n].cpu = (books[n].cpu - (IF x.tenant = n THEN x.cpu ELSE 0)) + (IF s.tenant = n THEN s.cpu ELSE 0)
                 /\ bs[n].mem = (books[n].mem - (IF x.tenant = n THEN x.mem ELSE 0)) + (IF s.tenant = n THEN s.mem ELSE 0)
      <4>1. s.tenant # n  BY <1>6, <1>9
      <4>2. CASE n = x.tenant  BY <3>1, <3>2, <3>4, <3>7, <4>1, <4>2
      <4>3. CASE n # x.tenant  BY <1>9, <3>4, <4>1, <4>3
      <4>4. QED  BY <4>2, <4>3
    <3>9. QED  BY <3>4, <3>6, <3>8
  <2>3. QED  BY <2>1, <2>2
<1>11. \A n \in Tenants : ~(bs[n].running > books[n].running) /\ ~(bs[n].mem > books[n].mem)
  <2>1. TAKE n \in Tenants
  <2>2. s.tenant # n /\ x.mem \in Nat  BY <1>6, <1>9 DEF Sandbox
  <2>3. QED  BY <1>9, <1>10, <2>2
<1>12. PICK ok \in BOOLEAN :
         /\ persistLocked(q, quotas, ok) /\ pool' = IF ok THEN q ELSE pool
         /\ books' = IF ok THEN bs ELSE books
         /\ th' = IF ok /\ ~recycle THEN [th EXCEPT ![p].pc = "drop", ![p].id = id] ELSE th
  <2>1. [pool EXCEPT ![id] = IF recycle THEN ready(pool[id].tmpl) ELSE Absent] = q  BY <1>3, <1>5, <1>7
  <2>2. Recharge(pool[id], Refund(pool[id])) = books /\ Refund(pool[id]) = bs  BY <1>3, <1>8, <1>10
  <2>3. QED  BY <2>1, <2>2 DEF Release, persistLocked
<1>13. LedgersOK /\ Members' = IF ok /\ s.state = "absent" THEN Members \ {id} ELSE Members
  <2>1. PICK qs \in [Tenants -> Quotas \cup {None}] : qs = quotas  BY <1>0 DEF TypeOK
  <2>2. Persisted([pool |-> q, quotas |-> qs], ok)  BY <1>12, <2>1 DEF persistLocked, Persisted, Works
  <2>3. Patched(q, pool, id, s)  BY <1>7 DEF Patched
  <2>4. pool' = (IF ok THEN q ELSE pool) /\ books' = (IF ok THEN bs ELSE books)  BY <1>12
  <2>5. UNCHANGED <<made, mirrored>>  BY <1>1
  <2>6. QED  BY <1>0, <1>3, <1>6, <1>10, <1>11, <2>2, <2>3, <2>4, <2>5, Rewritten
<1>14. CASE ok /\ ~recycle
  <2>1. Members' = Members \ {id}  BY <1>6, <1>13, <1>14
  <2>2. PICK y : y = [th[p] EXCEPT !.pc = "drop", !.id = id]  OBVIOUS
  <2>3. y \in Thread /\ y.pc = "drop" /\ y.id = id /\ th' = [th EXCEPT ![p] = y]
    BY <1>0, <1>12, <1>14, <2>2 DEF Thread
  <2>4. Knows(y) /\ Carries(y) /\ ~Carries(th[p])  BY <1>0, <2>3 DEF Knows, Carries
  <2>5. Members \subseteq made  BY DEF IInv, SlotsOK, Listed, Members
  <2>6. pending' \cap Members' = {} /\ y.id \in made' /\ y.id \notin Members' /\ y.id \notin pending'
    BY <1>0, <1>1, <2>1, <2>3, <2>5 DEF ThreadsOK
  <2>7. \A r \in Procs : r # p /\ Carries(th[r]) =>
            th[r].id \notin Members' /\ th[r].id \notin pending' /\ (Carries(y) => th[r].id # y.id)
    BY <1>0, <1>1, <2>1, <2>3 DEF ThreadsOK
  <2>8. pending' \subseteq made' /\ made \subseteq made' /\ restarts' = restarts  BY <1>0, <1>1 DEF ThreadsOK
  <2>9. \A i \in live' : i \in live \/ (Carries(y) /\ y.id = i)  BY <1>1
  <2>10. \A i \in live' : i \in Members \/ i \in pending \/ i \in reported \/ (Carries(th[p]) /\ th[p].id = i)
             => i \in Members' \/ i \in pending' \/ i \in reported' \/ (Carries(y) /\ y.id = i)
    BY <1>1, <2>1, <2>3, <2>4
  <2>11. th' \in [Procs -> Thread] /\ ThreadsOK' /\ Kept'
    BY <2>3, <2>4, <2>6, <2>7, <2>8, <2>9, <2>10, OneThread
  <2>12. QED  BY <1>1, <1>2, <1>13, <2>11, Assembled
<1>15. CASE ~(ok /\ ~recycle)
  <2>1. th' = th /\ Members' = Members  BY <1>6, <1>12, <1>13, <1>15
  <2>2. QED  BY <1>1, <1>2, <1>13, <2>1, SameThreads, Assembled
<1>16. QED  BY <1>14, <1>15

\* Rebook: a sandbox keeps its tenant and its cpus, and its memory changes.
LEMMA MemoryMoved ==
    ASSUME IInv, NEW id \in Ids, NEW x \in Sandbox, x = pool[id], x.state \in {"claimed", "paused"},
           NEW s \in Sandbox, Entry(s), s.state # "absent", s.tenant = x.tenant, s.cpu = x.cpu,
           NEW b \in Books, b.running = books[x.tenant].running, b.cpu = books[x.tenant].cpu,
           b.mem = (books[x.tenant].mem - x.mem) + s.mem,
           b.mem > books[x.tenant].mem => b.mem <= QuotaOf(x.tenant).mem,
           Rebook(id, s, b), UNCHANGED <<made, mirrored>>
    PROVE  LedgersOK /\ Members' = Members
<1>0. TypeOK /\ id \in Members  BY DEF IInv, TypeOK, Members
<1>1. Entry(x)  BY DEF IInv, SlotsOK
<1>2. x.tenant \in Tenants  BY <1>1 DEF Entry, Sandbox
<1>3. books \in [Tenants -> Books] /\ \A n \in Tenants : /\ books[n].running \in Nat
                                                         /\ books[n].cpu \in Nat /\ books[n].mem \in Nat
  BY <1>0 DEF TypeOK, Books
<1>4. PICK bs : bs = [books EXCEPT ![x.tenant] = b]  OBVIOUS
<1>5. bs \in [Tenants -> Books] /\ bs[x.tenant] = b /\ \A n \in Tenants : n # x.tenant => bs[n] = books[n]
  BY <1>2, <1>3, <1>4
<1>6. x.cpu \in Nat /\ x.mem \in Nat /\ s.mem \in Nat  BY DEF Sandbox
<1>7. ASSUME NEW n \in Tenants
      PROVE  /\ bs[n].running = (books[n].running - (IF x.tenant = n THEN 1 ELSE 0)) + (IF s.tenant = n THEN 1 ELSE 0)
             /\ bs[n].cpu = (books[n].cpu - (IF x.tenant = n THEN x.cpu ELSE 0)) + (IF s.tenant = n THEN s.cpu ELSE 0)
             /\ bs[n].mem = (books[n].mem - (IF x.tenant = n THEN x.mem ELSE 0)) + (IF s.tenant = n THEN s.mem ELSE 0)
             /\ ~(bs[n].running > books[n].running)
             /\ bs[n].mem > books[n].mem => bs[n].mem <= QuotaOf(n).mem
  <2>1. CASE n = x.tenant  BY <1>3, <1>5, <1>6, <2>1
  <2>2. CASE n # x.tenant  BY <1>3, <1>5, <2>2
  <2>3. QED  BY <2>1, <2>2
<1>8. PICK q : q = [pool EXCEPT ![id] = s]  OBVIOUS
<1>9. PICK qs \in [Tenants -> Quotas \cup {None}] : qs = quotas  BY <1>0 DEF TypeOK
<1>10. PICK ok \in BOOLEAN : /\ Persisted([pool |-> q, quotas |-> qs], ok)
                             /\ pool' = (IF ok THEN q ELSE pool) /\ books' = (IF ok THEN bs ELSE books)
  BY <1>4, <1>8, <1>9 DEF Rebook, persistLocked, Persisted, Works
<1>11. Patched(q, pool, id, s)  BY <1>8 DEF Patched
<1>12. QED  BY <1>0, <1>5, <1>7, <1>10, <1>11, Rewritten

\* The end of SuspendByTask and ResumeByTask.
LEMMA Finished ==
    ASSUME IInv, NEW p \in Procs, th[p].pc \in {"suspend", "resume"}, Return(p), LedgersOK, Members' = Members,
           UNCHANGED quotas, UNCHANGED <<host, queue, misc>>
    PROVE  IInv' /\ WithinQuota
<1>1. UNCHANGED <<live, made, pending, sweeping, mirrored, reported, clock, restarts>>
  BY DEF host, queue, misc
<1>2. ThreadsOK /\ quotas' \in [Tenants -> Quotas \cup {None}] /\ th' = [th EXCEPT ![p] = IdleThread]
  BY DEF IInv, TypeOK, Return
<1>3. ~Carries(th[p])  BY DEF Carries
<1>4. th' \in [Procs -> Thread] /\ ThreadsOK' /\ Kept'
  BY <1>1, <1>2, <1>3, IdleType, OneThread DEF ThreadsOK
<1>5. QED  BY <1>2, <1>4, Assembled

LEMMA Idled ==
    ASSUME IInv, UNCHANGED <<pool, books, store, faults, made, mirrored>>
    PROVE  LedgersOK /\ Members' = Members
<1>1. Members' = Members  BY DEF Members
<1>2. QED  BY <1>1, LedgersKept, NoUsage DEF LedgersOK, IInv, TypeOK

LEMMA SuspendInv == ASSUME IInv, NEW p \in Procs, Suspend(p) PROVE IInv' /\ WithinQuota
<1>0. TypeOK /\ ThreadsOK /\ th[p].pc = "suspend" /\ Return(p)  BY DEF IInv, Suspend, At
<1>1. UNCHANGED quotas /\ UNCHANGED <<host, queue, misc>> /\ UNCHANGED <<made, mirrored>>
  BY DEF Suspend, host, misc
<1>2. PICK id \in Ids : id = th[p].id  BY <1>0 DEF ThreadsOK, Knows
<1>3. PICK x \in Sandbox : x = pool[id]  BY <1>0 DEF TypeOK
<1>4. CASE UNCHANGED <<pool, books, store, faults>>
  BY <1>0, <1>1, <1>4, Idled, Finished
<1>5. CASE /\ x.state = "claimed"
           /\ Rebook(id, [x EXCEPT !.state = "paused", !.mem = 0, !.reserved = x.mem],
                     [books[x.tenant] EXCEPT !.mem = Monus(@, x.mem)])
  <2>1. Entry(x)  BY <1>3 DEF IInv, SlotsOK
  <2>2. x.tenant \in Tenants /\ x.tenant # None /\ x.mem \in Nat  BY <1>5, <2>1 DEF Entry, Sandbox
  <2>3. PICK bk \in Books : bk = books[x.tenant]  BY <1>0, <2>2 DEF TypeOK
  <2>4. pool \in [Ids -> Sandbox]  BY <1>0 DEF TypeOK
  <2>5. x.mem <= bk.mem /\ bk.mem \in Nat
    BY <1>3, <2>2, <2>3, <2>4, Covered DEF IInv, Booked, Books
  <2>6. PICK m \in Nat : m = bk.mem - x.mem  BY <2>2, <2>5
  <2>7. Monus(bk.mem, x.mem) = m  BY <2>2, <2>5, <2>6 DEF Monus
  <2>8. PICK b : b = [bk EXCEPT !.mem = m]  OBVIOUS
  <2>9. b \in Books /\ b.running = bk.running /\ b.cpu = bk.cpu /\ b.mem = m  BY <2>8 DEF Books
  <2>10. PICK s : s = [x EXCEPT !.state = "paused", !.mem = 0, !.reserved = x.mem]  OBVIOUS
  <2>11. s \in Sandbox /\ s.state = "paused" /\ s.mem = 0 /\ s.tenant = x.tenant /\ s.cpu = x.cpu
    BY <2>2, <2>10 DEF Sandbox
  <2>12. Entry(s)  BY <2>2, <2>11 DEF Entry
  <2>13. [bk EXCEPT !.mem = Monus(@, x.mem)] = b  BY <2>7, <2>8 DEF Books
  <2>14. Rebook(id, s, b)  BY <1>5, <2>3, <2>10, <2>13
  <2>15. b.mem = (bk.mem - x.mem) + s.mem /\ ~(b.mem > bk.mem)  BY <2>2, <2>5, <2>6, <2>9, <2>11
  <2>16. LedgersOK /\ Members' = Members
    BY <1>1, <1>3, <1>5, <2>3, <2>9, <2>11, <2>12, <2>14, <2>15, MemoryMoved
  <2>17. QED  BY <1>0, <1>1, <2>16, Finished
<1>6. QED  BY <1>2, <1>3, <1>4, <1>5 DEF Suspend

LEMMA ResumeInv == ASSUME IInv, NEW p \in Procs, Resume(p) PROVE IInv' /\ WithinQuota
<1>0. TypeOK /\ ThreadsOK /\ th[p].pc = "resume" /\ Return(p)  BY DEF IInv, Resume, At
<1>1. UNCHANGED quotas /\ UNCHANGED <<host, queue, misc>> /\ UNCHANGED <<made, mirrored>>
  BY DEF Resume, host, misc
<1>2. PICK id \in Ids : id = th[p].id  BY <1>0 DEF ThreadsOK, Knows
<1>3. PICK x \in Sandbox : x = pool[id]  BY <1>0 DEF TypeOK
<1>4. CASE UNCHANGED <<pool, books, store, faults>>
  BY <1>0, <1>1, <1>4, Idled, Finished
<1>5. CASE /\ x.state = "paused"
           /\ ~(x.reserved > 0 /\ memExceeded(QuotaOf(x.tenant).mem, books[x.tenant].mem, x.reserved))
           /\ Rebook(id, [x EXCEPT !.state = "claimed", !.mem = x.reserved, !.reserved = 0],
                     [books[x.tenant] EXCEPT !.mem = @ + x.reserved])
  <2>1. Entry(x)  BY <1>3 DEF IInv, SlotsOK
  <2>2. x.tenant \in Tenants /\ x.tenant # None /\ x.mem = 0 /\ x.reserved \in Nat
    BY <1>5, <2>1 DEF Entry, Sandbox
  <2>3. PICK bk \in Books : bk = books[x.tenant]  BY <1>0, <2>2 DEF TypeOK
  <2>4. bk.mem \in Nat /\ QuotaOf(x.tenant) \in Quota  BY <2>2, QuotaType DEF Books
  <2>5. QuotaOf(x.tenant).mem \in Nat  BY <2>4 DEF Quota
  <2>6. PICK m \in Nat : m = bk.mem + x.reserved  BY <2>2, <2>4
  <2>7. PICK b : b = [bk EXCEPT !.mem = m]  OBVIOUS
  <2>8. b \in Books /\ b.running = bk.running /\ b.cpu = bk.cpu /\ b.mem = m  BY <2>7 DEF Books
  <2>9. PICK s : s = [x EXCEPT !.state = "claimed", !.mem = x.reserved, !.reserved = 0]  OBVIOUS
  <2>10. s \in Sandbox /\ s.state = "claimed" /\ s.mem = x.reserved /\ s.tenant = x.tenant /\ s.cpu = x.cpu
    BY <2>2, <2>9 DEF Sandbox
  <2>11. Entry(s)  BY <2>2, <2>10 DEF Entry
  <2>12. [bk EXCEPT !.mem = @ + x.reserved] = b  BY <2>6, <2>7 DEF Books
  <2>13. Rebook(id, s, b)  BY <1>5, <2>3, <2>9, <2>12
  <2>14. b.mem = (bk.mem - x.mem) + s.mem  BY <2>2, <2>4, <2>6, <2>8, <2>10
  <2>15. b.mem > bk.mem => b.mem <= QuotaOf(x.tenant).mem
    BY <1>5, <2>2, <2>3, <2>4, <2>5, <2>6, <2>8 DEF memExceeded
  <2>16. LedgersOK /\ Members' = Members
    BY <1>1, <1>3, <1>5, <2>3, <2>8, <2>10, <2>11, <2>13, <2>14, <2>15, MemoryMoved
  <2>17. QED  BY <1>0, <1>1, <2>16, Finished
<1>6. QED  BY <1>2, <1>3, <1>4, <1>5 DEF Resume

LEMMA SetQuotaInv ==
    ASSUME IInv, NEW t \in Tenants, NEW z \in Quotas, SetQuota(t, z)
    PROVE  IInv' /\ WithinQuota
<1>0. TypeOK  BY DEF IInv
<1>1. UNCHANGED <<host, queue, misc>> /\ UNCHANGED <<pool, books, th>>
      /\ UNCHANGED <<live, made, pending, mirrored, reported, restarts>>
  BY DEF SetQuota, host, queue, misc
<1>2. PICK qs \in [Tenants -> Quotas \cup {None}] : qs = [quotas EXCEPT ![t] = z]  BY <1>0 DEF TypeOK
<1>3. PICK pl : pl = pool  OBVIOUS
<1>4. PICK ok \in BOOLEAN : Persisted([pool |-> pl, quotas |-> qs], ok) /\ quotas' = (IF ok THEN qs ELSE quotas)
  BY <1>2, <1>3 DEF SetQuota, persistLocked, Persisted, Works
<1>5. SlotsOK(pl) /\ pool' = IF ok THEN pl ELSE pool  BY <1>1, <1>3 DEF IInv
<1>6. /\ SlotsOK(pool)' /\ SlotsOK(store.pool)'
      /\ store' \in [pool: [Ids -> Sandbox], quotas: [Tenants -> Quotas \cup {None}]]
      /\ faults' \in 0 .. MaxFaults
      /\ Undurable = FALSE => MirrorsStore'
  BY <1>1, <1>4, <1>5, Committed
<1>7. Booked(books, pool)'  BY <1>1 DEF IInv, Booked, Owned, CpuOf, MemOf
<1>8. LedgersOK  BY <1>0, <1>1, <1>6, <1>7, NoUsage DEF LedgersOK, TypeOK
<1>9. Members' = Members  BY <1>1 DEF Members
<1>10. quotas' \in [Tenants -> Quotas \cup {None}]  BY <1>0, <1>4 DEF TypeOK
<1>11. QED  BY <1>1, <1>8, <1>9, <1>10, SameThreads, Assembled

-----------------------------------------------------------------------------
(* Restart, and the initial state. *)

\* EnablePersistence derives the books that the entries stand for.
LEMMA Restored ==
    ASSUME NEW pl, SlotsOK(pl), NEW t \in Tenants
    PROVE  /\ rebuilt(pl, t) \in Books
           /\ rebuilt(pl, t).running = Cardinality(Owned(pl, t))
           /\ rebuilt(pl, t).cpu = Total(CpuOf(pl, t)) /\ rebuilt(pl, t).mem = Total(MemOf(pl, t))
<1> DEFINE bound == {i \in Ids : pl[i].tenant = t /\ pl[i].state \in {"claimed", "paused"}}
           starts == [n \in Times |-> Cardinality({i \in bound : pl[i].at = n})]
<1>0. pl \in [Ids -> Sandbox] /\ IsFiniteSet(Ids) /\ t # None  BY PoolAssumption DEF SlotsOK
<1>1. \A i \in Ids : pl[i].tenant = t => pl[i].state \in {"claimed", "paused"}
  BY <1>0 DEF SlotsOK, Entry, Sandbox
<1>2. bound = Owned(pl, t)  BY <1>1 DEF Owned
<1>3. [i \in Ids |-> IF i \in bound THEN pl[i].cpu ELSE 0] = CpuOf(pl, t)  BY <1>1 DEF CpuOf
<1>4. [i \in Ids |-> IF i \in bound /\ pl[i].state = "claimed" THEN pl[i].mem ELSE 0] = MemOf(pl, t)
  BY <1>0, <1>1 DEF MemOf, SlotsOK, Entry
<1>5. CpuOf(pl, t) \in [Ids -> Nat] /\ MemOf(pl, t) \in [Ids -> Nat]
  BY <1>0 DEF CpuOf, MemOf, Sandbox
<1>6. Total(CpuOf(pl, t)) \in Nat /\ Total(MemOf(pl, t)) \in Nat
  <2>1. PICK f, g \in [Ids -> Nat] : f = CpuOf(pl, t) /\ g = MemOf(pl, t)  BY <1>5
  <2>2. Total(f) \in Nat /\ Total(g) \in Nat  BY <1>0, UnitsFinite
  <2>3. QED  BY <2>1, <2>2
<1>7. \A S \in SUBSET Ids : Cardinality(S) \in Nat  BY <1>0, FS_Subset, FS_CardinalityType
<1>8. Cardinality(Owned(pl, t)) \in Nat /\ starts \in [Times -> Nat]
  <2>1. Owned(pl, t) \in SUBSET Ids /\ \A n \in Times : {i \in bound : pl[i].at = n} \in SUBSET Ids  BY DEF Owned
  <2>2. QED  BY <1>7, <2>1
<1>9. rebuilt(pl, t) = [running |-> Cardinality(bound),
                        cpu |-> Total([i \in Ids |-> IF i \in bound THEN pl[i].cpu ELSE 0]),
                        mem |-> Total([i \in Ids |-> IF i \in bound /\ pl[i].state = "claimed" THEN pl[i].mem ELSE 0]),
                        hourly |-> starts]
  BY DEF rebuilt
<1> HIDE DEF bound, starts
<1>10. rebuilt(pl, t) = [running |-> Cardinality(Owned(pl, t)), cpu |-> Total(CpuOf(pl, t)),
                         mem |-> Total(MemOf(pl, t)), hourly |-> starts]
  BY <1>2, <1>3, <1>4, <1>9
<1>11. QED  BY <1>6, <1>8, <1>10 DEF Books

LEMMA Empty ==
    /\ SlotsOK(EmptyPool) /\ Listed(EmptyPool) = {}
    /\ [t \in Tenants |-> NoBooks] \in [Tenants -> Books]
    /\ Booked([t \in Tenants |-> NoBooks], EmptyPool)
    /\ NoQuotas \in [Tenants -> Quotas \cup {None}]
<1>1. Absent \in Sandbox /\ Absent.state = "absent" /\ Absent.tenant = None /\ Entry(Absent)
  <2>1. None \in Templates \cup {None}  OBVIOUS
  <2>2. QED  BY <2>1, Readied
<1>2. EmptyPool \in [Ids -> Sandbox] /\ \A i \in Ids : EmptyPool[i] = Absent  BY <1>1 DEF EmptyPool
<1>3. Listed(EmptyPool) = {}  BY <1>1, <1>2 DEF Listed
<1>4. SlotsOK(EmptyPool)  BY <1>1, <1>2, <1>3, PoolAssumption, FS_EmptySet DEF SlotsOK
<1>5. PICK h \in [Times -> Nat] : h = [t \in Times |-> 0]  OBVIOUS
<1>6. NoBooks \in Books /\ NoBooks.running = 0 /\ NoBooks.cpu = 0 /\ NoBooks.mem = 0
  BY <1>5 DEF NoBooks, Books
<1>7. \A t \in Tenants : Cardinality(Owned(EmptyPool, t)) = 0
  <2>1. \A t \in Tenants : Owned(EmptyPool, t) = {}  BY <1>1, <1>2, PoolAssumption DEF Owned
  <2>2. QED  BY <2>1, FS_EmptySet
<1>8. \A t \in Tenants : Total(CpuOf(EmptyPool, t)) = 0 /\ Total(MemOf(EmptyPool, t)) = 0
  <2>1. TAKE t \in Tenants
  <2>2. CpuOf(EmptyPool, t) = [i \in Ids |-> 0] /\ MemOf(EmptyPool, t) = [i \in Ids |-> 0]
    BY <1>1, <1>2, PoolAssumption DEF CpuOf, MemOf
  <2>3. Total([i \in Ids |-> 0]) = 0  BY TotalZero
  <2>4. QED  BY <2>2, <2>3
<1>9. QED  BY <1>3, <1>4, <1>6, <1>7, <1>8 DEF Booked, NoQuotas

LEMMA InitInv == ASSUME Init PROVE IInv
<1>1. pool = EmptyPool /\ store = [pool |-> EmptyPool, quotas |-> NoQuotas]
      /\ books = [t \in Tenants |-> NoBooks] /\ quotas = NoQuotas
  BY DEF Init
<1>2. EmptyPool \in [Ids -> Sandbox]  BY Empty DEF SlotsOK
<1>3. TypeOK
  <2>1. th \in [Procs -> Thread]  BY IdleType DEF Init
  <2>2. clock \in Times /\ faults \in 0 .. MaxFaults /\ restarts \in 0 .. MaxRestarts
    BY PoolAssumption DEF Init, Times
  <2>3. store \in [pool: [Ids -> Sandbox], quotas: [Tenants -> Quotas \cup {None}]]
    BY <1>1, <1>2, Empty
  <2>4. pool \in [Ids -> Sandbox] /\ quotas \in [Tenants -> Quotas \cup {None}] /\ books \in [Tenants -> Books]
    BY <1>1, <1>2, Empty
  <2>5. /\ mirrored = TRUE /\ sweeping = FALSE /\ pending = {} /\ reported = {} /\ live = {} /\ made = {}
    BY DEF Init
  <2>6. QED  BY <2>1, <2>2, <2>3, <2>4, <2>5 DEF TypeOK
<1>4. SlotsOK(pool) /\ SlotsOK(store.pool) /\ Booked(books, pool)  BY <1>1, Empty
<1>5. Members = {}  BY <1>1, Empty DEF Members, Listed
<1>6. \A p \in Procs : th[p] = IdleThread  BY DEF Init
<1>7. ThreadsOK /\ Kept  BY <1>5, <1>6, IdleType DEF Init, ThreadsOK, Kept
<1>8. MirrorsStore  BY <1>1 DEF MirrorsStore
<1>9. QED  BY <1>3, <1>4, <1>7, <1>8 DEF IInv

LEMMA RestartInv == ASSUME IInv, Restart PROVE IInv' /\ WithinQuota
<1>0. TypeOK /\ SlotsOK(store.pool)  BY DEF IInv
<1>1. /\ UNCHANGED <<store, live, made, reported, clock>> /\ pending' = {} /\ sweeping' = FALSE
      /\ th' = [p \in Procs |-> IdleThread] /\ restarts' = restarts + 1 /\ restarts < MaxRestarts
  BY DEF Restart, host
<1>2. restarts' \in 0 .. MaxRestarts /\ restarts' # restarts /\ restarts' # 0
  BY <1>0, <1>1, PoolAssumption DEF TypeOK
<1>3. WithinQuota  BY <1>2 DEF WithinQuota
<1>4. th' \in [Procs -> Thread] /\ ThreadsOK' /\ Kept'
  <2>1. \A p \in Procs : th'[p] = IdleThread  BY <1>1
  <2>2. th' \in [Procs -> Thread]  BY <1>1, IdleType
  <2>3. \A p \in Procs : Knows(th'[p]) /\ ~Carries(th'[p])  BY <2>1, IdleType
  <2>4. ThreadsOK'  BY <1>1, <2>3 DEF ThreadsOK, Knows, Carries
  <2>5. Kept'  BY <1>2 DEF Kept
  <2>6. QED  BY <2>2, <2>4, <2>5
<1>5. PICK w : w = store.pool  OBVIOUS
<1>6. ASSUME NEW pl, NEW bs \in [Tenants -> Books], NEW qs \in [Tenants -> Quotas \cup {None}],
             pool' = pl, books' = bs, quotas' = qs, SlotsOK(pl), Booked(bs, pl),
             mirrored' \in BOOLEAN, mirrored' => pl = w, faults' \in 0 .. MaxFaults
      PROVE  IInv'
  <2>1. SlotsOK(pl)' /\ SlotsOK(w)'  BY <1>0, <1>1, <1>5, <1>6, SlotsKept
  <2>2. SlotsOK(pool)' /\ SlotsOK(store.pool)'  BY <1>1, <1>5, <1>6, <2>1 DEF SlotsOK, Listed
  <2>3. Booked(books, pool)'  BY <1>6, BookedNext
  <2>4. pl \in [Ids -> Sandbox]  BY <1>6 DEF SlotsOK
  <2>5. TypeOK'  BY <1>0, <1>1, <1>2, <1>4, <1>6, <2>4 DEF TypeOK
  <2>6. MirrorsStore'  BY <1>1, <1>5, <1>6 DEF MirrorsStore
  <2>7. QED  BY <1>4, <2>2, <2>3, <2>5, <2>6 DEF IInv
<1>7. CASE /\ Works /\ mirrored' = TRUE /\ pool' = store.pool /\ quotas' = store.quotas
           /\ books' = [t \in Tenants |-> rebuilt(store.pool, t)]
  <2>1. PICK bs : bs = [t \in Tenants |-> rebuilt(w, t)]  OBVIOUS
  <2>2. SlotsOK(w)  BY <1>0, <1>5
  <2>3. \A t \in Tenants : /\ bs[t] \in Books /\ bs[t].running = Cardinality(Owned(w, t))
                           /\ bs[t].cpu = Total(CpuOf(w, t)) /\ bs[t].mem = Total(MemOf(w, t))
    BY <2>1, <2>2, Restored
  <2>4. bs \in [Tenants -> Books] /\ Booked(bs, w)  BY <2>1, <2>3 DEF Booked
  <2>5. PICK qs \in [Tenants -> Quotas \cup {None}] : qs = store.quotas  BY <1>0 DEF TypeOK
  <2>6. faults' \in 0 .. MaxFaults  BY <1>0, <1>7 DEF Works, TypeOK
  <2>7. books' = bs /\ pool' = w /\ quotas' = qs  BY <1>5, <1>7, <2>1, <2>5
  <2>8. QED  BY <1>3, <1>6, <1>7, <2>2, <2>4, <2>6, <2>7
<1>8. CASE /\ Fails /\ mirrored' = FALSE /\ pool' = EmptyPool /\ quotas' = NoQuotas
           /\ books' = [t \in Tenants |-> NoBooks]
  <2>1. faults' \in 0 .. MaxFaults  BY <1>0, <1>8, PoolAssumption DEF Fails, TypeOK
  <2>2. QED  BY <1>3, <1>6, <1>8, <2>1, Empty
<1>9. QED  BY <1>7, <1>8 DEF Restart

-----------------------------------------------------------------------------
(* The theorems. *)

LEMMA NextInv == ASSUME IInv, [Next]_vars PROVE IInv' /\ WithinQuota
<1>1. CASE UNCHANGED vars
  <2>1. /\ UNCHANGED <<ledgers, host, queue, misc, th, faults>>
        /\ UNCHANGED <<pool, books, mirrored, store, made, live, pending, reported, restarts>>
    BY <1>1 DEF vars, ledgers, host, queue, misc
  <2>2. Members' = Members  BY <2>1 DEF Members
  <2>3. LedgersOK  BY <2>1, Idled
  <2>4. quotas' \in [Tenants -> Quotas \cup {None}]  BY <1>1 DEF vars, IInv, TypeOK
  <2>5. QED  BY <2>1, <2>2, <2>3, <2>4, SameThreads, Assembled
<1>2. ASSUME NEW p \in Procs, Step(p)  PROVE IInv' /\ WithinQuota
  <2>1. CASE \E n \in Tenants, t \in Templates, k \in Tasks : claimPhase1(p, n, t, k)  BY <2>1, Phase1Inv
  <2>2. CASE claimPhase2(p) \/ WarmMake(p)  BY <2>2, MakeInv
  <2>3. CASE claimPhase3(p)  BY <2>3, Phase3Inv
  <2>4. CASE destroy(p) \/ ReleaseDestroy(p)  BY <2>4, DestroyInv
  <2>5. CASE \E t \in Templates, n \in 1 .. MaxWarm : Warm(p, t, n)  BY <2>5, WarmInv
  <2>6. CASE WarmCheck(p)  BY <2>6, WarmCheckInv
  <2>7. CASE WarmCommit(p)  BY <2>7, WarmCommitInv
  <2>8. CASE SweepStart(p) \/ SweepEnd(p)  BY <2>8, SweepInv
  <2>9. CASE \E id \in Ids : SweepOne(p, id)  BY <2>9, SweepOneInv
  <2>10. CASE \E id \in Ids, recycle \in BOOLEAN : Release(p, id, recycle)  BY <2>10, ReleaseInv
  <2>11. CASE \E k \in Tasks, label \in {"suspend", "resume"} : sandboxIDForTask(p, k, label)
    BY <2>11, ForTaskInv
  <2>12. CASE Suspend(p)  BY <2>12, SuspendInv
  <2>13. CASE Resume(p)  BY <2>13, ResumeInv
  <2>14. QED
    BY <1>2, <2>1, <2>2, <2>3, <2>4, <2>5, <2>6, <2>7, <2>8, <2>9, <2>10, <2>11, <2>12, <2>13 DEF Step
<1>3. ASSUME NEW n \in Tenants, NEW q \in Quotas, SetQuota(n, q)  PROVE IInv' /\ WithinQuota
  BY <1>3, SetQuotaInv
<1>4. CASE Tick  BY <1>4, TickInv
<1>5. CASE Restart  BY <1>5, RestartInv
<1>6. QED  BY <1>1, <1>2, <1>3, <1>4, <1>5 DEF Next

LEMMA Inductive == Spec => []IInv
<1>1. Init => IInv  BY InitInv
<1>2. IInv /\ [Next]_vars => IInv'  BY NextInv
<1>3. QED  BY <1>1, <1>2, PTL DEF Spec

\* However many claims and warm-ups are past the capacity check of their
\* first section together, and whatever a restart reads back, the pool never
\* lists more sandboxes than its capacity (claim, Warm, EnablePersistence).
THEOREM PoolBounded == Spec => []Bounded
<1>1. ASSUME IInv  PROVE Bounded
  <2>1. Members = Listed(pool)  BY DEF Members, Listed
  <2>2. QED  BY <1>1, <2>1 DEF IInv, SlotsOK, Bounded, CapacityHeld
<1>2. QED  BY <1>1, Inductive, PTL

\* A tenant is charged for exactly the sandboxes the pool lists for it: no
\* rollback of a failed write, race of two claims, suspend or restart loses or
\* doubles a charge (accountClaim, rollbackClaimLocked, rollbackReleaseLocked,
\* EnablePersistence).
THEOREM ChargesExact == Spec => []CountersMatch
<1>1. ASSUME IInv  PROVE CountersMatch
  <2>1. SUFFICES ASSUME NEW t \in Tenants
        PROVE  /\ books[t].running = Cardinality(BoundTo(t))
               /\ books[t].cpu = Total([i \in Ids |-> IF i \in BoundTo(t) THEN pool[i].cpu ELSE 0])
               /\ books[t].mem = Total([i \in Ids |-> IF i \in BoundTo(t) THEN pool[i].mem ELSE 0])
    BY DEF CountersMatch
  <2>2. BoundTo(t) = Owned(pool, t)  BY DEF BoundTo, Owned
  <2>3. [i \in Ids |-> IF i \in BoundTo(t) THEN pool[i].cpu ELSE 0] = CpuOf(pool, t)  BY DEF BoundTo, CpuOf
  <2>4. [i \in Ids |-> IF i \in BoundTo(t) THEN pool[i].mem ELSE 0] = MemOf(pool, t)  BY DEF BoundTo, MemOf
  <2>5. QED  BY <1>1, <2>2, <2>3, <2>4 DEF IInv, Booked
<1>2. QED  BY <1>1, Inductive, PTL

\* No sandbox leaks before a restart and none is torn down while the pool lists
\* it; and where the store reports an error only for a write it did not make,
\* memory mirrors pool.json (destroy, Release, persistLocked).
THEOREM NothingLost == Spec => [](NoLeak /\ DestroyedNotListed /\ (Undurable = FALSE => SandboxesKept))
<1>1. ASSUME IInv  PROVE NoLeak /\ DestroyedNotListed /\ (Undurable = FALSE => SandboxesKept)
  <2>1. ThreadsOK /\ Kept  BY <1>1 DEF IInv
  <2>2. NoLeak
    <3>1. SUFFICES ASSUME restarts = 0, NEW id \in live
          PROVE  id \in Members \cup InFlight \cup pending \cup reported
      BY DEF NoLeak
    <3>2. Safe(id)  BY <2>1, <3>1 DEF Kept
    <3>3. ASSUME NEW p \in Procs, Carries(th[p]), th[p].id = id  PROVE id \in InFlight
      BY <3>3 DEF InFlight, Holds, Carries
    <3>4. QED  BY <3>2, <3>3 DEF Safe
  <2>3. DestroyedNotListed  BY <2>1 DEF DestroyedNotListed, ThreadsOK, Carries
  <2>4. QED  BY <1>1, <2>2, <2>3 DEF IInv, SandboxesKept
<1>2. QED  BY <1>1, Inductive, PTL

\* No step but a restart raises what a tenant uses beyond the quota in force
\* when it commits, though Factory ran without the lock since the first check
\* (claim, phase 3; Resume).
THEOREM QuotaHeld == Spec => QuotaAtCommit
<1>1. IInv /\ [Next]_vars => WithinQuota  BY NextInv
<1>2. QED  BY <1>1, Inductive, PTL DEF Spec, QuotaAtCommit, WithinQuota
=============================================================================
