------------------------------ MODULE DnsLearn ------------------------------
(***************************************************************************)
(* The DNS-learned egress floor of one task.                               *)
(*                                                                         *)
(* A learner (dnslearn.go) keeps a table of (domain, ip) pairs taken from  *)
(* the answers of allowlisted names and mirrors the addresses into the     *)
(* task's eBPF whitelist map: the table changes under the learner's mutex, *)
(* the map is written after it is released.  StartTask attaches the map    *)
(* (network/filter.go), publishes its learner and takes both down again;   *)
(* the REST handlers (api/dns_egress.go) promote domains, drop hosts and   *)
(* make and delete learners of their own, which have no map to write.      *)
(*                                                                         *)
(* Time is the action Expire: a live entry may pass its expiry at any      *)
(* moment.  The clamp of the TTL between a minimum and the cap is left out.*)
(***************************************************************************)
EXTENDS Integers, FiniteSets, Sequences, SequencesExt

CONSTANTS
    Domains,       \* names that are looked up
    IPs,           \* IPv4 addresses of answers
    Private,       \* those isPublicIPv4 refuses
    AllowDomains,  \* the allowlist of the task's specification
    Workers,       \* goroutines: forwarded queries, sweepers, REST handlers
    MaxLearners,   \* bound: learners made
    MaxMaps,       \* bound: whitelist maps loaded
    Caps,          \* caps on a learner's table: a specification's or a request's
    MapEntries,    \* max_entries of a whitelist map (1024; a cap may be 4096)
    Budget         \* bound: requests, queries and launches

ASSUME LearnAssumption ==
    /\ Private \subseteq IPs /\ AllowDomains \subseteq Domains
    /\ MaxLearners \in Nat /\ MaxMaps \in Nat /\ Budget \in Nat
    /\ Caps \subseteq Nat \ {0} /\ Caps # {} /\ MapEntries \in Nat \ {0}
    /\ IsFiniteSet(IPs)  \* 32 bits

Learners == 1..MaxLearners
Maps == 1..MaxMaps
None == 0

VARIABLES
    learner,     \* the learners: table, allowlist, switch and life
    registered,  \* the learner the process-local registry names
    own,         \* the learner StartTask made
    task,        \* how far the task's launch or teardown has come
    map,         \* the whitelist maps: contents, references, handle
    tap,         \* the map registered for the task's tap
    pin,         \* the map pinned for the task in bpffs
    worker,      \* what each goroutine is doing
    left,        \* the part of Budget not yet spent
    adrift,      \* ghost: addresses whose map entry lost a race or a failed write, or
                 \* that the command line wrote
    replaced     \* ghost: learners that the task's launch took off the registry

lvars == <<learner, registered, own, task, map, tap, pin, worker, left, adrift, replaced>>

Idle == [pc |-> "idle", l |-> None, d |-> "", ops |-> <<>>,
         h |-> None, via |-> "", api |-> FALSE, win |-> None]

Unborn == [st |-> "unborn", nop |-> FALSE, on |-> TRUE, allow |-> {}, cap |-> 0,
           tab |-> [e \in Domains \X (IPs \ Private) |-> "none"], total |-> 0]

LearnInit ==
    /\ learner = [l \in Learners |-> Unborn]
    /\ registered = None /\ own = None /\ task = "down"
    /\ map = [m \in Maps |-> [ips |-> {}, refs |-> 0, st |-> "unloaded"]]
    /\ tap = None /\ pin = None
    /\ worker = [w \in Workers |-> Idle]
    /\ left = Budget
    /\ adrift = {} /\ replaced = {}

Spend == left > 0 /\ left' = left - 1

-----------------------------------------------------------------------------
(* The whitelist-map registry (network/filter.go).                         *)

\* retireLocked: closed at once, or when the last reference is released.
retireLocked(ms, m) == [ms EXCEPT ![m].st = IF ms[m].refs > 0 THEN "retired" ELSE "closed"]

\* WhitelistMapFor, or a handle of its own on the pinned map.
WhitelistMapFor(ms, m) == [ms EXCEPT ![m].refs = @ + 1]

ReleaseWhitelistMap(ms, m) ==
    LET n == ms[m].refs - 1
    IN  [ms EXCEPT ![m].refs = n,
                   ![m].st = IF @ = "retired" /\ n = 0 THEN "closed" ELSE @]

Unregister(ms) == IF tap = None THEN ms ELSE retireLocked(ms, tap)

-----------------------------------------------------------------------------
(* The table.                                                              *)

Allowed(l, d) == d \in learner[l].allow

Live(l) == {e[2] : e \in {x \in DOMAIN learner[l].tab : learner[l].tab[x] = "live"}}
Tabled(l) == {e[2] : e \in {x \in DOMAIN learner[l].tab : learner[l].tab[x] # "none"}}

\* LearnedIPs: what the gateway's rebinding guard is told about a host.
LearnedIPs(l, d) == {ip \in IPs \ Private : learner[l].tab[<<d, ip>>] = "live"}

(* Mutant: an address shared with another domain is deleted. *)
ipStillReferenced_Never(tab, d, ip) == FALSE

\* ipStillReferenced: another domain's live entry holds the address.
ipStillReferenced(tab, d, ip) == \E e \in DOMAIN tab : e[1] # d /\ e[2] = ip /\ tab[e] = "live"

\* Map writes follow the unlock: they are queued here and made one by one.
Writes(kind, ips) == SetToSeq({[op |-> kind, ip |-> ip, stale |-> FALSE] : ip \in ips})

\* A later change of the table overtakes the queued writes of these addresses.
Overtake(kind, ips) ==
    [v \in Workers |-> [worker[v] EXCEPT !.ops =
        [i \in DOMAIN @ |-> IF @[i].op = kind /\ @[i].ip \in ips
                            THEN [@[i] EXCEPT !.stale = TRUE] ELSE @[i]]]]

Queue(ws, w, rec) == [ws EXCEPT ![w] = IF rec.ops = <<>> THEN Idle ELSE rec]

\* Under the mutex: refresh what is there, insert what the cap leaves room for.
ProcessResponse(w, S) ==
    LET l    == worker[w].l
        d    == worker[w].d
        pub  == IF learner[l].on /\ Allowed(l, d) THEN S \ Private ELSE {}
        new  == {ip \in pub : learner[l].tab[<<d, ip>>] = "none"}
    IN  \E ins \in SUBSET new :
          /\ Cardinality(ins) = IF learner[l].total + Cardinality(new) <= learner[l].cap
                                THEN Cardinality(new) ELSE learner[l].cap - learner[l].total
          /\ LET put == (pub \ new) \cup ins
             IN  /\ learner' = [learner EXCEPT
                       ![l].tab = [e \in DOMAIN @ |-> IF e[1] = d /\ e[2] \in put THEN "live" ELSE @[e]],
                       ![l].total = @ + Cardinality(ins)]
                 /\ worker' = Queue(Overtake("del", put), w,
                        [worker[w] EXCEPT !.pc = "write",
                            !.ops = Writes("add", IF learner[l].nop THEN {} ELSE put)])

\* Entries leave the table; the addresses nobody else holds are then deleted.
Evict(w, l, gone, pc) ==
    LET tab    == [e \in DOMAIN learner[l].tab |-> IF e \in gone THEN "none" ELSE learner[l].tab[e]]
        doomed == {e[2] : e \in {x \in gone : ~ipStillReferenced(tab, x[1], x[2])}}
    IN  /\ learner' = [learner EXCEPT ![l].tab = tab, ![l].total = @ - Cardinality(gone)]
        /\ worker' = Queue(Overtake("add", doomed), w,
               [Idle EXCEPT !.pc = pc, !.l = l,
                            !.ops = Writes("del", IF learner[l].nop THEN {} ELSE doomed)])

-----------------------------------------------------------------------------
(* The goroutines of a learner.                                            *)

\* Proxy.serve, Proxy.forward: a query of the guest goes upstream.
Query(w, l, d) ==
    /\ worker[w].pc = "idle" /\ learner[l].st = "live" /\ Spend
    /\ worker' = [worker EXCEPT ![w] = [Idle EXCEPT !.pc = "asked", !.l = l, !.d = d]]
    /\ UNCHANGED <<learner, registered, own, task, map, tap, pin, adrift, replaced>>

\* The answer arrives, for a query of the guest or of LearnNow.
Answer(w, S) ==
    /\ worker[w].pc = "asked"
    /\ ProcessResponse(w, S)
    /\ UNCHANGED <<registered, own, task, map, tap, pin, left, adrift, replaced>>

\* A timeout, another query's answer, no A record or a zero TTL: nothing is learned.
NoAnswer(w) ==
    /\ worker[w].pc = "asked"
    /\ worker' = [worker EXCEPT ![w] = Idle]
    /\ UNCHANGED <<learner, registered, own, task, map, tap, pin, left, adrift, replaced>>

\* Nobody reads the table of a closed learner any more.
Expire(l, e) ==
    /\ learner[l].tab[e] = "live" /\ learner[l].st # "closed"
    /\ learner' = [learner EXCEPT ![l].tab[e] = "expired"]
    /\ UNCHANGED <<registered, own, task, map, tap, pin, worker, left, adrift, replaced>>

sweep(w, l) ==
    /\ worker[w].pc = "idle" /\ learner[l].st = "live"
    /\ \A v \in Workers : ~(worker[v].pc \in {"sweep", "sweeping"} /\ worker[v].l = l)
    /\ LET dead == {e \in DOMAIN learner[l].tab : learner[l].tab[e] = "expired"}
       IN  dead # {} /\ Evict(w, l, dead, "sweep")
    /\ UNCHANGED <<registered, own, task, map, tap, pin, left, adrift, replaced>>

\* AddWhitelistEntry, DeleteWhitelistEntry: first the handle ...
TakeHandle(w) ==
    /\ worker[w].pc \in {"write", "sweep"}
    /\ LET m == IF tap # None THEN tap ELSE pin
       IN  IF m # None
           THEN /\ worker' = [worker EXCEPT ![w].h = m, ![w].via = IF tap # None THEN "tap" ELSE "pin",
                                  ![w].pc = IF @ = "sweep" THEN "sweeping" ELSE "writing"]
                /\ map' = IF tap # None THEN WhitelistMapFor(map, m) ELSE map
           ELSE /\ worker' = Queue(worker, w, [worker[w] EXCEPT !.ops = Tail(@)])
                /\ UNCHANGED map
    /\ UNCHANGED <<learner, registered, own, task, tap, pin, left, adrift, replaced>>

\* bpf_map_update_elem refuses a new key once the map is full.
Room(m, ip) == ip \in map[m].ips \/ Cardinality(map[m].ips) < MapEntries

\* The handle is released and the write is done with, whatever became of it.  A
\* handle taken from the pin is the caller's own.
Wrote(w, ms) ==
    /\ map' = IF worker[w].via = "tap" THEN ReleaseWhitelistMap(ms, worker[w].h) ELSE ms
    /\ worker' = Queue(worker, w, [worker[w] EXCEPT
           !.ops = Tail(@), !.h = None, !.via = "",
           !.pc = IF @ = "sweeping" THEN "sweep" ELSE "write"])
    /\ UNCHANGED <<learner, registered, own, task, tap, pin, left, replaced>>

\* ... then the write.
WriteMap(w) ==
    /\ worker[w].pc \in {"writing", "sweeping"}
    /\ LET m == worker[w].h
           o == worker[w].ops[1]
       IN  /\ o.op = "add" => Room(m, o.ip)
           /\ adrift' = IF o.stale \/ worker[w].l # own THEN adrift \cup {o.ip} ELSE adrift \ {o.ip}
           /\ Wrote(w, [map EXCEPT ![m].ips = IF o.op = "add" THEN @ \cup {o.ip} ELSE @ \ {o.ip}])

\* The map is full, the pinned map does not open or the kernel refuses: the
\* learner logs it and goes on, and its table stays as it is.
WriteFails(w) ==
    /\ worker[w].pc \in {"writing", "sweeping"}
    /\ adrift' = adrift \cup {worker[w].ops[1].ip}
    /\ Wrote(w, map)

\* `agentpvm network whitelist add`, from a process of its own, through the pin.
whitelistAdd(ip) ==
    /\ pin # None /\ Room(pin, ip) /\ Spend
    /\ map' = [map EXCEPT ![pin].ips = @ \cup {ip}]
    /\ adrift' = adrift \cup {ip}
    /\ UNCHANGED <<learner, registered, own, task, tap, pin, worker, replaced>>

-----------------------------------------------------------------------------
(* The task (container/manager.go) and its filter.                         *)

FreshMap == {m \in Maps : map[m].st = "unloaded"}
FreshLearner == {l \in Learners : learner[l].st = "unborn"}
Least(S) == CHOOSE x \in S : \A y \in S : x <= y

\* AttachEgressFilter: load, attach, pin, register; or degrade without a floor.
Attach ==
    /\ task = "down" /\ FreshMap # {} /\ Spend
    /\ LET m == Least(FreshMap)
       IN  /\ map' = [Unregister(map) EXCEPT ![m].st = "tap"]
           /\ tap' = m /\ pin' = m
    /\ task' = "attached" /\ adrift' = {}
    /\ UNCHANGED <<learner, registered, own, worker, replaced>>

AttachFails ==
    /\ task = "down" /\ Spend
    /\ task' = "attached" /\ adrift' = {}
    /\ UNCHANGED <<learner, registered, own, map, tap, pin, worker, replaced>>

\* dnslearn.New, Run, StartProxy, Register: whatever was registered is replaced.
Publish ==
    /\ task = "attached" /\ FreshLearner # {}
    /\ LET l == Least(FreshLearner)
       IN  /\ \E cap \in Caps : learner' =
                  [learner EXCEPT ![l].st = "live", ![l].allow = AllowDomains, ![l].cap = cap]
           /\ registered' = l /\ own' = l
    /\ task' = "up" /\ replaced' = replaced \cup ({registered} \ {None})
    /\ UNCHANGED <<map, tap, pin, worker, left, adrift>>

\* Learner.Close: the second caller does not wait.
Close(l) == IF learner[l].st = "live" THEN [learner EXCEPT ![l].st = "closing"] ELSE learner
Sweeping(l) == \E v \in Workers : worker[v].pc \in {"sweep", "sweeping"} /\ worker[v].l = l

\* dnsTeardown: Unregister if it is still the registered one, cancel, Close.
dnsTeardown ==
    /\ task = "up"
    /\ registered' = IF registered = own THEN None ELSE registered
    /\ learner' = Close(own)
    /\ task' = IF learner[own].st = "live" THEN "tearing" ELSE "detach"
    /\ UNCHANGED <<own, map, tap, pin, worker, left, adrift, replaced>>

Torn ==
    /\ task = "tearing" /\ ~Sweeping(own)
    /\ learner' = [learner EXCEPT ![own].st = "closed"]
    /\ task' = "detach"
    /\ UNCHANGED <<registered, own, map, tap, pin, worker, left, adrift, replaced>>

\* DetachTaskFilter: unregister the map, then remove the pin.
DetachMap ==
    /\ task = "detach"
    /\ map' = Unregister(map) /\ tap' = None
    /\ own' = None /\ task' = "unpin"
    /\ UNCHANGED <<learner, registered, pin, worker, left, adrift, replaced>>

Unpin ==
    /\ task = "unpin"
    /\ pin' = None /\ task' = "down"
    /\ UNCHANGED <<learner, registered, own, map, tap, worker, left, adrift, replaced>>

-----------------------------------------------------------------------------
(* The REST handlers (api/dns_egress.go).                                  *)

\* dnsTaskLock: one handler that makes, changes or deletes a learner at a time.
dnsTaskLock == \A v \in Workers : ~worker[v].api

\* POST allow on a registered learner: AddAllow, then LearnNow asks upstream.
PostAllow(w, d) ==
    /\ worker[w].pc = "idle" /\ dnsTaskLock /\ registered # None /\ Spend
    /\ learner' = [learner EXCEPT ![registered].allow = @ \cup {d}]
    /\ worker' = [worker EXCEPT ![w] =
           [Idle EXCEPT !.pc = "asked", !.l = registered, !.d = d, !.api = TRUE]]
    /\ UNCHANGED <<registered, own, task, map, tap, pin, adrift, replaced>>

\* POST allow of d, or PUT policy (d = "") that enables: For() finds none and one is made.
ensureDNSLearner(w, d, D) ==
    /\ worker[w].pc = "idle" /\ dnsTaskLock /\ registered = None /\ FreshLearner # {} /\ Spend
    /\ LET l == Least(FreshLearner)
       IN  /\ \E cap \in Caps : learner' =
                  [learner EXCEPT ![l].st = "live", ![l].nop = TRUE, ![l].allow = D, ![l].cap = cap]
           /\ worker' = [worker EXCEPT ![w] = [Idle EXCEPT !.pc = "made", !.l = l, !.d = d, !.api = TRUE]]
    /\ UNCHANGED <<registered, own, task, map, tap, pin, adrift, replaced>>

\* The rest of POST allow, on the learner it got; PUT policy is done.
Promote(ls, w, l) ==
    LET d == worker[w].d
    IN  IF d = "" THEN learner' = ls /\ worker' = [worker EXCEPT ![w] = Idle]
        ELSE /\ learner' = [ls EXCEPT ![l].allow = @ \cup {d}]
             /\ worker' = [worker EXCEPT ![w] = [Idle EXCEPT !.pc = "asked", !.l = l, !.d = d, !.api = TRUE]]

\* GetOrCreate: the maker publishes, or closes what it made and uses the winner's.
GetOrCreate(w) ==
    /\ worker[w].pc = "made"
    /\ IF registered = None
       THEN registered' = worker[w].l /\ Promote(learner, w, worker[w].l)
       ELSE /\ learner' = Close(worker[w].l)
            /\ worker' = [worker EXCEPT ![w].pc = "wait", ![w].win = registered]
            /\ UNCHANGED registered
    /\ UNCHANGED <<own, task, map, tap, pin, left, adrift, replaced>>

\* PUT policy on a live learner: the switch and the allowlist.
PutPolicy(on, D) ==
    /\ dnsTaskLock /\ registered # None /\ Spend
    /\ learner' = [learner EXCEPT ![registered].on = on, ![registered].allow = @ \cup D]
    /\ UNCHANGED <<registered, own, task, map, tap, pin, worker, adrift, replaced>>

\* DELETE policy: Unregister and Close under the lock, the task's learner too.
DeletePolicy(w) ==
    /\ worker[w].pc = "idle" /\ dnsTaskLock /\ registered # None /\ Spend
    /\ learner' = Close(registered) /\ registered' = None
    /\ worker' = [worker EXCEPT ![w] =
           [Idle EXCEPT !.pc = "wait", !.l = registered, !.api = TRUE]]
    /\ UNCHANGED <<own, task, map, tap, pin, adrift, replaced>>

\* wg.Wait of Close has ended.
Waited(w) ==
    /\ worker[w].pc = "wait" /\ ~Sweeping(worker[w].l)
    /\ Promote([learner EXCEPT ![worker[w].l].st = "closed"], w, worker[w].win)
    /\ UNCHANGED <<registered, own, task, map, tap, pin, left, adrift, replaced>>

\* DELETE learned/:host, which takes no lock.
Drop(w, d) ==
    /\ worker[w].pc = "idle" /\ registered # None /\ Spend
    /\ LET gone == {e \in DOMAIN learner[registered].tab :
                        e[1] = d /\ learner[registered].tab[e] # "none"}
       IN  gone # {} /\ Evict(w, registered, gone, "write")
    /\ UNCHANGED <<registered, own, task, map, tap, pin, adrift, replaced>>

-----------------------------------------------------------------------------
LearnNext ==
    \/ \E w \in Workers, l \in Learners, d \in Domains : Query(w, l, d)
    \/ \E w \in Workers, S \in SUBSET IPs \ {{}} : Answer(w, S)
    \/ \E w \in Workers : NoAnswer(w) \/ TakeHandle(w) \/ WriteMap(w) \/ WriteFails(w)
    \/ \E ip \in IPs : whitelistAdd(ip)
    \/ \E l \in Learners : \E e \in Domains \X (IPs \ Private) : Expire(l, e)
    \/ \E w \in Workers, l \in Learners : sweep(w, l)
    \/ Attach \/ AttachFails \/ Publish \/ dnsTeardown \/ Torn \/ DetachMap \/ Unpin
    \/ \E w \in Workers, d \in Domains : PostAllow(w, d) \/ Drop(w, d)
    \/ \E w \in Workers, d \in Domains : ensureDNSLearner(w, d, {})
    \/ \E w \in Workers : ensureDNSLearner(w, "", AllowDomains)
    \/ \E w \in Workers : GetOrCreate(w) \/ DeletePolicy(w) \/ Waited(w)
    \/ \E on \in BOOLEAN, D \in {{}} \cup {{d} : d \in Domains} : PutPolicy(on, D)

-----------------------------------------------------------------------------
Pending(l, kind) ==
    UNION {{o.ip : o \in {worker[w].ops[i] : i \in DOMAIN worker[w].ops}} :
               w \in {v \in Workers : worker[v].l = l
                          /\ \E i \in DOMAIN worker[v].ops : worker[v].ops[i].op = kind}}

\* The counter the cap is compared with is the size of the table.
Counted(l) ==
    /\ learner[l].total = Cardinality({e \in DOMAIN learner[l].tab : learner[l].tab[e] # "none"})
    /\ learner[l].total <= learner[l].cap

(***************************************************************************)
(* While a task with a filter runs with its learner (dnslearn.go           *)
(* ProcessResponse, Drop, sweep), every address of a live table entry is   *)
(* in the whitelist map or about to be written, and every address in the   *)
(* map stands in the table or is about to be deleted.  The exception are   *)
(* the addresses "adrift", until a later write of the learner sets them    *)
(* right: table changes and map writes are two steps, and a write that a   *)
(* later table change overtook, that failed (the map is full, say), or     *)
(* that a learner of an earlier run made, is not made good; nor does the   *)
(* table know what `agentpvm network whitelist add` writes.  The tables    *)
(* stay within their caps, expired entries that wait for the sweeper       *)
(* included.                                                               *)
(***************************************************************************)
FloorMatchesTable ==
    /\ \A l \in Learners : learner[l].st # "unborn" => Counted(l)
    /\ (task = "up" /\ tap # None /\ learner[own].st = "live") =>
         /\ Live(own) \subseteq map[tap].ips \cup Pending(own, "add") \cup adrift
         /\ map[tap].ips \subseteq Tabled(own) \cup Pending(own, "del") \cup adrift

(***************************************************************************)
(* A whitelist map handle (network/filter.go) is never closed under a      *)
(* caller that holds it, and is closed once nobody can reach it; a learner *)
(* that runs is registered, owned by the task, being closed or about to    *)
(* be published, or was replaced by the task's launch.                     *)
(***************************************************************************)
NothingLeaked ==
    /\ \A w \in Workers : worker[w].via = "tap" => map[worker[w].h].st # "closed"
    /\ \A m \in Maps : map[m].st = "retired" => map[m].refs > 0
    /\ \A m \in Maps : map[m].st = "tap" <=> tap = m
    /\ \A l \in Learners :
         learner[l].st = "live" => \/ l \in {registered, own} \cup replaced
                                   \/ \E w \in Workers : worker[w].pc = "made" /\ worker[w].l = l

(***************************************************************************)
(* The kernel's maps and the learners that fill them stay in step.         *)
(***************************************************************************)
LearnerSound == FloorMatchesTable /\ NothingLeaked
=============================================================================
