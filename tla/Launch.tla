------------------------------- MODULE Launch -------------------------------
(***************************************************************************)
(* container.Manager.StartTask: one launch is one `agentpvm run' process,  *)
(* and launches share the host: the uid table, the state and overlay files *)
(* of a task, the port registry and the iptables rules.                    *)
(*                                                                         *)
(* A launch acquires its resources in stages.  A stage that fails records  *)
(* Failed, detaches the volumes and returns, and the deferred functions    *)
(* registered so far run in reverse order; `defers' is that stack.  Some   *)
(* failures only lower the protection of the task: they go on, provided a  *)
(* warning can be written to the audit ledger.                             *)
(***************************************************************************)
EXTENDS Naturals, Sequences, FiniteSets, TaskState

CONSTANTS
    Procs,      \* launches, each in a process of its own
    Tasks,      \* task ids
    SpecOf,     \* the TaskSpec each task is launched with
    Slots,      \* number of 65536-wide ranges in the uid space
    Overlap,    \* a task may be launched while a launch of it is under way
    MaxFaults,  \* bound: failed operations and killed processes
    NoProc      \* no launch

TaskSpec == [net: {"none", "bridge", "tc", "auto"}, \* with a tap, unless "none"
             bridge: BOOLEAN,                        \* network.bridge is set
             policy: BOOLEAN,                        \* an egress rule or domain list
             ports: SUBSET Nat,                      \* host ports to publish
             dns: BOOLEAN,                           \* network.dns_learn_enabled
             disk: {"ubd", "overlay", "ephemeral"},
             vols: Nat,
             limits: BOOLEAN,                        \* memory or cpu limits requested
             degradable: BOOLEAN,                    \* security.allow_insecure_degraded
             compact: BOOLEAN]

ASSUME LaunchAssumption ==
    /\ Tasks # {} /\ SpecOf \in [Tasks -> TaskSpec]
    /\ Slots \in Nat
    /\ Overlap \in BOOLEAN
    /\ MaxFaults \in Nat
    /\ NoProc \notin Procs

VARIABLES
    uids,      \* uidmap.json: the slot of each task, 0 for none
    corrupt,   \* uidmap.json no longer decodes
    wiped,     \* launches whose range it forgot when a rewrite of it failed
    status,    \* state.json
    unsaved,   \* launches whose last save of it failed
    overlays,  \* tasks whose qcow2 overlay is on disk
    portFile,  \* portmappings.json
    rules,     \* DNAT rules installed
    last,      \* newest launch of each task
    faults,    \* failures so far
    run        \* the launches

uidVars  == <<uids, corrupt, wiped>>
portVars == <<portFile, rules>>
vars == <<uids, corrupt, wiped, status, unsaved, overlays, portFile, rules, last, faults, run>>

\* What a launch can hold.  Of these, the host keeps HostRes when the process dies.
HostRes == {"socket", "dataplane", "l7rules", "filter", "jail"}
Res == HostRes \cup {"backend", "tln", "listener", "tapfd", "ip", "learner",
                     "logs", "console", "timer"}

\* What a launch can leave behind when an operation of it fails.
Left == Res \cup {"uid", "overlay", "volume", "rules", "record"}

\* Protections a launch can do without.
Layers == {"lsm", "namespaces", "userns", "transparent", "gateway", "tc",
           "l7rules", "filter", "ports", "dnsmap"}

Deferred == {"uid", "overlay", "vhost", "tln", "listener", "tapfd", "net",
             "dns", "timer", "logs", "jail", "console"}

PCs == {"idle", "evidence", "security", "uid", "volumes", "disk", "vhost",
        "egress", "listen", "loopback", "mint", "tap", "net", "ipam", "l7",
        "filter", "ports", "dns", "args", "logs", "jail", "launch", "cgroup",
        "release", "start", "wait", "compact", "compacting", "unwind",
        "returned", "crashed"}

Mappings == (UNION {SpecOf[t].ports : t \in Tasks}) \X Tasks

Launches ==
    [pc: PCs, task: Tasks, status: Status, slot: 0 .. Slots, vols: Nat,
     held: SUBSET Res, defers: Seq(Deferred), degr: SUBSET Layers,
     warned: SUBSET Layers, guest: {"none", "barrier", "free", "dead"},
     addr: 0 .. 1, loaded: BOOLEAN, mem: SUBSET Mappings,
     created: BOOLEAN, committed: BOOLEAN, limited: BOOLEAN,
     started: BOOLEAN, left: SUBSET Left]

TypeOK ==
    /\ uids \in [Tasks -> 0 .. Slots]
    /\ corrupt \in BOOLEAN /\ wiped \subseteq Procs
    /\ status \in [Tasks -> Status] /\ unsaved \subseteq Procs
    /\ overlays \subseteq Tasks
    /\ portFile \subseteq Mappings /\ rules \subseteq Mappings
    /\ last \in [Tasks -> Procs \cup {NoProc}]
    /\ faults \in 0 .. MaxFaults
    /\ run \in [Procs -> Launches]

Fresh(t, pc) ==
    [pc |-> pc, task |-> t, status |-> "pending", slot |-> 0, vols |-> 0,
     held |-> {}, defers |-> <<>>, degr |-> {}, warned |-> {}, guest |-> "none",
     addr |-> 0, loaded |-> FALSE, mem |-> {}, created |-> FALSE,
     committed |-> FALSE, limited |-> FALSE, started |-> FALSE, left |-> {}]

Init ==
    /\ uids = [t \in Tasks |-> 0]
    /\ corrupt = FALSE /\ wiped = {}
    /\ status = [t \in Tasks |-> "pending"] /\ unsaved = {}
    /\ overlays = {} /\ portFile = {} /\ rules = {}
    /\ last = [t \in Tasks |-> NoProc]
    /\ faults = 0
    /\ run \in [Procs -> {Fresh(t, "idle") : t \in {CHOOSE t \in Tasks : TRUE}}]

-----------------------------------------------------------------------------
(* Steps of a launch. *)

At(p, pc) == run[p].pc = pc
TaskSpecOf(p) == SpecOf[run[p].task]
Alive(p) == run[p].guest \in {"barrier", "free"}

Go(r, pc) == [r EXCEPT !.pc = pc]
Hold(r, res) == [r EXCEPT !.held = @ \cup res]
Drop(r, res) == [r EXCEPT !.held = @ \ res]
Defer(r, d) == [r EXCEPT !.defers = <<d>> \o @]
MovedTo(r, s) == IF canTransition(r.status, s) THEN [r EXCEPT !.status = s] ELSE r
Killed(r) == [r EXCEPT !.guest = IF @ = "none" THEN @ ELSE "dead"]

\* cleanupVolumes: the error of a detach is dropped, and n volumes stay.
Detached(r, n) ==
    [r EXCEPT !.vols = n, !.left = IF n = 0 THEN @ ELSE @ \cup {"volume"}]

Abandoned(r, n) == [MovedTo(Detached(r, n), "failed") EXCEPT !.pc = "unwind"]

Fault(n) == faults + n <= MaxFaults /\ faults' = faults + n

\* state.json becomes s, or the write fails and nobody looks at the error; n
\* failures led here.
SaveState(p, t, s, n) ==
    \/ status' = [status EXCEPT ![t] = s] /\ unsaved' = unsaved \ {p} /\ Fault(n)
    \/ UNCHANGED status /\ unsaved' = unsaved \cup {p} /\ Fault(n + 1)

\* The launch becomes r; state.json is written / is left alone.
Save(p, r, n) ==
    /\ run' = [run EXCEPT ![p] = r]
    /\ SaveState(p, r.task, r.status, n)
    /\ UNCHANGED last
Keep(p, r) ==
    /\ run' = [run EXCEPT ![p] = r]
    /\ UNCHANGED <<status, unsaved, last>>

\* The shape of every error return: the volumes are detached, Failed is
\* recorded in memory and on disk, and the deferred functions are left to run.
Abandon(p, r, n) == \E k \in 0 .. r.vols : Save(p, Abandoned(r, k), n + k)

Private == UNCHANGED <<uids, corrupt, wiped, overlays, portFile, rules>>

\* The protection `layer' is missing.  The launch goes on as r once the
\* warning is in the ledger; when it cannot be written the launch fails.
\* n is 1 when a failure of the host brought us here, 0 when the spec did.
Degraded(p, layer, r, n) ==
    /\ Private
    /\ \/ /\ Fault(n)
          /\ Keep(p, [r EXCEPT !.degr = @ \cup {layer}, !.warned = @ \cup {layer}])
       \/ Abandon(p, [r EXCEPT !.degr = @ \cup {layer}], n + 1)

Ok(p, r) == Keep(p, r) /\ Private /\ UNCHANGED faults

-----------------------------------------------------------------------------
(* Up to the uid range. *)

Running(p) == run[p].pc \notin {"idle", "returned", "crashed"}

\* The spec is valid and persisted, the ledger opens, Pending is saved.
Begin(p, t) ==
    /\ At(p, "idle")
    /\ Overlap \/ \A q \in Procs : Running(q) => run[q].task # t
    /\ run' = [run EXCEPT ![p] = Fresh(t, "evidence")]
    /\ SaveState(p, t, "pending", 0)
    /\ last' = [last EXCEPT ![t] = p]
    /\ Private

\* The spec or a kernel field is refused, or spec.json or the ledger cannot
\* be written: StartTask returns before it touches the state.
Refused(p, t) ==
    /\ At(p, "idle")
    /\ Fault(1)
    /\ Keep(p, Fresh(t, "returned")) /\ Private

\* The specification evidence is in the ledger.
RecordSpec(p) == At(p, "evidence") /\ Ok(p, Go(run[p], "security"))

CheckSecurity(p) ==
    /\ At(p, "security")
    /\ \/ Ok(p, Go(run[p], "uid"))
       \/ /\ TaskSpecOf(p).degradable
          /\ \E layer \in {"lsm", "namespaces", "userns"} :
                Degraded(p, layer, Go(run[p], "uid"), 1)

Free == {s \in 1 .. Slots : \A t \in Tasks : uids[t] # s}

lowestFree == CHOOSE s \in Free : \A f \in Free : s <= f

\* uidalloc: the task's slot if it has one, else the lowest free one.
Slot(t) == IF uids[t] # 0 THEN uids[t] ELSE lowestFree
CanAllocate(t) == ~corrupt /\ (uids[t] # 0 \/ Free # {})

Provisioning(p, slot) ==
    MovedTo(Defer([Go(run[p], "volumes") EXCEPT !.slot = slot], "uid"), "provisioning")

Allocate(p) ==
    LET t == run[p].task IN
    /\ At(p, "uid") /\ CanAllocate(t)
    /\ uids' = [uids EXCEPT ![t] = Slot(t)]
    /\ Save(p, Provisioning(p, Slot(t)), 0)
    /\ UNCHANGED <<corrupt, wiped, overlays, portFile, rules>>

\* A rewrite of the table that stops after the truncation: an empty file reads
\* as an empty table, half a document does not decode.
Torn ==
    \/ /\ uids' = [t \in Tasks |-> 0]
       /\ wiped' = wiped \cup {q \in Procs : Running(q) /\ run[q].slot # 0}
       /\ UNCHANGED corrupt
    \/ corrupt' = TRUE /\ UNCHANGED <<uids, wiped>>

\* No range: the table is exhausted or damaged, or cannot be locked, truncated
\* or written.  A task that may do without goes on once the warning is in the
\* ledger; r is the launch as it was, or with the range it does not know of.
NoRange(p, r, n) ==
    LET without(x) == [x EXCEPT !.degr = @ \cup {"userns"}] IN
    IF TaskSpecOf(p).degradable
    THEN \/ Save(p, [without(Provisioning(p, 0)) EXCEPT !.warned = @ \cup {"userns"}], n)
         \/ Abandon(p, without(r), n + 1)
    ELSE Abandon(p, r, n)

AllocateFails(p) ==
    LET t == run[p].task IN
    /\ At(p, "uid")
    /\ NoRange(p, run[p], IF CanAllocate(t) THEN 1 ELSE 0)
    /\ UNCHANGED uidVars \/ (CanAllocate(t) /\ Torn)
    /\ UNCHANGED <<overlays, portFile, rules>>

\* The table is written and its fsync fails: the release is deferred only after
\* the error return.
AllocateUnsynced(p) ==
    LET t == run[p].task IN
    /\ At(p, "uid") /\ CanAllocate(t)
    /\ NoRange(p, [run[p] EXCEPT !.left = @ \cup {"uid"}], 1)
    /\ uids' = [uids EXCEPT ![t] = Slot(t)]
    /\ UNCHANGED <<corrupt, wiped, overlays, portFile, rules>>

-----------------------------------------------------------------------------
(* Storage. *)

AttachVolume(p) ==
    /\ At(p, "volumes") /\ run[p].vols < TaskSpecOf(p).vols
    /\ Ok(p, [run[p] EXCEPT !.vols = @ + 1])

VolumesAttached(p) ==
    /\ At(p, "volumes") /\ run[p].vols = TaskSpecOf(p).vols
    /\ Ok(p, Go(run[p], "disk"))

\* Only the vhost path has an overlay; CreateOverlay replaces a stale one.
ProvisionDisk(p) ==
    LET disk == TaskSpecOf(p).disk
        next == IF disk = "ubd" THEN "egress" ELSE "vhost"
    IN
    /\ At(p, "disk")
    /\ overlays' = IF disk = "overlay" THEN overlays \cup {run[p].task} ELSE overlays
    /\ Keep(p, Defer([Go(run[p], next) EXCEPT !.created = (disk = "overlay")], "overlay"))
    /\ UNCHANGED <<uids, corrupt, wiped, portFile, rules, faults>>

\* CreateOverlay has removed the stale overlay and fails before the new file
\* exists, or once it does; or the chown of the new overlay fails.  StartTask
\* returns before overlayCreated is set and before the function that would
\* remove the overlay is deferred.
OverlayFails(p) ==
    /\ At(p, "disk") /\ TaskSpecOf(p).disk = "overlay"
    /\ \/ overlays' = overlays \ {run[p].task} /\ Abandon(p, run[p], 1)
       \/ /\ overlays' = overlays \cup {run[p].task}
          /\ Abandon(p, [run[p] EXCEPT !.left = @ \cup {"overlay"}], 1)
    /\ UNCHANGED <<uids, corrupt, wiped, portFile, rules>>

StartBlk(p) ==
    /\ At(p, "vhost")
    /\ Ok(p, Defer(Hold(Go(run[p], "egress"), {"backend", "socket"}), "vhost"))

\* The backend serves, the chmod or chown of its socket fails: StartTask
\* returns before the function that closes it is deferred.
SocketGrantFails(p) ==
    /\ At(p, "vhost") /\ run[p].slot # 0
    /\ Abandon(p, [Hold(run[p], {"backend", "socket"}) EXCEPT !.left = @ \cup {"backend", "socket"}], 1)
    /\ Private

-----------------------------------------------------------------------------
(* Network. *)

\* The process is root: auto means bridge only for ports or an egress policy.
resolveAutoDataplane(s) == IF s.ports # {} \/ s.policy THEN "bridge" ELSE "tc"
Dataplane(s) == IF s.net = "auto" THEN resolveAutoDataplane(s) ELSE s.net

Networked(p) == TaskSpecOf(p).net # "none"

\* The listener for redirected traffic: bridge plane with a policy.
ListenTransparent(p) ==
    LET s == TaskSpecOf(p)
        next == IF Networked(p) THEN "listen" ELSE "mint"
    IN
    /\ At(p, "egress")
    /\ IF s.policy /\ Dataplane(s) = "bridge"
       THEN \/ Ok(p, Defer(Hold(Go(run[p], next), {"tln"}), "tln"))
            \/ Degraded(p, "transparent", Go(run[p], next), 1)
       ELSE Ok(p, Go(run[p], next))

\* The explicit proxy; on the tc plane it falls back to loopback.
ListenForTask(p) ==
    /\ At(p, "listen") \/ At(p, "loopback")
    /\ \/ Ok(p, Defer(Hold(Go(run[p], "mint"), {"listener"}), "listener"))
       \/ /\ At(p, "listen") /\ Dataplane(TaskSpecOf(p)) = "tc"
          /\ Degraded(p, "gateway", Go(run[p], "loopback"), 1)

Mint(p) ==
    /\ At(p, "mint")
    /\ Ok(p, Go(run[p], IF Networked(p) THEN "tap" ELSE "args"))

\* The monitor will run in a user namespace of its own.
rootlessJailActive(p) ==
    run[p].slot # 0 /\ run[p].degr \cap {"namespaces", "userns"} = {}

\* Only such a monitor needs the host to open the tap for it.
OpenTap(p) ==
    /\ At(p, "tap")
    /\ IF rootlessJailActive(p)
       THEN Ok(p, Defer(Hold(Go(run[p], "net"), {"tapfd"}), "tapfd"))
       ELSE Ok(p, Go(run[p], "net"))

\* Mutant: detachNet is deferred only once the tc plane is up.
AttachPlane_LateDefer(p) ==
    /\ At(p, "net")
    /\ IF Dataplane(TaskSpecOf(p)) = "tc"
       THEN Ok(p, Hold(Go(Defer(run[p], "net"), "ports"), {"dataplane"}))
       ELSE Ok(p, Go(run[p], "ipam"))

\* detachNet is deferred before anything is attached.
AttachPlane(p) ==
    LET s == TaskSpecOf(p)
        r == Defer(run[p], "net")
    IN
    /\ At(p, "net")
    /\ IF Dataplane(s) = "tc"
       THEN \/ Ok(p, Hold(Go(r, "ports"), {"dataplane"}))
            \/ Degraded(p, "tc", Go(r, IF s.bridge THEN "ipam" ELSE "ports"), 1)
       ELSE Ok(p, Go(r, "ipam"))

\* SharedIPAM is memory of this process, which launches one task: the
\* allocator has handed out nothing yet and gives its first address.
AllocateIP(p) ==
    /\ At(p, "ipam")
    /\ Ok(p, Hold([Go(run[p], "l7") EXCEPT !.addr = 1], {"ip"}))

EnableTransparentL7(p) ==
    /\ At(p, "l7")
    /\ IF "tln" \in run[p].held
       THEN \/ Ok(p, Hold(Go(run[p], "filter"), {"l7rules"}))
            \/ Degraded(p, "l7rules", Go(run[p], "filter"), 1)
       ELSE Ok(p, Go(run[p], "filter"))

AttachEgressFilter(p) ==
    /\ At(p, "filter")
    /\ \/ Ok(p, Hold(Go(run[p], "ports"), {"filter"}))
       \/ Degraded(p, "filter", Go(run[p], "ports"), 1)

\* The port registry: read from its file once per process, then kept in
\* memory, and written back whole.
Registry(r) == IF r.loaded THEN r.mem ELSE portFile
Wanted(p) == TaskSpecOf(p).ports \X {run[p].task}
Taken(p) == \E m \in Registry(run[p]) : m[1] \in TaskSpecOf(p).ports

OnBridge(p) == "ip" \in run[p].held

AddPortMappings(p) ==
    LET mem == Registry(run[p]) \cup Wanted(p)
        r == [run[p] EXCEPT !.loaded = TRUE, !.mem = mem]
    IN
    /\ At(p, "ports") /\ OnBridge(p) /\ Wanted(p) # {} /\ ~Taken(p)
    /\ portFile' = mem
    /\ rules' = rules \cup Wanted(p)
    /\ Keep(p, Go(r, "dns"))
    /\ UNCHANGED <<uids, corrupt, wiped, overlays, faults>>

\* The registry has the port, under whatever task.
PortTaken(p) ==
    /\ At(p, "ports") /\ OnBridge(p) /\ Taken(p)
    /\ Abandon(p, [run[p] EXCEPT !.loaded = TRUE, !.mem = Registry(run[p])], 0)
    /\ Private

NoPortMappings(p) ==
    /\ At(p, "ports")
    /\ \/ Wanted(p) = {} /\ Ok(p, Go(run[p], "dns"))
       \/ Wanted(p) # {} /\ ~OnBridge(p) /\ Degraded(p, "ports", Go(run[p], "dns"), 0)

StartLearner(p) ==
    LET r == Defer(Hold(Go(run[p], "args"), {"learner"}), "dns") IN
    /\ At(p, "dns")
    /\ IF ~TaskSpecOf(p).dns THEN Ok(p, Go(run[p], "args"))
       ELSE IF "filter" \in run[p].held THEN Ok(p, r)
       ELSE \/ /\ UNCHANGED faults /\ Private
               /\ Keep(p, [r EXCEPT !.degr = @ \cup {"dnsmap"}, !.warned = @ \cup {"dnsmap"}])
            \/ Private /\ Abandon(p, [run[p] EXCEPT !.degr = @ \cup {"dnsmap"}], 1)

-----------------------------------------------------------------------------
(* The guest. *)

\* Seccomp evidence and kernel arguments; the deferred Disarm.
BuildArgs(p) == At(p, "args") /\ Ok(p, Defer(Go(run[p], "logs"), "timer"))

\* Console logs, then Ready.
OpenLogs(p) ==
    /\ At(p, "logs")
    /\ Save(p, MovedTo(Defer(Hold(Go(run[p], "jail"), {"logs"}), "logs"), "ready"), 0)
    /\ Private

SetupJail(p) ==
    /\ At(p, "jail")
    /\ Ok(p, Defer(Hold(Go(run[p], "launch"), {"jail"}), "jail"))

\* The guest waits at the barrier of its jail; without namespaces there is none.
LauncherStart(p) ==
    LET guest == IF "namespaces" \in run[p].degr THEN "free" ELSE "barrier" IN
    /\ At(p, "launch")
    /\ Ok(p, Defer(Hold([Go(run[p], "cgroup") EXCEPT !.guest = guest], {"console"}), "console"))

CgroupSetup(p) ==
    /\ At(p, "cgroup")
    /\ \/ Ok(p, [Go(run[p], "release") EXCEPT !.limited = TRUE])
       \/ /\ Private
          /\ IF TaskSpecOf(p).limits
             THEN Abandon(p, Killed(run[p]), 1)
             ELSE Fault(1) /\ Keep(p, Go(run[p], "release"))

\* SignalReady, then Running.
SignalReady(p) ==
    /\ At(p, "release")
    /\ Save(p, MovedTo([Go(run[p], "start") EXCEPT !.guest = IF @ = "barrier" THEN "free" ELSE @],
                       "running"), 0)
    /\ Private

\* Mutant: the launch fails without the record and leaves the guest running.
TaskStart_NoKill(p) ==
    /\ At(p, "start")
    /\ \/ Ok(p, Hold([Go(run[p], "wait") EXCEPT !.started = TRUE, !.committed = TRUE], {"timer"}))
       \/ Private /\ Abandon(p, run[p], 1)

\* The task:start record; without it the guest is killed and reaped.
TaskStart(p) ==
    /\ At(p, "start")
    /\ \/ Ok(p, Hold([Go(run[p], "wait") EXCEPT !.started = TRUE, !.committed = TRUE], {"timer"}))
       \/ Private /\ Abandon(p, Killed(run[p]), 1)

\* The guest exits, or is killed from outside.
GuestExit(p) ==
    /\ Alive(p)
    /\ Ok(p, Killed(run[p]))

Wait(p) ==
    /\ At(p, "wait") /\ ~Alive(p)
    /\ \E verdict \in {"review", "failed"}, n \in 0 .. run[p].vols :
          Save(p, MovedTo(Detached(Go(run[p], "compact"), n), verdict), n)
    /\ Private

\* Mutant: the error of the close is ignored.
CloseBackend_Ignored(p) ==
    /\ At(p, "compact")
    /\ IF TaskSpecOf(p).compact /\ run[p].created
       THEN \/ Ok(p, Drop(Go(run[p], "compacting"), {"backend"}))
            \/ Fault(1) /\ Private /\ Keep(p, Go(run[p], "compacting"))
       ELSE Ok(p, Go(run[p], "unwind"))

\* Compaction needs the backend closed; when the close fails it is skipped.
CloseBackend(p) ==
    /\ At(p, "compact")
    /\ IF TaskSpecOf(p).compact /\ run[p].created
       THEN \/ Ok(p, Drop(Go(run[p], "compacting"), {"backend"}))
            \/ Fault(1) /\ Private /\ Keep(p, Go(run[p], "unwind"))
       ELSE Ok(p, Go(run[p], "unwind"))

Compact(p) == At(p, "compacting") /\ Ok(p, Go(run[p], "unwind"))

-----------------------------------------------------------------------------
(* Error returns, the deferred functions, and the death of a process. *)

HardStages == {"evidence", "security", "vhost", "loopback", "mint", "ipam",
               "args", "logs", "jail", "launch"}

\* The stages whose operation can fail, and when they attempt it at all.
CanFail(p) ==
    LET s == TaskSpecOf(p) IN
    \/ run[p].pc \in HardStages
    \/ At(p, "volumes") /\ run[p].vols < s.vols
    \/ At(p, "disk") /\ s.disk # "ubd"
    \/ At(p, "listen") /\ Dataplane(s) = "bridge"
    \/ At(p, "tap") /\ rootlessJailActive(p)
    \/ At(p, "ports") /\ OnBridge(p) /\ Wanted(p) # {}
    \/ At(p, "dns") /\ s.dns

\* The stage's operation fails: nothing of it is left behind.
StageFails(p) ==
    /\ CanFail(p)
    /\ Abandon(p, run[p], 1)
    /\ Private

OwnMappings(p) == {m \in Registry(run[p]) : m[2] = run[p].task}

\* What each deferred function releases.
Releases == [uid |-> {}, overlay |-> {}, vhost |-> {"backend", "socket"},
             tln |-> {"tln"}, listener |-> {"listener"}, tapfd |-> {"tapfd"},
             net |-> {"dataplane", "filter", "l7rules", "ip"}, dns |-> {"learner"},
             timer |-> {"timer"}, logs |-> {"logs"}, jail |-> {"jail"},
             console |-> {"console"}]

\* Of that, what the host may refuse to give up: the code warns and goes on.
Stubborn(p, d) ==
    (Releases[d] \cap run[p].held \cap (HostRes \cup {"backend"}))
        \cup {y \in {"overlay"} : d = "overlay" /\ run[p].created /\ ~run[p].committed}
        \cup {y \in {"rules", "record"} : d = "net" /\ OwnMappings(p) # {}}

Deferring(p) == At(p, "unwind") /\ run[p].defers # <<>>

\* The next deferred function fails to remove K.
RunLeaving(p, K) ==
    LET d == Head(run[p].defers)
        t == run[p].task
        r == Drop([run[p] EXCEPT !.defers = Tail(@), !.left = @ \cup K], Releases[d] \ K)
        cleanup == d = "net" /\ OwnMappings(p) # {}
    IN
    /\ Fault(IF K = {} THEN 0 ELSE 1)
    /\ overlays' = IF d = "overlay" /\ r.created /\ ~r.committed /\ K = {}
                   THEN overlays \ {t} ELSE overlays
    /\ rules' = IF cleanup /\ "rules" \notin K THEN rules \ OwnMappings(p) ELSE rules
    /\ portFile' = IF cleanup /\ "record" \notin K THEN Registry(r) \ OwnMappings(p) ELSE portFile
    /\ Keep(p, IF d = "net"
               THEN [r EXCEPT !.loaded = TRUE, !.mem = Registry(r) \ OwnMappings(p), !.addr = 0]
               ELSE r)
    /\ UNCHANGED uidVars

RunDeferred(p) ==
    /\ Deferring(p) /\ Head(run[p].defers) # "uid"
    /\ \E K \in SUBSET Stubborn(p, Head(run[p].defers)) : RunLeaving(p, K)

\* Release rewrites the table, too; its error is a warning.
releaseUIDRange(p) ==
    LET r == [run[p] EXCEPT !.defers = Tail(@)] IN
    /\ Deferring(p) /\ Head(run[p].defers) = "uid"
    /\ \/ /\ ~corrupt
          /\ uids' = [uids EXCEPT ![r.task] = 0]
          /\ Keep(p, r) /\ UNCHANGED <<corrupt, wiped, faults>>
       \/ /\ Fault(IF corrupt THEN 0 ELSE 1)
          /\ Keep(p, [r EXCEPT !.left = @ \cup {"uid"}])
          /\ UNCHANGED uidVars \/ (~corrupt /\ Torn)
    /\ UNCHANGED <<overlays, portFile, rules>>

Return(p) ==
    /\ At(p, "unwind") /\ run[p].defers = <<>>
    /\ Ok(p, Go(run[p], "returned"))

Dead(r) == Killed([r EXCEPT !.pc = "crashed", !.held = @ \cap HostRes, !.vols = 0,
                            !.defers = <<>>, !.addr = 0])

\* The process dies: PDEATHSIG takes the guest along, the kernel the descriptors.
Crash(p) ==
    /\ Running(p)
    /\ Fault(1)
    /\ Keep(p, Dead(run[p])) /\ Private

InMutate(p) ==
    \/ At(p, "uid")
    \/ Deferring(p) /\ Head(run[p].defers) = "uid"

\* It dies inside Table.mutate, between the truncation and the end of the write.
CrashInMutate(p) ==
    /\ InMutate(p) /\ ~corrupt
    /\ Fault(1)
    /\ Keep(p, Dead(run[p]))
    /\ Torn
    /\ UNCHANGED <<overlays, portFile, rules>>

-----------------------------------------------------------------------------

Provision(p) ==
    \/ RecordSpec(p) \/ CheckSecurity(p) \/ Allocate(p) \/ AllocateFails(p) \/ AllocateUnsynced(p)
    \/ AttachVolume(p) \/ VolumesAttached(p) \/ ProvisionDisk(p) \/ OverlayFails(p)
    \/ StartBlk(p) \/ SocketGrantFails(p)

Connect(p) ==
    \/ ListenTransparent(p) \/ ListenForTask(p) \/ Mint(p) \/ OpenTap(p) \/ AttachPlane(p)
    \/ AllocateIP(p) \/ EnableTransparentL7(p) \/ AttachEgressFilter(p)
    \/ AddPortMappings(p) \/ PortTaken(p) \/ NoPortMappings(p) \/ StartLearner(p)

Execute(p) ==
    \/ BuildArgs(p) \/ OpenLogs(p) \/ SetupJail(p) \/ LauncherStart(p) \/ CgroupSetup(p)
    \/ SignalReady(p) \/ TaskStart(p) \/ GuestExit(p) \/ Wait(p)
    \/ CloseBackend(p) \/ Compact(p)

Next ==
    \E p \in Procs :
        \/ \E t \in Tasks : Begin(p, t) \/ Refused(p, t)
        \/ Provision(p) \/ Connect(p) \/ Execute(p)
        \/ StageFails(p) \/ RunDeferred(p) \/ releaseUIDRange(p) \/ Return(p)
        \/ Crash(p) \/ CrashInMutate(p)

Spec == Init /\ [][Next]_vars

-----------------------------------------------------------------------------
(* What a launch promises. *)

\* A launch of t died, or failed to remove x or lost track of it.
LeftBehind(t, x) ==
    \E q \in Procs : run[q].task = t /\ (At(q, "crashed") \/ x \in run[q].left)

\* StartTask gives back what it took, whichever stage failed: when the newest
\* launch of a task has returned, a descriptor, listener, filter, rule, mount,
\* uid range or overlay of it is there only if the very operation that was to
\* remove it failed, if an error return came before its removal was deferred
\* (OverlayFails, SocketGrantFails, AllocateUnsynced), or if a process died; an
\* overlay also stays once a launch got as far as its task:start record.
GivenBack ==
    \A t \in Tasks : \A p \in Procs :
        last[t] = p /\ At(p, "returned") =>
            /\ run[p].held \subseteq run[p].left /\ ~Alive(p)
            /\ run[p].vols # 0 => "volume" \in run[p].left
            /\ uids[t] # 0 => LeftBehind(t, "uid")
            /\ (\E m \in rules : m[2] = t) => LeftBehind(t, "rules")
            /\ t \in overlays =>
                  \/ LeftBehind(t, "overlay")
                  \/ \E q \in Procs : run[q].task = t /\ run[q].committed

\* A guest runs only with its papers: every protection it goes without has a
\* warning in the ledger, the limits it was asked to obey are in force, and
\* once StartTask waits for it the task:start record is written.  Without
\* namespaces there is no barrier, and the limits come after the fact.
Papers ==
    \A p \in Procs : run[p].guest = "free" /\ ~At(p, "crashed") =>
        /\ run[p].degr \subseteq run[p].warned
        /\ TaskSpecOf(p).limits /\ "namespaces" \notin run[p].degr => run[p].limited
        /\ run[p].pc \notin {"cgroup", "release", "start"} => run[p].started

\* A guest never outlives its cage: as long as it lives, its jail, its disk
\* backend, its listener, its address, its volumes and its uid range are
\* still there, so the deferred functions run only after it is reaped.
CagedWhileAlive ==
    \A p \in Procs : Alive(p) =>
        /\ {"jail", "console", "logs"} \subseteq run[p].held
        /\ TaskSpecOf(p).disk # "ubd" => {"backend", "socket"} \subseteq run[p].held
        /\ Networked(p) => "listener" \in run[p].held
        /\ run[p].addr # 0 => "ip" \in run[p].held
        /\ run[p].vols = TaskSpecOf(p).vols
        /\ run[p].slot # 0 => p \in wiped \/ uids[run[p].task] = run[p].slot

\* uidalloc: live guests never share a uid range, even when processes died and
\* their slots were taken over; except with a guest that was running when a
\* rewrite of the table stopped after the truncation (Torn).
DisjointRanges ==
    \A p, q \in Procs :
        p # q /\ Alive(p) /\ Alive(q) /\ {p, q} \cap wiped = {} /\ run[p].slot # 0 =>
            run[p].slot # run[q].slot

\* The state file tells the outcome of every launch that got as far as saving
\* Pending, Failed or Review for a clean exit, unless its last save failed.
OutcomeRecorded ==
    \A t \in Tasks : \A p \in Procs :
        last[t] = p /\ At(p, "returned") =>
            /\ run[p].status \in {"failed", "review"}
            /\ p \in unsaved \/ status[t] = run[p].status

\* Compaction renames a rebuilt file over the overlay: never under a backend or
\* a guest of a running process that has it open.
CompactsIdleOverlay ==
    \A p \in Procs : At(p, "compacting") =>
        \A q \in Procs : Running(q) /\ run[q].task = run[p].task =>
            ~Alive(q) /\ "backend" \notin run[q].held

\* network/ipam.go: "this allocator is the single source of truth that keeps
\* two tasks from picking the same address".
GuestAddressUnique ==
    \A p, q \in Procs :
        p # q /\ Alive(p) /\ Alive(q) /\ run[p].addr # 0 => run[p].addr # run[q].addr

\* As long as a guest lives it has its papers, its cage and uids of its own.
GuestKept == TypeOK /\ Papers /\ CagedWhileAlive /\ DisjointRanges

\* A launch that has returned leaves the outcome on disk and nothing that could
\* be removed.
Returned == GivenBack /\ OutcomeRecorded
=============================================================================
