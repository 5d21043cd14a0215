-------------------------------- MODULE Gate --------------------------------
(***************************************************************************)
(* internal/approval, internal/policy and the /exec, /approvals and        *)
(* /policy handlers: a tool call is judged by the task's rules, and a call *)
(* that needs approval is unlocked once by a ticket a human approved.      *)
(*                                                                         *)
(* Every section under the approval manager's mutex is one step, with its  *)
(* write of approvals.json.  An /exec request c in flight has a program    *)
(* counter th[c].pc: "claim" before approvalCheck, "run" before the        *)
(* executor.  Rules and hooks of a gateway only ever go from nil to set,   *)
(* so looking the gateway up, wiring it and deciding are one step.         *)
(***************************************************************************)
EXTENDS Integers, Sequences, FiniteSets

CONSTANTS
    Ids,          \* ticket ids, random in the code and never repeated
    Tasks, Tools, Args, Effects,
    Keys,         \* fingerprints of API keys
    Strong,       \* PVM_APPROVER_KEYS is set: nobody decides its own ticket
    Rulebooks,    \* rule lists POST /policy may register
    Clients,      \* /exec requests in flight
    Hour,         \* ticks in the longest approval window
    MaxTime,      \* bound: ticks of the clock
    MaxFaults,    \* bound: failed writes and reads of approvals.json
    MaxRestarts,  \* bound: restarts of the process
    ReadFaults,   \* how a start may find approvals.json: "unreadable", "corrupt"
    None          \* no ticket, call, key or gateway

Actions == {"allow", "constrain", "approve", "deny"}
Rule == [name: Tools \cup {"*"}, action: Actions, effect: Effects]

\* What a ticket binds: (task, tool, params).  The effect of a call is not
\* one of its parameters.
Bound == [task: Tasks, tool: Tools, args: Args]
Call  == [task: Tasks, tool: Tools, args: Args, effect: Effects]
BoundOf(c) == [task |-> c.task, tool |-> c.tool, args |-> c.args]

ASSUME GateAssumption ==
    /\ IsFiniteSet(Ids) /\ None \notin Ids /\ None \notin Keys
    /\ None \notin [what: Bound, key: Keys]
    /\ "" \in Effects /\ "*" \notin Tools
    /\ Rulebooks \subseteq Seq(Rule)
    /\ Strong \in BOOLEAN /\ ReadFaults \subseteq {"unreadable", "corrupt"}
    /\ Hour \in Nat /\ MaxTime \in Nat /\ MaxFaults \in Nat /\ MaxRestarts \in Nat

VARIABLES
    tickets,   \* the manager's map of tickets
    stored,    \* approvals.json
    aside,     \* approvals.json.corrupt
    gates,     \* task -> its registered gateway
    console,   \* tasks with a console session
    th,        \* the /exec requests
    issued,    \* ids ever given to a ticket
    granted,   \* id -> what was approved and by which key
    answered,  \* id -> the decision whose success was reported
    spent,     \* id -> executions it has unlocked
    now, faults, restarts

vars == <<tickets, stored, aside, gates, console, th, issued, granted, answered, spent,
          now, faults, restarts>>
ghosts == <<issued, granted, answered, spent>>

Times == 0 .. MaxTime

Ticket == [state: {"absent", "pending", "approved", "rejected", "expired"},
           what: Bound \cup {None}, deadline: Times,
           consumed: BOOLEAN, by: Keys \cup {None}]
Absent == [state |-> "absent", what |-> None, deadline |-> 0, consumed |-> FALSE, by |-> None]
NoTickets == [i \in Ids |-> Absent]

Idle == [pc |-> "idle", call |-> None, ticket |-> None, wired |-> FALSE]

\* EnablePersistence found no approvals.json.
Init ==
    /\ tickets = NoTickets /\ stored = NoTickets /\ aside = NoTickets
    /\ gates = [t \in Tasks |-> None]
    /\ console = {}
    /\ th = [c \in Clients |-> Idle]
    /\ issued = {} /\ granted = [i \in Ids |-> None]
    /\ answered = [i \in Ids |-> "none"] /\ spent = [i \in Ids |-> 0]
    /\ now = 0 /\ faults = 0 /\ restarts = 0

-----------------------------------------------------------------------------
(* The policy gateway. *)

\* A list without a catch-all gets one that denies.
NewGateway(rules) ==
    IF \E i \in DOMAIN rules : rules[i].name = "*" THEN rules
    ELSE Append(rules, [name |-> "*", action |-> "deny", effect |-> ""])

\* Mutant: a scoped rule also matches a call that declares no effect.
Matches_EmptyEffect(r, call) ==
    /\ r.name \in {call.tool, "*"}
    /\ r.effect = "" \/ call.effect = "" \/ r.effect = call.effect

\* A rule with an effect matches only calls that declare that effect.
Matches(r, call) ==
    /\ r.name \in {call.tool, "*"}
    /\ r.effect \in {"", call.effect}

\* The first match decides; a scoped catch-all may leave none.
Decide(rules, call) ==
    LET hits == {i \in DOMAIN rules : Matches(rules[i], call)} IN
    IF hits = {} THEN "deny"
    ELSE rules[CHOOSE i \in hits : \A j \in hits : i <= j].action

-----------------------------------------------------------------------------
(* approvals.json. *)

Works == UNCHANGED faults
Fails == faults < MaxFaults /\ faults' = faults + 1

\* persistLocked: ok is its result; fsjson.Write may fail after its rename.
persistLocked(ts, ok) ==
    \/ ok /\ Works /\ stored' = ts
    \/ ~ok /\ Fails /\ stored' \in {stored, ts}

-----------------------------------------------------------------------------
(* Tickets. *)

\* The window is measured on the manager's clock.  A ticket that cannot be
\* persisted is reported as an error and stays in memory.
Create(what, deadline, key) ==
    /\ deadline \in now .. now + Hour
    /\ \A i \in Ids : tickets[i].state = "pending" => tickets[i].what # what
    /\ \E id \in Ids \ issued, ok \in BOOLEAN :
         LET ts == [tickets EXCEPT ![id] = [state |-> "pending", what |-> what,
                       deadline |-> deadline, consumed |-> FALSE, by |-> key]]
         IN  /\ tickets' = ts
             /\ persistLocked(ts, ok)
             /\ issued' = issued \cup {id}
    /\ UNCHANGED <<aside, gates, console, th, granted, answered, spent, now, restarts>>

\* Mutant: a write that fails is reported as a success.
DecideTicket_ErrorDropped(id, verdict, key) ==
    LET t  == tickets[id]
        ts == [tickets EXCEPT ![id].state = verdict]
    IN
    /\ t.state = "pending" /\ (Strong => t.by # key) /\ now <= t.deadline
    /\ \E ok \in BOOLEAN : persistLocked(ts, ok)
    /\ tickets' = ts
    /\ answered' = [answered EXCEPT ![id] = verdict]
    /\ granted' = IF verdict = "approved"
                  THEN [granted EXCEPT ![id] = [what |-> t.what, key |-> key]] ELSE granted
    /\ UNCHANGED <<aside, gates, console, th, issued, spent, now, restarts>>

\* POST /approvals/:id/decide.  A late decision expires the ticket in memory
\* only; a decision that cannot be persisted is reported as an error and
\* stays in memory.
DecideTicket(id, verdict, key) ==
    LET t  == tickets[id]
        ts == [tickets EXCEPT ![id].state = verdict]
    IN
    /\ t.state = "pending" /\ (Strong => t.by # key)
    /\ \/ /\ now > t.deadline
          /\ tickets' = [tickets EXCEPT ![id].state = "expired"]
          /\ UNCHANGED <<stored, faults, answered, granted>>
       \/ /\ now <= t.deadline
          /\ tickets' = ts
          /\ \E ok \in BOOLEAN :
               /\ persistLocked(ts, ok)
               /\ answered' = IF ok THEN [answered EXCEPT ![id] = verdict] ELSE answered
          /\ granted' = IF verdict = "approved"
                        THEN [granted EXCEPT ![id] = [what |-> t.what, key |-> key]]
                        ELSE granted
    /\ UNCHANGED <<aside, gates, console, th, issued, spent, now, restarts>>

Overdue(t) == t.state = "pending" /\ now > t.deadline
Expired(in) == [i \in Ids |-> IF i \in in /\ Overdue(tickets[i])
                              THEN [tickets[i] EXCEPT !.state = "expired"] ELSE tickets[i]]

\* GET /approvals expires lazily, without a write.
Pending(task) ==
    /\ tickets' = Expired({i \in Ids : tickets[i].state = "pending" /\ tickets[i].what.task = task})
    /\ UNCHANGED <<stored, aside, gates, console, th, ghosts, now, faults, restarts>>

ExpirePending ==
    /\ \E i \in Ids : Overdue(tickets[i])
    /\ tickets' = Expired(Ids)
    /\ \E ok \in BOOLEAN : persistLocked(Expired(Ids), ok)
    /\ UNCHANGED <<aside, gates, console, th, ghosts, now, restarts>>

\* Mutant: a decided ticket can still be edited.
Edit_Decided(id, args) ==
    LET ts == [tickets EXCEPT ![id].what.args = args] IN
    /\ tickets[id].state # "absent"
    /\ tickets' = ts
    /\ \E ok \in BOOLEAN : persistLocked(ts, ok)
    /\ UNCHANGED <<aside, gates, console, th, ghosts, now, restarts>>

\* POST /approvals/:id/edit.  The result of the write is ignored.
Edit(id, args) ==
    LET ts == [tickets EXCEPT ![id].what.args = args] IN
    /\ tickets[id].state = "pending"
    /\ tickets' = ts
    /\ \E ok \in BOOLEAN : persistLocked(ts, ok)
    /\ UNCHANGED <<aside, gates, console, th, ghosts, now, restarts>>

\* A manual burn; it writes even when there is nothing to burn.
MarkConsumed(id) ==
    LET ts == IF tickets[id].state = "approved"
              THEN [tickets EXCEPT ![id].consumed = TRUE] ELSE tickets
    IN
    /\ \E ok \in BOOLEAN : persistLocked(ts, ok) /\ tickets' = IF ok THEN ts ELSE tickets
    /\ UNCHANGED <<aside, gates, console, th, ghosts, now, restarts>>

-----------------------------------------------------------------------------
(* POST /policy and POST /exec. *)

\* registerIfAbsent, or a forced replacement.
Register(task, rules, force) ==
    /\ force \/ gates[task] = None
    /\ gates' = [gates EXCEPT ![task] = [rules |-> NewGateway(rules), wired |-> FALSE]]
    /\ UNCHANGED <<tickets, stored, aside, console, th, ghosts, now, faults, restarts>>

At(c, label) == th[c].pc = label
Return(c) == th' = [th EXCEPT ![c] = Idle]

\* Up to the switch of Execute.  ensureGatewayRuntime sets the executor once a
\* console exists; without one the gateway answers with a dry run.
Exec(c, call) ==
    LET g     == gates[call.task]
        wired == g.wired \/ call.task \in console
        act   == Decide(g.rules, call)
        to(label) == th' = [th EXCEPT ![c] = [pc |-> label, call |-> call, ticket |-> None,
                                              wired |-> wired]]
    IN
    /\ At(c, "idle") /\ g # None
    /\ gates' = [gates EXCEPT ![call.task].wired = wired]
    /\ CASE act = "approve" -> to("claim")
         [] act \in {"allow", "constrain"} /\ wired -> to("run")
         [] OTHER -> UNCHANGED th
    /\ UNCHANGED <<tickets, stored, aside, console, ghosts, now, faults, restarts>>

Claimable(call) == {i \in Ids : /\ tickets[i].state = "approved" /\ ~tickets[i].consumed
                                /\ tickets[i].what = BoundOf(call)}

\* Mutant: the ticket is consumed in memory and persisted some time later.
ClaimFor_NotPersisted(c) ==
    /\ At(c, "claim")
    /\ \/ Claimable(th[c].call) = {} /\ Return(c) /\ UNCHANGED tickets
       \/ \E id \in Claimable(th[c].call) :
            /\ tickets' = [tickets EXCEPT ![id].consumed = TRUE]
            /\ IF th[c].wired THEN th' = [th EXCEPT ![c].pc = "run", ![c].ticket = id]
               ELSE Return(c)
    /\ UNCHANGED <<stored, faults, aside, gates, console, ghosts, now, restarts>>

\* Find, consume and persist in one section, before the executor runs; a
\* claim that cannot be persisted is refused.
ClaimFor(c) ==
    /\ At(c, "claim")
    /\ \/ /\ Claimable(th[c].call) = {} /\ Return(c)
          /\ UNCHANGED <<tickets, stored, faults>>
       \/ \E id \in Claimable(th[c].call), ok \in BOOLEAN :
            LET ts == [tickets EXCEPT ![id].consumed = TRUE] IN
            /\ persistLocked(ts, ok)
            /\ tickets' = IF ok THEN ts ELSE tickets
            /\ IF ok /\ th[c].wired THEN th' = [th EXCEPT ![c].pc = "run", ![c].ticket = id]
               ELSE Return(c)
    /\ UNCHANGED <<aside, gates, console, ghosts, now, restarts>>

\* The executor runs the call, whether or not it succeeds.
Run(c) ==
    LET t == th[c].ticket IN
    /\ At(c, "run")
    /\ spent' = IF t = None THEN spent ELSE [spent EXCEPT ![t] = @ + 1]
    /\ Return(c)
    /\ UNCHANGED <<tickets, stored, aside, gates, console, issued, granted, answered, now,
                   faults, restarts>>

-----------------------------------------------------------------------------
(* The environment: console sessions, the clock and a restart. *)

\* A console session starts.  One that ends later only makes the executor fail.
Console(task) ==
    /\ console' = console \cup {task}
    /\ UNCHANGED <<tickets, stored, aside, gates, th, ghosts, now, faults, restarts>>

Tick ==
    /\ now < MaxTime
    /\ now' = now + 1
    /\ UNCHANGED <<tickets, stored, aside, gates, console, th, ghosts, faults, restarts>>

\* NewManager and EnablePersistence.  A corrupt file is moved aside; one that
\* cannot be read is an error, but persistPath stays set.
Restart ==
    /\ restarts < MaxRestarts
    /\ restarts' = restarts + 1
    /\ \/ tickets' = stored /\ Works /\ UNCHANGED <<stored, aside>>
       \/ /\ "corrupt" \in ReadFaults /\ Fails
          /\ aside' = stored /\ stored' = NoTickets /\ tickets' = NoTickets
       \/ /\ "unreadable" \in ReadFaults /\ Fails
          /\ tickets' = NoTickets /\ UNCHANGED <<stored, aside>>
    /\ gates' = [t \in Tasks |-> None]
    /\ console' = {}
    /\ th' = [c \in Clients |-> Idle]
    /\ UNCHANGED <<ghosts, now>>

Next ==
    \/ \E w \in Bound, d \in Times, k \in Keys : Create(w, d, k)
    \/ \E i \in Ids, v \in {"approved", "rejected"}, k \in Keys : DecideTicket(i, v, k)
    \/ \E t \in Tasks : Pending(t)
    \/ ExpirePending
    \/ \E i \in Ids, a \in Args : Edit(i, a)
    \/ \E i \in Ids : MarkConsumed(i)
    \/ \E t \in Tasks, r \in Rulebooks, f \in BOOLEAN : Register(t, r, f)
    \/ \E c \in Clients, call \in Call : Exec(c, call)
    \/ \E c \in Clients : ClaimFor(c) \/ Run(c)
    \/ \E t \in Tasks : Console(t)
    \/ Tick \/ Restart

Spec == Init /\ [][Next]_vars

-----------------------------------------------------------------------------
(* Properties. *)

\* Every variable has its type.
TypeOK ==
    /\ tickets \in [Ids -> Ticket] /\ stored \in [Ids -> Ticket] /\ aside \in [Ids -> Ticket]
    /\ gates \in [Tasks -> [rules: Seq(Rule), wired: BOOLEAN] \cup {None}]
    /\ console \subseteq Tasks
    /\ th \in [Clients -> [pc: {"idle", "claim", "run"}, call: Call \cup {None},
                           ticket: Ids \cup {None}, wired: BOOLEAN]]
    /\ issued \subseteq Ids
    /\ granted \in [Ids -> [what: Bound, key: Keys] \cup {None}]
    /\ answered \in [Ids -> {"none", "approved", "rejected"}]
    /\ spent \in [Ids -> Nat]
    /\ now \in Times /\ faults \in 0 .. MaxFaults /\ restarts \in 0 .. MaxRestarts

Running(id) == {c \in Clients : th[c].pc = "run" /\ th[c].ticket = id}

\* "Allow once": across concurrent requests, failed writes and restarts a
\* ticket unlocks at most one execution (ClaimFor, Gateway.Execute).
AllowOnce == \A id \in Ids : spent[id] + Cardinality(Running(id)) <= 1

\* A call about to run on a ticket is the call a human approved, with those
\* params, by a key that did not create the ticket where keys are separated
\* (Decide, Edit, ClaimFor and the decide handler).
ExecutedAsApproved ==
    \A c \in Clients : LET t == th[c].ticket IN
        th[c].pc = "run" /\ t # None =>
            /\ granted[t] # None
            /\ granted[t].what = BoundOf(th[c].call)
            /\ Strong => granted[t].key # tickets[t].by

\* A decision whose success was reported stands, in memory and in the file a
\* restart reads: no later write or restart brings the ticket back (Decide,
\* persistLocked, EnablePersistence).
DecisionStands ==
    \A id \in Ids : answered[id] # "none" =>
        /\ tickets[id].state \in {answered[id], "absent"}
        /\ stored[id].state \in {answered[id], "absent"}

Covers(r, call) == /\ r.name = call.tool \/ r.name = "*"
                   /\ r.effect # "" => r.effect = call.effect

\* A step that starts a request has a rule that lets it through.
LetThrough(c) ==
    th[c].pc = "idle" /\ th'[c].pc # "idle" =>
        LET call  == th'[c].call
            rules == gates[call.task].rules
            lets  == IF th'[c].pc = "claim" THEN {"approve"} ELSE {"allow", "constrain"}
        IN  \E i \in DOMAIN rules :
              /\ Covers(rules[i], call) /\ rules[i].action \in lets
              /\ \A j \in 1 .. i - 1 : ~Covers(rules[j], call)

\* A call that goes on to a claim or to the executor was let through by a rule
\* that names its tool and covers its declared effect, and no earlier rule
\* that covers it says otherwise: "anything not explicitly allowed is denied",
\* and a call without an effect is never covered by a scoped rule (NewGateway,
\* Gateway.Decide).
NothingByDefault == [][\A c \in Clients : LetThrough(c)]_vars

\* A ticket that reached approvals.json is lost only with a corrupt file,
\* which is kept: an unreadable store must not be replaced by an empty one
\* (EnablePersistence: "refuse instead").
StoreKept ==
    [][\A id \in Ids : stored[id].state # "absent" =>
        stored'[id].state # "absent" \/ aside'[id] = stored[id]]_vars
=============================================================================
