----------------------------- MODULE GateProofs -----------------------------
(***************************************************************************)
(* Theorems about Gate: a ticket unlocks at most one execution, of the     *)
(* call that was approved, a reported decision stands, and no call passes  *)
(* the rules uncovered.                                                    *)
(*                                                                         *)
(* The inductive invariant IInv says the same things of the map in memory  *)
(* and of the file a restart reads, since either may be the one that       *)
(* decides after the next step.                                            *)
(*                                                                         *)
(* The second part is about Containment, for any number of tasks,          *)
(* handlers, reports, tokens, requests and faults (ContainInv).            *)
(***************************************************************************)
EXTENDS Gate, Containment, FiniteSetTheorems, SequenceTheorems,
        WellFoundedInduction, NaturalsInduction, TLAPS

\* A ticket that exists was issued and binds a call.
WellFormed(ts) ==
    \A i \in Ids : ts[i].state # "absent" => i \in issued /\ ts[i].what \in Bound

\* An approved ticket says what was approved.
Granted(ts) ==
    \A i \in Ids : ts[i].state = "approved" =>
        /\ granted[i] # None
        /\ granted[i].what = ts[i].what
        /\ Strong => granted[i].key # ts[i].by

Stands(ts) ==
    \A i \in Ids : answered[i] # "none" => ts[i].state \in {answered[i], "absent"}

Runs(c, i) == th[c].pc = "run" /\ th[c].ticket = i
Used(i) == spent[i] # 0 \/ \E c \in Clients : Runs(c, i)

\* A ticket that has unlocked an execution is burned.
Burned(ts) == \A i \in Ids : Used(i) => ts[i].state = "absent" \/ ts[i].consumed

\* Whatever is remembered about a ticket is about an issued one.
Known == \A i \in Ids : Used(i) \/ answered[i] # "none" => i \in issued

\* The file is never ahead of memory, except for tickets memory has lost.
Lag == \A i \in Ids : stored[i].state = "approved" => tickets[i].state \in {"approved", "absent"}

Once == \A i \in Ids :
    /\ spent[i] \in {0, 1}
    /\ spent[i] = 1 => \A c \in Clients : ~Runs(c, i)
    /\ \A c, d \in Clients : Runs(c, i) /\ Runs(d, i) => c = d

\* A request past its decision carries its call; one about to run on a ticket
\* holds the approval of that call.
Requests == \A c \in Clients :
    /\ th[c].pc # "idle" => th[c].call \in Call
    /\ th[c].pc = "run" /\ th[c].ticket # None =>
         /\ tickets[th[c].ticket].state = "approved"
         /\ granted[th[c].ticket] # None
         /\ granted[th[c].ticket].what = BoundOf(th[c].call)

IInv ==
    /\ TypeOK
    /\ WellFormed(tickets) /\ WellFormed(stored)
    /\ Granted(tickets) /\ Granted(stored)
    /\ Stands(tickets) /\ Stands(stored)
    /\ Burned(tickets) /\ Burned(stored)
    /\ Known /\ Lag /\ Once /\ Requests

-----------------------------------------------------------------------------
(* Steps that leave the requests and what is remembered alone. *)

\* What depends on the requests and the ghosts only.
LEMMA Untouched ==
    ASSUME IInv, UNCHANGED <<th, ghosts>>
    PROVE  Once' /\ Known' /\ (\A i \in Ids : Used(i)' = Used(i))
<1>1. th' = th /\ spent' = spent /\ issued' = issued /\ answered' = answered
  BY DEF ghosts
<1>2. \A i : Used(i)' = Used(i)
  BY <1>1 DEF Used, Runs
<1>3. Once'
  <2>1. Once  BY DEF IInv
  <2>2. QED  BY <1>1, <2>1 DEF Once, Runs
<1>4. Known'
  <2>1. Known  BY DEF IInv
  <2>2. QED  BY <1>1, <1>2, <2>1 DEF Known
<1>5. QED  BY <1>2, <1>3, <1>4

\* ts is what becomes of the tickets when pending ones expire or are edited
\* and approved ones are burned.
Amends(ts) ==
    /\ ts \in [Ids -> Ticket]
    /\ \A i \in Ids :
         /\ \/ ts[i].state = tickets[i].state
            \/ tickets[i].state = "pending" /\ ts[i].state = "expired"
         /\ \/ ts[i].what = tickets[i].what
            \/ tickets[i].state = "pending" /\ ts[i].what \in Bound
         /\ ts[i].by = tickets[i].by
         /\ tickets[i].consumed => ts[i].consumed

\* Such a change, saved or not, preserves the invariant.
LEMMA Amended ==
    ASSUME IInv, NEW ts, Amends(ts), tickets' \in {tickets, ts}, stored' \in {stored, ts},
           UNCHANGED <<aside, gates, console, th, ghosts, now, restarts>>,
           faults' \in 0 .. MaxFaults
    PROVE  IInv'
<1>1. /\ th' = th /\ issued' = issued /\ granted' = granted
      /\ answered' = answered /\ spent' = spent
  BY DEF ghosts
<1>2. Once' /\ Known' /\ (\A i \in Ids : Used(i)' = Used(i))
  BY Untouched
<1>3. TypeOK'
  <2>1. TypeOK  BY DEF IInv
  <2>2. tickets' \in [Ids -> Ticket] /\ stored' \in [Ids -> Ticket]
    BY <2>1 DEF TypeOK, Amends
  <2>3. QED  BY <1>1, <2>1, <2>2 DEF TypeOK
<1>4. WellFormed(tickets)' /\ WellFormed(stored)'
  <2>1. WellFormed(tickets) /\ WellFormed(stored)  BY DEF IInv
  <2>2. WellFormed(ts)  BY <2>1 DEF WellFormed, Amends
  <2>3. QED  BY <1>1, <2>1, <2>2 DEF WellFormed
<1>5. Granted(tickets)' /\ Granted(stored)'
  <2>1. Granted(tickets) /\ Granted(stored)  BY DEF IInv
  <2>2. Granted(ts)  BY <2>1 DEF Granted, Amends
  <2>3. QED  BY <1>1, <2>1, <2>2 DEF Granted
<1>6. Stands(tickets)' /\ Stands(stored)'
  <2>1. TypeOK /\ Stands(tickets) /\ Stands(stored)  BY DEF IInv
  <2>2. Stands(ts)  BY <2>1 DEF Stands, Amends, TypeOK
  <2>3. QED  BY <1>1, <2>1, <2>2 DEF Stands
<1>7. Burned(tickets)' /\ Burned(stored)'
  <2>1. Burned(tickets) /\ Burned(stored)  BY DEF IInv
  <2>2. Burned(ts)  BY <2>1 DEF Burned, Amends
  <2>3. QED  BY <1>2, <2>1, <2>2 DEF Burned
<1>8. Lag'
  <2>1. Lag  BY DEF IInv
  <2>2. QED  BY <2>1 DEF Lag, Amends
<1>9. Requests'
  <2>1. Requests /\ TypeOK  BY DEF IInv
  <2>2. \A i \in Ids : tickets[i].state = "approved" => tickets'[i].state = "approved"
    BY DEF Amends
  <2>3. QED  BY <1>1, <2>1, <2>2 DEF Requests, TypeOK
<1>10. QED  BY <1>2, <1>3, <1>4, <1>5, <1>6, <1>7, <1>8, <1>9 DEF IInv

\* A write of approvals.json changes it as a whole or not at all.
LEMMA Persisted ==
    ASSUME TypeOK, NEW ts, NEW ok \in BOOLEAN, persistLocked(ts, ok)
    PROVE  stored' \in {stored, ts} /\ faults' \in 0 .. MaxFaults
<1>1. faults \in 0 .. MaxFaults  BY DEF TypeOK
<1>2. MaxFaults \in Nat  BY GateAssumption
<1>3. faults' = faults \/ (faults < MaxFaults /\ faults' = faults + 1)
  BY DEF persistLocked, Works, Fails
<1>4. faults' \in 0 .. MaxFaults  BY <1>1, <1>2, <1>3
<1>5. QED  BY <1>4 DEF persistLocked

\* Expiring overdue tickets is such a change.
LEMMA ExpiryAmends ==
    ASSUME IInv, NEW in
    PROVE  Amends(Expired(in))
<1>1. tickets \in [Ids -> Ticket]  BY DEF IInv, TypeOK
<1>2. \A i \in Ids : [tickets[i] EXCEPT !.state = "expired"] \in Ticket
  BY <1>1 DEF Ticket
<1>3. QED  BY <1>1, <1>2 DEF Amends, Expired, Overdue, Ticket

\* Pending preserves the invariant.
LEMMA PendingStep ==
    ASSUME IInv, NEW task \in Tasks, Pending(task)
    PROVE  IInv'
<1>1. TypeOK  BY DEF IInv
<1> DEFINE in == {i \in Ids : tickets[i].state = "pending" /\ tickets[i].what.task = task}
<1>2. PICK ts : Amends(ts) /\ tickets' = ts
  BY ExpiryAmends DEF Pending
<1>3. faults' \in 0 .. MaxFaults  BY <1>1 DEF Pending, TypeOK
<1>4. QED  BY <1>2, <1>3, Amended DEF Pending

\* ExpirePending preserves the invariant.
LEMMA ExpirePendingStep ==
    ASSUME IInv, ExpirePending
    PROVE  IInv'
<1>1. TypeOK  BY DEF IInv
<1>2. PICK ok \in BOOLEAN : persistLocked(Expired(Ids), ok)  BY DEF ExpirePending
<1>3. stored' \in {stored, Expired(Ids)} /\ faults' \in 0 .. MaxFaults
  BY <1>1, <1>2, Persisted
<1>4. Amends(Expired(Ids)) /\ tickets' = Expired(Ids)
  BY ExpiryAmends DEF ExpirePending
<1>5. QED  BY <1>3, <1>4, Amended DEF ExpirePending

\* Edit preserves the invariant: it changes the call of pending tickets only.
LEMMA EditStep ==
    ASSUME IInv, NEW id \in Ids, NEW a \in Args, Edit(id, a)
    PROVE  IInv'
<1> DEFINE ts == [tickets EXCEPT ![id].what.args = a]
<1>1. TypeOK /\ WellFormed(tickets)  BY DEF IInv
<1>2. tickets[id].what \in Bound /\ tickets[id].state = "pending" /\ tickets[id] \in Ticket
  BY <1>1 DEF Edit, WellFormed, TypeOK
<1>3. [tickets[id].what EXCEPT !.args = a] \in Bound
  BY <1>2 DEF Bound
<1>4. [tickets[id] EXCEPT !.what.args = a] \in Ticket
  BY <1>2, <1>3 DEF Ticket
<1>5. /\ ts \in [Ids -> Ticket]
      /\ ts[id] = [tickets[id] EXCEPT !.what.args = a]
      /\ \A i \in Ids \ {id} : ts[i] = tickets[i]
  BY <1>1, <1>4 DEF TypeOK
<1>6. /\ ts[id].state = tickets[id].state /\ ts[id].by = tickets[id].by
      /\ ts[id].consumed = tickets[id].consumed /\ ts[id].what \in Bound
  BY <1>2, <1>3, <1>5 DEF Ticket
<1>7. Amends(ts)
  BY <1>2, <1>5, <1>6 DEF Amends
<1>8. PICK ok \in BOOLEAN : persistLocked(ts, ok)  BY DEF Edit
<1>9. stored' \in {stored, ts} /\ faults' \in 0 .. MaxFaults
  BY <1>1, <1>8, Persisted
<1>10. tickets' = ts  BY DEF Edit
<1>11. QED
  <2> HIDE DEF ts
  <2>1. QED  BY <1>7, <1>9, <1>10, Amended DEF Edit

\* MarkConsumed preserves the invariant.
LEMMA MarkConsumedStep ==
    ASSUME IInv, NEW id \in Ids, MarkConsumed(id)
    PROVE  IInv'
<1> DEFINE ts == IF tickets[id].state = "approved"
                 THEN [tickets EXCEPT ![id].consumed = TRUE] ELSE tickets
<1>1. TypeOK  BY DEF IInv
<1>2. tickets \in [Ids -> Ticket]  BY <1>1 DEF TypeOK
<1>3. [tickets[id] EXCEPT !.consumed = TRUE] \in Ticket
  BY <1>2 DEF Ticket
<1>4. /\ ts \in [Ids -> Ticket]
      /\ ts[id] \in {tickets[id], [tickets[id] EXCEPT !.consumed = TRUE]}
      /\ \A i \in Ids \ {id} : ts[i] = tickets[i]
  BY <1>2, <1>3
<1>5. /\ ts[id].state = tickets[id].state /\ ts[id].by = tickets[id].by
      /\ ts[id].what = tickets[id].what /\ (tickets[id].consumed => ts[id].consumed)
  BY <1>2, <1>4 DEF Ticket
<1>6. Amends(ts)
  BY <1>4, <1>5 DEF Amends
<1>7. PICK ok \in BOOLEAN : persistLocked(ts, ok) /\ tickets' = IF ok THEN ts ELSE tickets
  BY DEF MarkConsumed
<1>8. stored' \in {stored, ts} /\ faults' \in 0 .. MaxFaults
  BY <1>1, <1>7, Persisted
<1>9. QED
  <2> HIDE DEF ts
  <2>1. tickets' \in {tickets, ts}  BY <1>7
  <2>2. QED  BY <1>6, <1>8, <2>1, Amended DEF MarkConsumed

\* Steps that leave the tickets alone too.
LEMMA Elsewhere ==
    ASSUME IInv, UNCHANGED <<tickets, stored, aside, th, ghosts, faults, restarts>>,
           gates' \in [Tasks -> [rules: Seq(Rule), wired: BOOLEAN] \cup {None}],
           console' \subseteq Tasks, now' \in Times
    PROVE  IInv'
<1>1. /\ th' = th /\ issued' = issued /\ granted' = granted
      /\ answered' = answered /\ spent' = spent
  BY DEF ghosts
<1>2. Once' /\ Known' /\ (\A i \in Ids : Used(i)' = Used(i))
  BY Untouched
<1>3. TypeOK'
  <2>1. TypeOK  BY DEF IInv
  <2>2. QED  BY <1>1, <2>1 DEF TypeOK
<1>4. WellFormed(tickets)' /\ WellFormed(stored)'
  <2>1. WellFormed(tickets) /\ WellFormed(stored)  BY DEF IInv
  <2>2. QED  BY <1>1, <2>1 DEF WellFormed
<1>5. Granted(tickets)' /\ Granted(stored)'
  <2>1. Granted(tickets) /\ Granted(stored)  BY DEF IInv
  <2>2. QED  BY <1>1, <2>1 DEF Granted
<1>6. Stands(tickets)' /\ Stands(stored)'
  <2>1. Stands(tickets) /\ Stands(stored)  BY DEF IInv
  <2>2. QED  BY <1>1, <2>1 DEF Stands
<1>7. Burned(tickets)' /\ Burned(stored)'
  <2>1. Burned(tickets) /\ Burned(stored)  BY DEF IInv
  <2>2. QED  BY <1>2, <2>1 DEF Burned
<1>8. Lag'
  <2>1. Lag  BY DEF IInv
  <2>2. QED  BY <2>1 DEF Lag
<1>9. Requests'
  <2>1. Requests  BY DEF IInv
  <2>2. QED  BY <1>1, <2>1 DEF Requests
<1>10. QED  BY <1>2, <1>3, <1>4, <1>5, <1>6, <1>7, <1>8, <1>9 DEF IInv

\* Registering a gateway preserves the invariant.
LEMMA RegisterStep ==
    ASSUME IInv, NEW t \in Tasks, NEW r \in Rulebooks, NEW f \in BOOLEAN, Register(t, r, f)
    PROVE  IInv'
<1>1. TypeOK  BY DEF IInv
<1>2. r \in Seq(Rule)  BY GateAssumption
<1>3. [name |-> "*", action |-> "deny", effect |-> ""] \in Rule
  BY GateAssumption DEF Rule, Actions
<1>4. NewGateway(r) \in Seq(Rule)
  BY <1>2, <1>3, AppendProperties DEF NewGateway
<1>5. gates' \in [Tasks -> [rules: Seq(Rule), wired: BOOLEAN] \cup {None}]
  BY <1>1, <1>4 DEF Register, TypeOK
<1>6. console' \subseteq Tasks /\ now' \in Times  BY <1>1 DEF Register, TypeOK
<1>7. QED  BY <1>5, <1>6, Elsewhere DEF Register

\* A new console session preserves the invariant.
LEMMA ConsoleStep ==
    ASSUME IInv, NEW t \in Tasks, Console(t)
    PROVE  IInv'
<1>1. TypeOK  BY DEF IInv
<1>2. /\ gates' \in [Tasks -> [rules: Seq(Rule), wired: BOOLEAN] \cup {None}]
      /\ console' \subseteq Tasks /\ now' \in Times
  BY <1>1 DEF Console, TypeOK
<1>3. QED  BY <1>2, Elsewhere DEF Console

\* The clock preserves the invariant.
LEMMA TickStep ==
    ASSUME IInv, Tick
    PROVE  IInv'
<1>1. TypeOK  BY DEF IInv
<1>2. /\ gates' \in [Tasks -> [rules: Seq(Rule), wired: BOOLEAN] \cup {None}]
      /\ console' \subseteq Tasks
  BY <1>1 DEF Tick, TypeOK
<1>3. now' \in Times
  <2>1. now \in 0 .. MaxTime  BY <1>1 DEF TypeOK, Times
  <2>2. MaxTime \in Nat  BY GateAssumption
  <2>3. now < MaxTime /\ now' = now + 1  BY DEF Tick
  <2>4. QED  BY <2>1, <2>2, <2>3 DEF Times
<1>4. QED  BY <1>2, <1>3, Elsewhere DEF Tick

-----------------------------------------------------------------------------
(* Steps of the tickets. *)

\* Create preserves the invariant: nothing is remembered about a fresh id.
LEMMA CreateStep ==
    ASSUME IInv, NEW w \in Bound, NEW d \in Times, NEW k \in Keys, Create(w, d, k)
    PROVE  IInv'
<1> DEFINE new == [state |-> "pending", what |-> w, deadline |-> d, consumed |-> FALSE, by |-> k]
<1>1. PICK id \in Ids \ issued, ok \in BOOLEAN :
        /\ tickets' = [tickets EXCEPT ![id] = new]
        /\ persistLocked([tickets EXCEPT ![id] = new], ok)
        /\ issued' = issued \cup {id}
  BY DEF Create
<1>2. /\ th' = th /\ granted' = granted /\ answered' = answered /\ spent' = spent
      /\ aside' = aside /\ gates' = gates /\ console' = console /\ now' = now
      /\ restarts' = restarts
  BY DEF Create
<1>3. TypeOK  BY DEF IInv
<1>4. stored' \in {stored, tickets'} /\ faults' \in 0 .. MaxFaults
  BY <1>1, <1>3, Persisted
<1>5. new \in Ticket /\ new.state = "pending" /\ new.what \in Bound
  BY DEF Ticket
<1>6. /\ tickets' \in [Ids -> Ticket] /\ tickets'[id] = new
      /\ \A i \in Ids \ {id} : tickets'[i] = tickets[i]
  BY <1>1, <1>3, <1>5 DEF TypeOK
<1> HIDE DEF new
<1>7. TypeOK'
  <2>1. stored' \in [Ids -> Ticket]  BY <1>3, <1>4, <1>6 DEF TypeOK
  <2>2. issued' \subseteq Ids  BY <1>1, <1>3 DEF TypeOK
  <2>3. QED  BY <1>2, <1>3, <1>4, <1>6, <2>1, <2>2 DEF TypeOK
<1>8. WellFormed(tickets)' /\ WellFormed(stored)'
  <2>1. WellFormed(tickets) /\ WellFormed(stored)  BY DEF IInv
  <2>2. WellFormed(tickets)'  BY <1>1, <1>5, <1>6, <2>1 DEF WellFormed
  <2>3. QED  BY <1>1, <1>4, <2>1, <2>2 DEF WellFormed
<1>9. Granted(tickets)' /\ Granted(stored)'
  <2>1. Granted(tickets) /\ Granted(stored)  BY DEF IInv
  <2>2. Granted(tickets)'  BY <1>2, <1>5, <1>6, <2>1 DEF Granted
  <2>3. QED  BY <1>2, <1>4, <2>1, <2>2 DEF Granted
<1>10. Used(id)' = Used(id) /\ (\A i \in Ids : Used(i)' = Used(i))
  BY <1>2 DEF Used, Runs
<1>11. ~Used(id) /\ answered[id] = "none"
  <2>1. Known  BY DEF IInv
  <2>2. QED  BY <1>1, <2>1 DEF Known
<1>12. Stands(tickets)' /\ Stands(stored)'
  <2>1. Stands(tickets) /\ Stands(stored)  BY DEF IInv
  <2>2. Stands(tickets)'  BY <1>2, <1>6, <1>11, <2>1 DEF Stands
  <2>3. QED  BY <1>2, <1>4, <2>1, <2>2 DEF Stands
<1>13. Burned(tickets)' /\ Burned(stored)'
  <2>1. Burned(tickets) /\ Burned(stored)  BY DEF IInv
  <2>2. Burned(tickets)'  BY <1>6, <1>10, <1>11, <2>1 DEF Burned
  <2>3. QED  BY <1>4, <1>10, <2>1, <2>2 DEF Burned
<1>14. Known'
  <2>1. Known  BY DEF IInv
  <2>2. QED  BY <1>1, <1>2, <1>10, <2>1 DEF Known
<1>15. Lag'
  <2>1. Lag /\ WellFormed(stored)  BY DEF IInv
  <2>2. stored[id].state = "absent"  BY <1>1, <2>1 DEF WellFormed
  <2>3. QED  BY <1>4, <1>5, <1>6, <2>1, <2>2 DEF Lag
<1>16. Once'
  <2>1. Once  BY DEF IInv
  <2>2. QED  BY <1>2, <2>1 DEF Once, Runs
<1>17. Requests'
  <2>1. Requests /\ WellFormed(tickets)  BY DEF IInv
  <2>2. tickets[id].state = "absent"  BY <1>1, <2>1 DEF WellFormed
  <2>3. \A i \in Ids : tickets[i].state = "approved" => tickets'[i].state = "approved"
    BY <1>6, <2>2
  <2>4. QED  BY <1>2, <1>3, <2>1, <2>3 DEF Requests, TypeOK
<1>18. QED
  BY <1>7, <1>8, <1>9, <1>12, <1>13, <1>14, <1>15, <1>16, <1>17 DEF IInv

\* A decision in time, saved or not; the file then has it or is still behind.
LEMMA DecideInTime ==
    ASSUME IInv, NEW id \in Ids, NEW v \in {"approved", "rejected"}, NEW k \in Keys,
           tickets[id].state = "pending", Strong => tickets[id].by # k,
           tickets' = [tickets EXCEPT ![id].state = v],
           NEW ok \in BOOLEAN, persistLocked([tickets EXCEPT ![id].state = v], ok),
           answered' = IF ok THEN [answered EXCEPT ![id] = v] ELSE answered,
           granted' = IF v = "approved"
                      THEN [granted EXCEPT ![id] = [what |-> tickets[id].what, key |-> k]]
                      ELSE granted,
           UNCHANGED <<aside, gates, console, th, issued, spent, now, restarts>>
    PROVE  IInv'
<1>1. TypeOK /\ WellFormed(tickets)  BY DEF IInv
<1>2. tickets[id] \in Ticket /\ tickets[id].what \in Bound /\ id \in issued
  BY <1>1 DEF TypeOK, WellFormed
<1>3. [tickets[id] EXCEPT !.state = v] \in Ticket
  BY <1>2 DEF Ticket
<1>4. /\ tickets' \in [Ids -> Ticket] /\ tickets'[id] = [tickets[id] EXCEPT !.state = v]
      /\ \A i \in Ids \ {id} : tickets'[i] = tickets[i]
  BY <1>1, <1>3 DEF TypeOK
<1>5. /\ tickets'[id].state = v /\ tickets'[id].what = tickets[id].what
      /\ tickets'[id].by = tickets[id].by /\ tickets'[id].consumed = tickets[id].consumed
  BY <1>2, <1>4 DEF Ticket
<1>6. stored' \in {stored, tickets'} /\ faults' \in 0 .. MaxFaults /\ (ok => stored' = tickets')
  <2>1. stored' \in {stored, tickets'} /\ faults' \in 0 .. MaxFaults
    BY <1>1, Persisted
  <2>2. ok => stored' = tickets'  BY DEF persistLocked
  <2>3. QED  BY <2>1, <2>2
<1>7. stored[id].state # "approved" /\ answered[id] = "none"
  <2>1. Lag /\ Stands(tickets)  BY DEF IInv
  <2>2. answered[id] \in {"none", "approved", "rejected"}  BY <1>1 DEF TypeOK
  <2>3. QED  BY <2>1, <2>2 DEF Lag, Stands
<1>8. /\ \A i \in Ids \ {id} : granted'[i] = granted[i] /\ answered'[i] = answered[i]
      /\ answered'[id] \in {"none", v} /\ (~ok => answered'[id] = "none")
  BY <1>1, <1>7 DEF TypeOK
<1>9. v = "approved" => /\ granted'[id] # None /\ granted'[id].what = tickets[id].what
                        /\ Strong => granted'[id].key # tickets[id].by
  <2>1. ASSUME v = "approved"
        PROVE  granted'[id] = [what |-> tickets[id].what, key |-> k]
    BY <1>1, <2>1 DEF TypeOK
  <2>2. [what |-> tickets[id].what, key |-> k] # None
    <3>1. [what |-> tickets[id].what, key |-> k] \in [what: Bound, key: Keys]  BY <1>2
    <3>2. QED  BY <3>1, GateAssumption
  <2>3. QED  BY <2>1, <2>2
<1>10. TypeOK'
  <2>1. stored' \in [Ids -> Ticket]  BY <1>1, <1>4, <1>6 DEF TypeOK
  <2>2. granted' \in [Ids -> [what: Bound, key: Keys] \cup {None}]
    BY <1>1, <1>2 DEF TypeOK
  <2>3. answered' \in [Ids -> {"none", "approved", "rejected"}]
    BY <1>1 DEF TypeOK
  <2>4. QED  BY <1>1, <1>4, <1>6, <2>1, <2>2, <2>3 DEF TypeOK
<1>11. WellFormed(tickets)' /\ WellFormed(stored)'
  <2>1. WellFormed(stored)  BY DEF IInv
  <2>2. WellFormed(tickets)'  BY <1>1, <1>2, <1>4, <1>5 DEF WellFormed
  <2>3. QED  BY <1>6, <2>1, <2>2 DEF WellFormed
<1>12. Granted(tickets)' /\ Granted(stored)'
  <2>1. Granted(tickets) /\ Granted(stored)  BY DEF IInv
  <2>2. Granted(tickets)'  BY <1>4, <1>5, <1>8, <1>9, <2>1 DEF Granted
  <2>3. CASE stored' = tickets'  BY <2>2, <2>3 DEF Granted
  <2>4. CASE stored' = stored
    <3>1. \A i \in Ids : stored[i].state = "approved" => granted'[i] = granted[i]
      BY <1>7, <1>8
    <3>2. QED  BY <2>1, <2>2, <2>4, <3>1 DEF Granted
  <2>5. QED  BY <1>6, <2>3, <2>4
<1>13. Stands(tickets)' /\ Stands(stored)'
  <2>1. Stands(tickets) /\ Stands(stored)  BY DEF IInv
  <2>2. Stands(tickets)'  BY <1>4, <1>5, <1>8, <2>1 DEF Stands
  <2>3. QED  BY <1>6, <1>8, <2>1, <2>2 DEF Stands
<1>14. \A i \in Ids : Used(i)' = Used(i)
  BY DEF Used, Runs
<1>15. Burned(tickets)' /\ Burned(stored)'
  <2>1. Burned(tickets) /\ Burned(stored)  BY DEF IInv
  <2>2. Burned(tickets)'  BY <1>4, <1>5, <1>14, <2>1 DEF Burned
  <2>3. QED  BY <1>6, <1>14, <2>1, <2>2 DEF Burned
<1>16. Known'
  <2>1. Known  BY DEF IInv
  <2>2. QED  BY <1>2, <1>8, <1>14, <2>1 DEF Known
<1>17. Lag'
  <2>1. Lag  BY DEF IInv
  <2>2. QED  BY <1>4, <1>6, <1>7, <2>1 DEF Lag
<1>18. Once'
  <2>1. Once  BY DEF IInv
  <2>2. QED  BY <2>1 DEF Once, Runs
<1>19. Requests'
  <2>1. Requests  BY DEF IInv
  <2>2. \A c \in Clients : th[c].pc = "run" => th[c].ticket # id
    BY <2>1, GateAssumption DEF Requests
  <2>3. QED  BY <1>1, <1>4, <1>8, <2>1, <2>2 DEF Requests, TypeOK
<1>20. QED
  BY <1>10, <1>11, <1>12, <1>13, <1>15, <1>16, <1>17, <1>18, <1>19 DEF IInv

\* Decide preserves the invariant, in time and too late.
LEMMA DecideTicketStep ==
    ASSUME IInv, NEW id \in Ids, NEW v \in {"approved", "rejected"}, NEW k \in Keys,
           DecideTicket(id, v, k)
    PROVE  IInv'
<1>1. CASE now > tickets[id].deadline
  <2> DEFINE ts == [tickets EXCEPT ![id].state = "expired"]
  <2>1. TypeOK  BY DEF IInv
  <2>2. tickets[id] \in Ticket /\ tickets[id].deadline \in Times /\ now \in Times
    BY <2>1 DEF TypeOK, Ticket
  <2>3. /\ tickets' = ts /\ stored' = stored /\ faults' = faults /\ answered' = answered
        /\ granted' = granted
    <3>1. ~(now <= tickets[id].deadline)
      <4>1. MaxTime \in Nat  BY GateAssumption
      <4>2. QED  BY <1>1, <2>2, <4>1 DEF Times
    <3>2. QED  BY <3>1 DEF DecideTicket
  <2>4. [tickets[id] EXCEPT !.state = "expired"] \in Ticket
    BY <2>2 DEF Ticket
  <2>5. Amends(ts)
    BY <2>1, <2>2, <2>4 DEF Amends, TypeOK, DecideTicket, Ticket
  <2>6. faults' \in 0 .. MaxFaults /\ UNCHANGED ghosts
    BY <2>1, <2>3 DEF TypeOK, ghosts, DecideTicket
  <2> HIDE DEF ts
  <2>7. QED  BY <2>3, <2>5, <2>6, Amended DEF DecideTicket
<1>2. CASE ~(now > tickets[id].deadline)
  <2>1. PICK ok \in BOOLEAN :
          /\ persistLocked([tickets EXCEPT ![id].state = v], ok)
          /\ answered' = IF ok THEN [answered EXCEPT ![id] = v] ELSE answered
    BY <1>2 DEF DecideTicket
  <2>2. /\ tickets[id].state = "pending" /\ (Strong => tickets[id].by # k)
        /\ tickets' = [tickets EXCEPT ![id].state = v]
        /\ granted' = IF v = "approved"
                      THEN [granted EXCEPT ![id] = [what |-> tickets[id].what, key |-> k]]
                      ELSE granted
        /\ UNCHANGED <<aside, gates, console, th, issued, spent, now, restarts>>
    BY <1>2 DEF DecideTicket
  <2>3. QED  BY <2>1, <2>2, DecideInTime
<1>3. QED  BY <1>1, <1>2

-----------------------------------------------------------------------------
(* Steps of a request, and a restart. *)

\* Execute up to its switch preserves the invariant: no ticket is used yet.
LEMMA ExecStep ==
    ASSUME IInv, NEW c \in Clients, NEW call \in Call, Exec(c, call)
    PROVE  IInv'
<1>1. TypeOK  BY DEF IInv
<1>2. th[c].pc = "idle" /\ gates[call.task] # None  BY DEF Exec, At
<1>3. /\ tickets' = tickets /\ stored' = stored /\ aside' = aside /\ console' = console
      /\ issued' = issued /\ granted' = granted /\ answered' = answered /\ spent' = spent
      /\ now' = now /\ faults' = faults /\ restarts' = restarts
  BY DEF Exec, ghosts
<1>4. call.task \in Tasks /\ gates[call.task] \in [rules: Seq(Rule), wired: BOOLEAN]
  BY <1>1, <1>2 DEF Call, TypeOK
<1>5. gates' \in [Tasks -> [rules: Seq(Rule), wired: BOOLEAN] \cup {None}]
  <2> DEFINE wired == gates[call.task].wired \/ call.task \in console
  <2>1. gates' = [gates EXCEPT ![call.task].wired = wired]  BY DEF Exec
  <2>2. [gates[call.task] EXCEPT !.wired = wired] \in [rules: Seq(Rule), wired: BOOLEAN]
    BY <1>4
  <2>3. QED  BY <1>1, <1>4, <2>1, <2>2 DEF TypeOK
<1>6. th' = th \/ \E p \in {"claim", "run"}, w \in BOOLEAN :
        th' = [th EXCEPT ![c] = [pc |-> p, call |-> call, ticket |-> None, wired |-> w]]
  BY <1>4 DEF Exec
<1>7. /\ th' \in [Clients -> [pc: {"idle", "claim", "run"}, call: Call \cup {None},
                              ticket: Ids \cup {None}, wired: BOOLEAN]]
      /\ \A d \in Clients \ {c} : th'[d] = th[d]
      /\ \/ th'[c] = th[c]
         \/ th'[c].pc # "idle" /\ th'[c].call = call /\ th'[c].ticket = None
  <2>1. CASE th' = th  BY <1>1, <2>1 DEF TypeOK
  <2>2. CASE th' # th
    <3>1. PICK p \in {"claim", "run"}, w \in BOOLEAN :
            th' = [th EXCEPT ![c] = [pc |-> p, call |-> call, ticket |-> None, wired |-> w]]
      BY <1>6, <2>2
    <3>2. [pc |-> p, call |-> call, ticket |-> None, wired |-> w]
            \in [pc: {"idle", "claim", "run"}, call: Call \cup {None},
                 ticket: Ids \cup {None}, wired: BOOLEAN]
      OBVIOUS
    <3>3. QED  BY <1>1, <3>1, <3>2 DEF TypeOK
  <2>3. QED  BY <2>1, <2>2
<1>8. \A d \in Clients, i \in Ids : Runs(d, i)' = Runs(d, i)
  BY <1>2, <1>7, GateAssumption DEF Runs
<1>9. \A i \in Ids : Used(i)' = Used(i)
  BY <1>3, <1>8 DEF Used
<1>10. TypeOK'
  BY <1>1, <1>3, <1>5, <1>7 DEF TypeOK
<1>11. WellFormed(tickets)' /\ WellFormed(stored)' /\ Granted(tickets)' /\ Granted(stored)'
  BY <1>3 DEF IInv, WellFormed, Granted
<1>12. Stands(tickets)' /\ Stands(stored)' /\ Lag'
  BY <1>3 DEF IInv, Stands, Lag
<1>13. Burned(tickets)' /\ Burned(stored)' /\ Known'
  BY <1>3, <1>9 DEF IInv, Burned, Known
<1>14. Once'
  <2>1. Once  BY DEF IInv
  <2>2. QED  BY <1>3, <1>8, <2>1 DEF Once
<1>15. Requests'
  <2>1. Requests  BY DEF IInv
  <2>2. QED  BY <1>3, <1>7, <2>1 DEF Requests
<1>16. QED  BY <1>10, <1>11, <1>12, <1>13, <1>14, <1>15 DEF IInv

\* A request that leaves without running.
LEMMA Left ==
    ASSUME IInv, NEW c \in Clients, th[c].pc = "claim", Return(c),
           NEW ts, Amends(ts), tickets' \in {tickets, ts}, stored' \in {stored, ts},
           UNCHANGED <<aside, gates, console, ghosts, now, restarts>>,
           faults' \in 0 .. MaxFaults
    PROVE  IInv'
<1>1. TypeOK  BY DEF IInv
<1>2. /\ issued' = issued /\ granted' = granted /\ answered' = answered /\ spent' = spent
  BY DEF ghosts
<1>3. /\ th' \in [Clients -> [pc: {"idle", "claim", "run"}, call: Call \cup {None},
                              ticket: Ids \cup {None}, wired: BOOLEAN]]
      /\ \A d \in Clients \ {c} : th'[d] = th[d]
      /\ th'[c].pc = "idle"
  BY <1>1 DEF TypeOK, Return, Idle
<1>4. \A d \in Clients, i \in Ids : Runs(d, i)' = Runs(d, i)
  BY <1>3 DEF Runs
<1>5. \A i \in Ids : Used(i)' = Used(i)
  BY <1>2, <1>4 DEF Used
<1>6. TypeOK'
  <2>1. tickets' \in [Ids -> Ticket] /\ stored' \in [Ids -> Ticket]
    BY <1>1 DEF TypeOK, Amends
  <2>2. QED  BY <1>1, <1>2, <1>3, <2>1 DEF TypeOK
<1>7. WellFormed(tickets)' /\ WellFormed(stored)'
  <2>1. WellFormed(tickets) /\ WellFormed(stored)  BY DEF IInv
  <2>2. WellFormed(ts)  BY <2>1 DEF WellFormed, Amends
  <2>3. QED  BY <1>2, <2>1, <2>2 DEF WellFormed
<1>8. Granted(tickets)' /\ Granted(stored)'
  <2>1. Granted(tickets) /\ Granted(stored)  BY DEF IInv
  <2>2. Granted(ts)  BY <2>1 DEF Granted, Amends
  <2>3. QED  BY <1>2, <2>1, <2>2 DEF Granted
<1>9. Stands(tickets)' /\ Stands(stored)'
  <2>1. Stands(tickets) /\ Stands(stored)  BY DEF IInv
  <2>2. Stands(ts)  BY <1>1, <2>1 DEF Stands, Amends, TypeOK
  <2>3. QED  BY <1>2, <2>1, <2>2 DEF Stands
<1>10. Burned(tickets)' /\ Burned(stored)'
  <2>1. Burned(tickets) /\ Burned(stored)  BY DEF IInv
  <2>2. Burned(ts)  BY <2>1 DEF Burned, Amends
  <2>3. QED  BY <1>5, <2>1, <2>2 DEF Burned
<1>11. Known' /\ Lag'
  BY <1>2, <1>5 DEF IInv, Known, Lag, Amends
<1>12. Once'
  <2>1. Once  BY DEF IInv
  <2>2. QED  BY <1>2, <1>4, <2>1 DEF Once
<1>13. Requests'
  <2>1. Requests  BY DEF IInv
  <2>2. \A i \in Ids : tickets[i].state = "approved" => tickets'[i].state = "approved"
    BY DEF Amends
  <2>3. \A d \in Clients : th'[d].pc # "idle" => th'[d] = th[d] /\ d # c
    BY <1>3
  <2>4. \A d \in Clients : th[d].ticket \in Ids \cup {None}  BY <1>1 DEF TypeOK
  <2>5. SUFFICES ASSUME NEW d \in Clients, th'[d].pc # "idle"
                 PROVE  /\ th'[d].call \in Call
                        /\ th'[d].pc = "run" /\ th'[d].ticket # None =>
                             /\ tickets'[th'[d].ticket].state = "approved"
                             /\ granted'[th'[d].ticket] # None
                             /\ granted'[th'[d].ticket].what = BoundOf(th'[d].call)
    BY DEF Requests, BoundOf
  <2>6. th'[d] = th[d]  BY <2>3, <2>5
  <2>7. QED  BY <1>2, <2>1, <2>2, <2>4, <2>5, <2>6 DEF Requests
<1>14. QED
  BY <1>6, <1>7, <1>8, <1>9, <1>10, <1>11, <1>12, <1>13 DEF IInv

\* The heart of the matter: the ticket is burned, in memory and in the file,
\* in the step in which the request is let go, and it was not burned before.
LEMMA Unlocked ==
    ASSUME IInv, NEW c \in Clients, th[c].pc = "claim", NEW id \in Claimable(th[c].call),
           tickets' = [tickets EXCEPT ![id].consumed = TRUE], stored' = tickets',
           th' = [th EXCEPT ![c].pc = "run", ![c].ticket = id],
           UNCHANGED <<aside, gates, console, ghosts, now, faults, restarts>>
    PROVE  IInv'
<1>1. TypeOK /\ id \in Ids  BY DEF IInv, Claimable
<1>2. issued' = issued /\ granted' = granted /\ answered' = answered /\ spent' = spent
  BY DEF ghosts
<1>3. /\ tickets[id].state = "approved" /\ ~tickets[id].consumed
      /\ tickets[id].what = BoundOf(th[c].call) /\ tickets[id] \in Ticket
  BY <1>1 DEF Claimable, TypeOK
<1>4. [tickets[id] EXCEPT !.consumed = TRUE] \in Ticket
  BY <1>3 DEF Ticket
<1>5. /\ tickets' \in [Ids -> Ticket] /\ tickets'[id] = [tickets[id] EXCEPT !.consumed = TRUE]
      /\ \A i \in Ids \ {id} : tickets'[i] = tickets[i]
  BY <1>1, <1>4 DEF TypeOK
<1>6. /\ tickets'[id].state = tickets[id].state /\ tickets'[id].by = tickets[id].by
      /\ tickets'[id].what = tickets[id].what /\ tickets'[id].consumed
  BY <1>3, <1>5 DEF Ticket
<1>7. /\ th' \in [Clients -> [pc: {"idle", "claim", "run"}, call: Call \cup {None},
                              ticket: Ids \cup {None}, wired: BOOLEAN]]
      /\ \A d \in Clients \ {c} : th'[d] = th[d]
      /\ th'[c].pc = "run" /\ th'[c].ticket = id /\ th'[c].call = th[c].call
  BY <1>1 DEF TypeOK
<1>8. ~Used(id)
  <2>1. Burned(tickets)  BY DEF IInv
  <2>2. QED  BY <1>1, <1>3, <2>1 DEF Burned
<1>9. /\ \A d \in Clients, i \in Ids : i # id => Runs(d, i)' = Runs(d, i)
      /\ \A d \in Clients : Runs(d, id)' => d = c
  BY <1>7, <1>8 DEF Runs, Used
<1>10. \A i \in Ids \ {id} : Used(i)' = Used(i)
  BY <1>2, <1>9 DEF Used
<1>11. TypeOK'
  BY <1>1, <1>2, <1>5, <1>7 DEF TypeOK
<1>12. WellFormed(tickets)' /\ WellFormed(stored)'
  <2>1. WellFormed(tickets)  BY DEF IInv
  <2>2. QED  BY <1>2, <1>5, <1>6, <2>1 DEF WellFormed
<1>13. Granted(tickets)' /\ Granted(stored)'
  <2>1. Granted(tickets)  BY DEF IInv
  <2>2. QED  BY <1>2, <1>5, <1>6, <2>1 DEF Granted
<1>14. Stands(tickets)' /\ Stands(stored)'
  <2>1. Stands(tickets)  BY DEF IInv
  <2>2. QED  BY <1>2, <1>5, <1>6, <2>1 DEF Stands
<1>15. Burned(tickets)' /\ Burned(stored)'
  <2>1. Burned(tickets)  BY DEF IInv
  <2>2. QED  BY <1>5, <1>6, <1>10, <2>1 DEF Burned
<1>16. Known'
  <2>1. Known /\ WellFormed(tickets)  BY DEF IInv
  <2>2. id \in issued  BY <1>1, <1>3, <2>1 DEF WellFormed
  <2>3. QED  BY <1>2, <1>10, <2>1, <2>2 DEF Known
<1>17. Lag'
  BY DEF Lag
<1>18. Once'
  <2>1. Once  BY DEF IInv
  <2>2. spent[id] = 0  BY <1>8 DEF Used
  <2>3. QED  BY <1>1, <1>2, <1>9, <2>1, <2>2 DEF Once
<1>19. Requests'
  <2>1. Requests /\ Granted(tickets)  BY DEF IInv
  <2>2. th[c].call \in Call  BY <2>1 DEF Requests
  <2>3. granted[id] # None /\ granted[id].what = BoundOf(th[c].call)
    BY <1>1, <1>3, <2>1 DEF Granted
  <2>4. \A i \in Ids : tickets[i].state = "approved" => tickets'[i].state = "approved"
    BY <1>5, <1>6
  <2>5. QED  BY <1>1, <1>2, <1>3, <1>6, <1>7, <2>1, <2>2, <2>3, <2>4 DEF Requests, TypeOK
<1>20. QED
  BY <1>11, <1>12, <1>13, <1>14, <1>15, <1>16, <1>17, <1>18, <1>19 DEF IInv

\* ClaimFor preserves the invariant: refused, dry run or unlocked.
LEMMA ClaimForStep ==
    ASSUME IInv, NEW c \in Clients, ClaimFor(c)
    PROVE  IInv'
<1>1. TypeOK  BY DEF IInv
<1>2. th[c].pc = "claim" /\ UNCHANGED <<aside, gates, console, ghosts, now, restarts>>
  BY DEF ClaimFor, At
<1>3. CASE Return(c) /\ UNCHANGED <<tickets, stored, faults>>
  <2>1. Amends(tickets)  BY <1>1 DEF Amends, TypeOK
  <2>2. faults' \in 0 .. MaxFaults  BY <1>1, <1>3 DEF TypeOK
  <2>3. QED  BY <1>2, <1>3, <2>1, <2>2, Left
<1>4. ASSUME NEW id \in Claimable(th[c].call), NEW ok \in BOOLEAN,
             persistLocked([tickets EXCEPT ![id].consumed = TRUE], ok),
             tickets' = IF ok THEN [tickets EXCEPT ![id].consumed = TRUE] ELSE tickets,
             IF ok /\ th[c].wired THEN th' = [th EXCEPT ![c].pc = "run", ![c].ticket = id]
             ELSE Return(c)
      PROVE  IInv'
  <2> DEFINE ts == [tickets EXCEPT ![id].consumed = TRUE]
  <2>1. stored' \in {stored, ts} /\ faults' \in 0 .. MaxFaults
    BY <1>1, <1>4, Persisted
  <2>2. CASE ok /\ th[c].wired
    <3>1. stored' = tickets' /\ faults' = faults /\ tickets' = ts
      BY <1>4, <2>2 DEF persistLocked, Works
    <3>2. QED  BY <1>2, <1>4, <2>2, <3>1, Unlocked
  <2>3. CASE ~(ok /\ th[c].wired)
    <3>1. id \in Ids /\ tickets \in [Ids -> Ticket]  BY <1>1 DEF TypeOK, Claimable
    <3>2. [tickets[id] EXCEPT !.consumed = TRUE] \in Ticket  BY <3>1 DEF Ticket
    <3>3. /\ ts \in [Ids -> Ticket] /\ ts[id] = [tickets[id] EXCEPT !.consumed = TRUE]
          /\ \A i \in Ids \ {id} : ts[i] = tickets[i]
      BY <3>1, <3>2
    <3>4. /\ ts[id].state = tickets[id].state /\ ts[id].by = tickets[id].by
          /\ ts[id].what = tickets[id].what /\ ts[id].consumed
      BY <3>1, <3>3 DEF Ticket
    <3>5. Amends(ts)  BY <3>3, <3>4 DEF Amends
    <3>6. tickets' \in {tickets, ts} /\ Return(c)  BY <1>4, <2>3
    <3> HIDE DEF ts
    <3>7. QED  BY <1>2, <2>1, <3>5, <3>6, Left
  <2>4. QED  BY <2>2, <2>3
<1>5. QED  BY <1>3, <1>4 DEF ClaimFor

\* The executor preserves the invariant: a use moves from the request to spent.
LEMMA RunStep ==
    ASSUME IInv, NEW c \in Clients, Run(c)
    PROVE  IInv'
<1> DEFINE t == th[c].ticket
<1>1. TypeOK  BY DEF IInv
<1>2. /\ tickets' = tickets /\ stored' = stored /\ aside' = aside /\ gates' = gates
      /\ console' = console /\ issued' = issued /\ granted' = granted
      /\ answered' = answered /\ now' = now /\ faults' = faults /\ restarts' = restarts
      /\ th[c].pc = "run"
  BY DEF Run, At
<1>3. t \in Ids \cup {None}  BY <1>1 DEF TypeOK
<1>4. /\ th' \in [Clients -> [pc: {"idle", "claim", "run"}, call: Call \cup {None},
                              ticket: Ids \cup {None}, wired: BOOLEAN]]
      /\ \A d \in Clients \ {c} : th'[d] = th[d]
      /\ th'[c].pc = "idle"
  BY <1>1 DEF TypeOK, Run, Return, Idle
<1>5. /\ spent' \in [Ids -> Nat]
      /\ \A i \in Ids : spent'[i] = IF i = t THEN spent[i] + 1 ELSE spent[i]
  <2>1. spent \in [Ids -> Nat]  BY <1>1 DEF TypeOK
  <2>2. CASE t = None
    <3>1. spent' = spent  BY <2>2 DEF Run
    <3>2. None \notin Ids  BY GateAssumption
    <3>3. QED  BY <2>1, <2>2, <3>1, <3>2
  <2>3. CASE t # None
    <3>1. spent' = [spent EXCEPT ![t] = @ + 1] /\ t \in Ids  BY <1>3, <2>3 DEF Run
    <3>2. QED  BY <2>1, <3>1
  <2>4. QED  BY <2>2, <2>3
<1>6. \A d \in Clients, i \in Ids : Runs(d, i)' <=> (Runs(d, i) /\ d # c)
  BY <1>4 DEF Runs
<1>7. \A i \in Ids : Runs(c, i) <=> i = t
  BY <1>2 DEF Runs
<1>8. \A i \in Ids : Used(i)' => Used(i)
  BY <1>5, <1>6, <1>7 DEF Used
<1>9. TypeOK'
  BY <1>1, <1>2, <1>4, <1>5 DEF TypeOK
<1>10. WellFormed(tickets)' /\ WellFormed(stored)' /\ Granted(tickets)' /\ Granted(stored)'
  BY <1>2 DEF IInv, WellFormed, Granted
<1>11. Stands(tickets)' /\ Stands(stored)' /\ Lag'
  BY <1>2 DEF IInv, Stands, Lag
<1>12. Burned(tickets)' /\ Burned(stored)' /\ Known'
  BY <1>2, <1>8 DEF IInv, Burned, Known
<1>13. Once'
  <2>1. Once  BY DEF IInv
  <2>2. SUFFICES ASSUME NEW i \in Ids
                 PROVE  /\ spent'[i] \in {0, 1}
                        /\ spent'[i] = 1 => \A d \in Clients : ~Runs(d, i)'
                        /\ \A d, e \in Clients : Runs(d, i)' /\ Runs(e, i)' => d = e
    BY DEF Once
  <2>3. CASE i = t
    <3>1. Runs(c, i)  BY <1>7, <2>3
    <3>2. spent[i] = 0  BY <2>1, <3>1 DEF Once
    <3>3. \A d \in Clients : ~Runs(d, i)'
      BY <1>6, <2>1, <3>1 DEF Once
    <3>4. QED  BY <1>5, <2>3, <3>2, <3>3
  <2>4. CASE i # t
    BY <1>5, <1>6, <2>1, <2>4 DEF Once
  <2>5. QED  BY <2>3, <2>4
<1>14. Requests'
  <2>1. Requests  BY DEF IInv
  <2>2. QED  BY <1>2, <1>4, <2>1 DEF Requests
<1>15. QED  BY <1>9, <1>10, <1>11, <1>12, <1>13, <1>14 DEF IInv

\* Everything in memory is lost: what the file says must be enough.
LEMMA RestartStep ==
    ASSUME IInv, Restart
    PROVE  IInv'
<1>1. TypeOK  BY DEF IInv
<1>2. /\ issued' = issued /\ granted' = granted /\ answered' = answered /\ spent' = spent
      /\ now' = now
  BY DEF Restart, ghosts
<1>3. /\ th' \in [Clients -> [pc: {"idle", "claim", "run"}, call: Call \cup {None},
                              ticket: Ids \cup {None}, wired: BOOLEAN]]
      /\ \A d \in Clients : th'[d].pc = "idle"
  BY DEF Restart, Idle
<1>4. NoTickets \in [Ids -> Ticket] /\ \A i \in Ids : NoTickets[i].state = "absent"
  <2>1. Absent \in Ticket
    <3>1. MaxTime \in Nat  BY GateAssumption
    <3>2. QED  BY <3>1 DEF Absent, Ticket, Times
  <2>2. QED  BY <2>1 DEF NoTickets, Absent
<1>5. /\ stored' \in {stored, NoTickets}
      /\ tickets' \in {stored, NoTickets}
      /\ stored' = NoTickets => tickets' = NoTickets \/ stored' = stored
      /\ aside' \in {aside, stored}
  BY DEF Restart
<1>6. faults' \in 0 .. MaxFaults /\ restarts' \in 0 .. MaxRestarts
  <2>1. faults \in 0 .. MaxFaults /\ restarts \in 0 .. MaxRestarts  BY <1>1 DEF TypeOK
  <2>2. MaxFaults \in Nat /\ MaxRestarts \in Nat  BY GateAssumption
  <2>3. faults' = faults \/ (faults < MaxFaults /\ faults' = faults + 1)
    BY DEF Restart, Works, Fails
  <2>4. restarts < MaxRestarts /\ restarts' = restarts + 1  BY DEF Restart
  <2>5. QED  BY <2>1, <2>2, <2>3, <2>4
<1>7. \A d \in Clients, i \in Ids : ~Runs(d, i)'
  BY <1>3 DEF Runs
<1>8. \A i \in Ids : Used(i)' => Used(i)
  BY <1>2, <1>7 DEF Used
<1>9. TypeOK'
  <2>1. /\ tickets' \in [Ids -> Ticket] /\ stored' \in [Ids -> Ticket]
        /\ aside' \in [Ids -> Ticket]
    BY <1>1, <1>4, <1>5 DEF TypeOK
  <2>2. gates' \in [Tasks -> [rules: Seq(Rule), wired: BOOLEAN] \cup {None}] /\ console' = {}
    BY DEF Restart
  <2>3. QED  BY <1>1, <1>2, <1>3, <1>6, <2>1, <2>2 DEF TypeOK
<1>10. WellFormed(tickets)' /\ WellFormed(stored)'
  <2>1. WellFormed(stored)  BY DEF IInv
  <2>2. QED  BY <1>2, <1>4, <1>5, <2>1 DEF WellFormed
<1>11. Granted(tickets)' /\ Granted(stored)'
  <2>1. Granted(stored)  BY DEF IInv
  <2>2. QED  BY <1>2, <1>4, <1>5, <2>1 DEF Granted
<1>12. Stands(tickets)' /\ Stands(stored)'
  <2>1. Stands(stored)  BY DEF IInv
  <2>2. QED  BY <1>2, <1>4, <1>5, <2>1 DEF Stands
<1>13. Burned(tickets)' /\ Burned(stored)'
  <2>1. Burned(stored)  BY DEF IInv
  <2>2. QED  BY <1>4, <1>5, <1>8, <2>1 DEF Burned
<1>14. Known'
  <2>1. Known  BY DEF IInv
  <2>2. QED  BY <1>2, <1>8, <2>1 DEF Known
<1>15. Lag'
  BY <1>4, <1>5 DEF Lag
<1>16. Once'
  <2>1. Once  BY DEF IInv
  <2>2. QED  BY <1>2, <1>7, <2>1 DEF Once
<1>17. Requests'
  BY <1>3 DEF Requests
<1>18. QED
  BY <1>9, <1>10, <1>11, <1>12, <1>13, <1>14, <1>15, <1>16, <1>17 DEF IInv

-----------------------------------------------------------------------------
(* The theorems. *)

\* The invariant holds initially.
LEMMA InitHolds == Init => IInv
<1> SUFFICES ASSUME Init PROVE IInv
  OBVIOUS
<1>1. MaxTime \in Nat /\ MaxFaults \in Nat /\ MaxRestarts \in Nat  BY GateAssumption
<1>2. Absent \in Ticket /\ Absent.state = "absent"
  BY <1>1 DEF Absent, Ticket, Times
<1>3. NoTickets \in [Ids -> Ticket] /\ \A i \in Ids : NoTickets[i].state = "absent"
  BY <1>2 DEF NoTickets
<1>4. \A c \in Clients : th[c] = Idle  BY DEF Init
<1>5. \A c \in Clients, i \in Ids : ~Runs(c, i)  BY <1>4 DEF Runs, Idle
<1>6. TypeOK
  BY <1>1, <1>3 DEF Init, TypeOK, Idle, Times
<1>7. Once /\ Known
  BY <1>5 DEF Init, Once, Known, Used
<1>8. Requests
  BY <1>4 DEF Requests, Idle
<1>9. QED
  BY <1>3, <1>6, <1>7, <1>8
  DEF Init, IInv, WellFormed, Granted, Stands, Burned, Lag

\* Every step preserves the invariant.
LEMMA NextKeeps == IInv /\ [Next]_vars => IInv'
<1> SUFFICES ASSUME IInv, [Next]_vars PROVE IInv'
  OBVIOUS
<1>1. CASE UNCHANGED vars
  BY <1>1 DEF vars, ghosts, IInv, TypeOK, WellFormed, Granted, Stands, Burned, Known, Lag, Once,
     Requests, Used, Runs
<1>2. ASSUME NEW w \in Bound, NEW d \in Times, NEW k \in Keys, Create(w, d, k)
      PROVE  IInv'
  BY <1>2, CreateStep
<1>3. ASSUME NEW i \in Ids, NEW v \in {"approved", "rejected"}, NEW k \in Keys,
             DecideTicket(i, v, k)
      PROVE  IInv'
  BY <1>3, DecideTicketStep
<1>4. ASSUME NEW t \in Tasks, Pending(t) PROVE IInv'
  BY <1>4, PendingStep
<1>5. CASE ExpirePending  BY <1>5, ExpirePendingStep
<1>6. ASSUME NEW i \in Ids, NEW a \in Args, Edit(i, a) PROVE IInv'
  BY <1>6, EditStep
<1>7. ASSUME NEW i \in Ids, MarkConsumed(i) PROVE IInv'
  BY <1>7, MarkConsumedStep
<1>8. ASSUME NEW t \in Tasks, NEW r \in Rulebooks, NEW f \in BOOLEAN, Register(t, r, f)
      PROVE  IInv'
  BY <1>8, RegisterStep
<1>9. ASSUME NEW c \in Clients, NEW call \in Call, Exec(c, call) PROVE IInv'
  BY <1>9, ExecStep
<1>10. ASSUME NEW c \in Clients, ClaimFor(c) \/ Run(c) PROVE IInv'
  BY <1>10, ClaimForStep, RunStep
<1>11. ASSUME NEW t \in Tasks, Console(t) PROVE IInv'
  BY <1>11, ConsoleStep
<1>12. CASE Tick  BY <1>12, TickStep
<1>13. CASE Restart  BY <1>13, RestartStep
<1>14. QED
  BY <1>1, <1>2, <1>3, <1>4, <1>5, <1>6, <1>7, <1>8, <1>9, <1>10, <1>11, <1>12, <1>13 DEF Next

\* The invariant holds throughout.
THEOREM Invariance == Spec => []IInv
<1>1. Init => IInv  BY InitHolds
<1>2. IInv /\ [Next]_vars => IInv'  BY NextKeeps
<1>3. QED  BY <1>1, <1>2, PTL DEF Spec

\* Every variable of the gate keeps its type.
THEOREM TypeCorrect == Spec => []TypeOK
<1>1. IInv => TypeOK  BY DEF IInv
<1>2. QED  BY <1>1, Invariance, PTL

\* ClaimFor and Execute: whatever the number of tickets, requests, failed
\* writes and restarts, a ticket unlocks at most one execution.
THEOREM UnlocksOnce == Spec => []AllowOnce
<1>1. IInv => AllowOnce
  <2> SUFFICES ASSUME IInv, NEW id \in Ids
               PROVE  spent[id] + Cardinality(Running(id)) <= 1
    BY DEF AllowOnce
  <2>1. Once  BY DEF IInv
  <2>2. spent[id] \in {0, 1}  BY <2>1 DEF Once
  <2>3. CASE Running(id) = {}
    BY <2>2, <2>3, FS_EmptySet
  <2>4. CASE Running(id) # {}
    <3>1. PICK c \in Running(id) : TRUE  BY <2>4
    <3>2. Running(id) = {c}
      BY <2>1, <3>1 DEF Once, Running, Runs
    <3>3. Cardinality(Running(id)) = 1  BY <3>2, FS_Singleton
    <3>4. spent[id] = 0
      BY <2>1, <2>2, <3>1 DEF Once, Running, Runs
    <3>5. QED  BY <3>3, <3>4
  <2>5. QED  BY <2>3, <2>4
<1>2. QED  BY <1>1, Invariance, PTL

\* Decide, Edit and ClaimFor: what runs on a ticket is what was approved.
THEOREM RunsWhatWasApproved == Spec => []ExecutedAsApproved
<1>1. IInv => ExecutedAsApproved
  <2> SUFFICES ASSUME IInv, NEW c \in Clients, th[c].pc = "run", th[c].ticket # None
               PROVE  /\ granted[th[c].ticket] # None
                      /\ granted[th[c].ticket].what = BoundOf(th[c].call)
                      /\ Strong => granted[th[c].ticket].key # tickets[th[c].ticket].by
    BY DEF ExecutedAsApproved
  <2>1. Requests /\ Granted(tickets) /\ TypeOK  BY DEF IInv
  <2>2. th[c].ticket \in Ids  BY <2>1 DEF TypeOK
  <2>3. QED  BY <2>1, <2>2 DEF Requests, Granted
<1>2. QED  BY <1>1, Invariance, PTL

\* Decide and EnablePersistence: a decision whose success was reported is
\* what memory and the file say from then on.
THEOREM ReportedDecisionsStand == Spec => []DecisionStands
<1>1. IInv => DecisionStands  BY DEF IInv, Stands, DecisionStands
<1>2. QED  BY <1>1, Invariance, PTL

-----------------------------------------------------------------------------
(* The verdict of the rules. *)

\* A set of numbers that is not empty has a least one.
LEMMA LeastOf ==
    ASSUME NEW S \in SUBSET Nat, S # {}
    PROVE  (CHOOSE i \in S : \A j \in S : i <= j) \in S
           /\ \A j \in S : (CHOOSE i \in S : \A k \in S : i <= k) <= j
<1>1. PICK R : R = {e \in Nat \X Nat : e[1] < e[2]}  OBVIOUS
<1>2. IsWellFoundedOn(R, Nat)  BY <1>1, NatLessThanWellFounded, Zenon DEF OpToRel
<1>3. PICK x \in S : \A y \in S : <<y, x>> \notin R  BY <1>2, WFMin
<1>4. ASSUME NEW y \in S PROVE x <= y
  <2>1. x \in Nat /\ y \in Nat /\ <<y, x>> \notin R  BY <1>3
  <2>2. PICK e : e = <<y, x>>  OBVIOUS
  <2>3. e \in Nat \X Nat /\ e[1] = y /\ e[2] = x  BY <2>1, <2>2
  <2>4. ~(y < x)  BY <1>1, <2>1, <2>2, <2>3
  <2>5. QED  BY <2>1, <2>4
<1>5. QED  BY <1>3, <1>4

\* What Decide answers unless it denies is the action of the first rule that
\* covers the call.
LEMMA FirstRuleDecides ==
    ASSUME NEW rules \in Seq(Rule), NEW call \in Call, Decide(rules, call) # "deny"
    PROVE  \E i \in DOMAIN rules :
             /\ Covers(rules[i], call) /\ rules[i].action = Decide(rules, call)
             /\ \A j \in 1 .. i - 1 : ~Covers(rules[j], call)
<1>1. PICK hits : hits = {i \in DOMAIN rules : Matches(rules[i], call)}  OBVIOUS
<1>2. hits # {} /\ hits \in SUBSET Nat  BY <1>1 DEF Decide
<1>3. PICK n : n = CHOOSE i \in hits : \A j \in hits : i <= j  OBVIOUS
<1>4. n \in hits /\ \A j \in hits : n <= j  BY <1>2, <1>3, LeastOf
<1>5. Decide(rules, call) = rules[n].action  BY <1>1, <1>2, <1>3 DEF Decide
<1>6. \A i \in DOMAIN rules : Matches(rules[i], call) <=> Covers(rules[i], call)
  BY DEF Matches, Covers
<1>7. ASSUME NEW j \in 1 .. n - 1 PROVE ~Covers(rules[j], call)
  <2>1. n \in 1 .. Len(rules)  BY <1>1, <1>4
  <2>2. j \in DOMAIN rules /\ ~(n <= j)  BY <2>1
  <2>3. QED  BY <1>1, <1>4, <1>6, <2>2
<1>8. QED  BY <1>1, <1>4, <1>5, <1>6, <1>7

\* A step that is not Execute starts no request.
LEMMA OnlyExecStarts ==
    ASSUME IInv, [Next]_vars, NEW c \in Clients, th[c].pc = "idle", th'[c].pc # "idle"
    PROVE  \E call \in Call : Exec(c, call)
<1>1. th \in [Clients -> [pc: {"idle", "claim", "run"}, call: Call \cup {None},
                          ticket: Ids \cup {None}, wired: BOOLEAN]]  BY DEF IInv, TypeOK
<1>2. th' # th  OBVIOUS
<1>3. ASSUME NEW d \in Clients, NEW call \in Call, Exec(d, call), d # c PROVE FALSE
  <2>1. th'[c] = th[c]  BY <1>1, <1>3 DEF Exec
  <2>2. QED  BY <2>1
<1>4. ASSUME NEW d \in Clients, ClaimFor(d) \/ Run(d) PROVE FALSE
  <2>1. th[d].pc # "idle"  BY <1>4 DEF ClaimFor, Run, At
  <2>2. th'[c] = th[c]  BY <1>1, <1>4, <2>1 DEF ClaimFor, Run, Return
  <2>3. QED  BY <2>2
<1>5. ~Restart
  <2>1. Restart => th'[c] = Idle  BY DEF Restart
  <2>2. QED  BY <2>1 DEF Idle
<1>6. \E d \in Clients, call \in Call : Exec(d, call)
  BY <1>2, <1>4, <1>5 DEF Next, vars, Create, DecideTicket, Pending, ExpirePending, Edit,
     MarkConsumed, Register, Console, Tick
<1>7. QED  BY <1>3, <1>6

\* Gateway.Decide and Execute: with any rules, no call goes on to a claim or to
\* the executor that the first rule covering it does not let through.
THEOREM NothingUncovered == Spec => NothingByDefault
<1>1. IInv /\ [Next]_vars => [\A c \in Clients : LetThrough(c)]_vars
  <2> SUFFICES ASSUME IInv, [Next]_vars, NEW c \in Clients, th[c].pc = "idle", th'[c].pc # "idle"
               PROVE  LetThrough(c)
    BY DEF LetThrough
  <2>1. PICK call \in Call : Exec(c, call)  BY OnlyExecStarts
  <2>2. PICK rules : rules = gates[call.task].rules  OBVIOUS
  <2>3. rules \in Seq(Rule) /\ c \in DOMAIN th
    BY <2>1, <2>2 DEF IInv, TypeOK, Exec, Call
  <2>4. PICK act : act = Decide(rules, call)  OBVIOUS
  <2>5. /\ th'[c].call = call
        /\ \/ th'[c].pc = "claim" /\ act = "approve"
           \/ th'[c].pc = "run" /\ act \in {"allow", "constrain"}
    <3>1. PICK wired : wired = (gates[call.task].wired \/ call.task \in console)  OBVIOUS
    <3>2. PICK to : to = [p \in {"claim", "run"} |->
             [th EXCEPT ![c] = [pc |-> p, call |-> call, ticket |-> None, wired |-> wired]]]
      OBVIOUS
    <3>3. \/ act = "approve" /\ th' = to["claim"]
          \/ act \in {"allow", "constrain"} /\ th' = to["run"]
          \/ th' = th
      BY <2>1, <2>2, <2>4, <3>1, <3>2 DEF Exec
    <3>4. \A p \in {"claim", "run"} : to[p][c].pc = p /\ to[p][c].call = call
      BY <2>3, <3>2
    <3>5. QED  BY <3>3, <3>4
  <2>6. PICK i \in DOMAIN rules :
          /\ Covers(rules[i], call) /\ rules[i].action = act
          /\ \A j \in 1 .. i - 1 : ~Covers(rules[j], call)
    BY <2>3, <2>4, <2>5, FirstRuleDecides
  <2>7. QED  BY <2>2, <2>5, <2>6 DEF LetThrough
<1>2. QED  BY <1>1, Invariance, PTL DEF Spec, NothingByDefault

(***************************************************************************)
(* Theorems about Containment.                                             *)
(*                                                                         *)
(* The broker: what it reported as revoked is in the file unless a start   *)
(* lost it, and in memory while the process is up; a rotation in flight    *)
(* belongs to the process that checked its token.  The walk: a stage that  *)
(* is neither ahead of a report nor failed is in force already, so one     *)
(* that comes after a failed hook is too.  The count: the mild reports on  *)
(* a task never outnumber the reports counted for it.                      *)
(***************************************************************************)

Token == [task: TaskIds, exp: BOOLEAN]
StageName == {"revoke", "block", "pause", "preserve", "terminate"}
Report == [pc: {"idle", "walk", "done", "lost"}, task: TaskIds \cup {""},
           act: {"none", "block", "pause", "quarantine", "terminate"},
           todo: Seq(StageName), failed: SUBSET StageName, undone: SUBSET StageName]
Box == [run: {"running", "frozen", "dead"}, status: {"Running", "Suspended", "Destroy"}, cg: BOOLEAN]

ContainTypes ==
    /\ token \in Seq(Token)
    /\ proc \in {"down", "keying", "up"} /\ cached \in {"unset", "broker", "nil"}
    /\ handler \in [Handlers -> [pc: {"idle", "mint", "revoke"}, id: Nat]]
    /\ gone \in [ids: SUBSET Nat, tasks: SUBSET TaskIds] /\ narrowed \in BOOLEAN
    /\ handled \in [TaskIds -> Nat]
    /\ report \in [Reports -> Report]
    /\ box \in [TaskIds -> Box]

\* What was reported as revoked is on disk, and in the memory of the process.
BrokerOK ==
    /\ cached = "broker" => proc = "up"
    /\ \A h \in Handlers : handler[h].pc # "idle" => proc = "up" /\ handler[h].id \in Minted
    /\ ~narrowed => gone.ids \subseteq file.ids /\ gone.tasks \subseteq file.tasks
    /\ ~narrowed /\ proc = "up" => gone.ids \subseteq revoked /\ gone.tasks \subseteq shut

Ahead(x) == {x.todo[i] : i \in DOMAIN x.todo}
Taken(x) == x.pc \in {"walk", "done"}

\* A stage of a report is behind it and did not fail.
Over(x, s) ==
    /\ s \in {Stages(x.act)[i] : i \in DOMAIN Stages(x.act)}
    /\ s \notin x.failed /\ s \notin Ahead(x)

\* The stages behind a report hold.
InForce(x) ==
    /\ Over(x, "revoke") /\ cached = "broker" => x.task \in shut
    /\ Over(x, "pause") /\ box[x.task].cg /\ "pause" \notin x.undone =>
          box[x.task].run \in {"frozen", "dead"}
    /\ Over(x, "terminate") /\ box[x.task].cg => box[x.task].run = "dead"

WalkOK ==
    \A r \in Reports :
        /\ Taken(report[r]) => cached # "unset" /\ report[r].task \in TaskIds /\ InForce(report[r])
        /\ report[r].pc = "done" => report[r].todo = <<>>

\* The reports on a task that were answered with less than quarantine.
Mildly(t) == {r \in Reports : /\ report[r].task = t /\ report[r].pc \in {"walk", "done"}
                              /\ report[r].act \in Mild}

CountOK ==
    \A t \in TaskIds :
        /\ IsFiniteSet(Mildly(t))
        /\ Cardinality(Mildly(t)) <= handled[t] /\ Cardinality(Mildly(t)) <= 2

ContainInv == ContainTypes /\ BrokerOK /\ WalkOK /\ CountOK

-----------------------------------------------------------------------------
(* Steps of the broker: the reports and the guests stay as they are. *)

\* Nothing a walk brought about is undone.
Grows ==
    /\ shut \subseteq shut' /\ cached' = cached
    /\ box' \in [TaskIds -> Box]
    /\ \A t \in TaskIds :
          /\ box'[t].cg = box[t].cg
          /\ box[t].run = "dead" => box'[t].run = "dead"
          /\ box[t].run = "frozen" => box'[t].run \in {"frozen", "dead"}

LEMMA StillInForce ==
    ASSUME Grows, NEW x \in Report, x.task \in TaskIds, InForce(x)
    PROVE  InForce(x)'
<1>1. \A t \in TaskIds : box'[t].cg = box[t].cg /\ (box[t].run = "dead" => box'[t].run = "dead")
         /\ (box[t].run = "frozen" => box'[t].run \in {"frozen", "dead"})
  BY DEF Grows
<1>2. shut \subseteq shut' /\ cached' = cached  BY DEF Grows
<1>3. QED  BY <1>1, <1>2 DEF InForce

\* The count looks only at which reports are taken, on what and how.
LEMMA CountKept ==
    ASSUME CountOK, UNCHANGED handled,
           \A r \in Reports : /\ report'[r].task = report[r].task /\ report'[r].act = report[r].act
                              /\ Taken(report[r])' <=> Taken(report[r])
    PROVE  CountOK'
<1>1. \A t \in TaskIds : Mildly(t)' = Mildly(t)  BY DEF Mildly, Taken
<1>2. QED  BY <1>1 DEF CountOK

LEMMA ReportsKept ==
    ASSUME WalkOK, CountOK, ContainTypes, Grows, UNCHANGED <<report, handled>>
    PROVE  WalkOK' /\ CountOK'
<1>1. CountOK'
  <2>1. \A r \in Reports : /\ report'[r].task = report[r].task /\ report'[r].act = report[r].act
                           /\ Taken(report[r])' <=> Taken(report[r])
    BY DEF Taken
  <2>2. QED  BY <2>1, CountKept
<1>2. WalkOK'
  <2>1. SUFFICES ASSUME NEW r \in Reports
                 PROVE  /\ Taken(report'[r]) =>
                              cached' # "unset" /\ report'[r].task \in TaskIds /\ InForce(report[r])'
                        /\ report'[r].pc = "done" => report'[r].todo = <<>>
    BY DEF WalkOK
  <2>2. PICK x \in Report : x = report[r]  BY DEF ContainTypes
  <2>3. report'[r] = x  BY <2>2
  <2>4. Taken(x) => cached' # "unset" /\ x.task \in TaskIds /\ InForce(x)'
    BY <2>2, StillInForce DEF WalkOK, Grows
  <2>5. x.pc = "done" => x.todo = <<>>  BY <2>2 DEF WalkOK
  <2>6. QED  BY <2>2, <2>3, <2>4, <2>5
<1>3. QED  BY <1>1, <1>2

\* The guests of a step that does not touch them.
LEMMA SameBox ==
    ASSUME ContainTypes, UNCHANGED <<box, cached>>, shut \subseteq shut'
    PROVE  Grows
BY DEF ContainTypes, Grows, Box

\* A token minted, expired, or asked for.
LEMMA TokenType ==
    ASSUME ContainTypes, NEW id \in Minted
    PROVE  token[id] \in Token /\ id \in Nat
<1>1. token \in Seq(Token)  BY DEF ContainTypes
<1>2. id \in 1 .. Len(token)  BY <1>1, LenProperties DEF Minted
<1>3. QED  BY <1>1, <1>2, ElementOfSeq, LenProperties

LEMMA MintType ==
    ASSUME ContainTypes, NEW t \in TaskIds, Mint(t)
    PROVE  token' \in Seq(Token) /\ Minted \subseteq Minted'
<1>1. [task |-> t, exp |-> FALSE] \in Token  BY DEF Token
<1>2. token \in Seq(Token) /\ Len(token) \in Nat /\ Minted = 1 .. Len(token)
  BY LenProperties DEF ContainTypes, Minted
<1>3. token' \in Seq(Token) /\ Len(token') = Len(token) + 1  BY <1>1, <1>2, AppendProperties DEF Mint
<1>4. Minted' = 1 .. Len(token')  BY <1>3, LenProperties DEF Minted
<1>5. QED  BY <1>2, <1>3, <1>4

\* persistRevLocked writes sets that hold what was reported as revoked.
LEMMA RevPersisted ==
    ASSUME NEW R, NEW T, NEW ok \in BOOLEAN, persistRevLocked(R, T, ok)
    PROVE  /\ ok => file'.ids = R /\ file'.tasks = T
           /\ file' = file \/ (file'.ids = R /\ file'.tasks = T)
BY DEF persistRevLocked

LEMMA RevokeBroker ==
    ASSUME ContainTypes, BrokerOK, NEW id \in Nat, NEW ok \in BOOLEAN, Revoke(id, ok), proc = "up",
           UNCHANGED <<proc, shut, narrowed, cached, token>>,
           \A h \in Handlers : handler'[h].pc # "idle" => handler'[h] = handler[h]
    PROVE  BrokerOK' /\ gone' \in [ids: SUBSET Nat, tasks: SUBSET TaskIds]
<1>1. gone \in [ids: SUBSET Nat, tasks: SUBSET TaskIds]  BY DEF ContainTypes
<1>2. gone' \in [ids: SUBSET Nat, tasks: SUBSET TaskIds] /\ gone'.tasks = gone.tasks
      /\ gone'.ids = IF ok THEN gone.ids \cup {id} ELSE gone.ids
  BY <1>1 DEF Revoke
<1>3. revoked' = revoked \cup {id} /\ persistRevLocked(revoked', shut, ok)  BY DEF Revoke
<1>4. /\ ok => file'.ids = revoked' /\ file'.tasks = shut
      /\ file' = file \/ (file'.ids = revoked' /\ file'.tasks = shut)
  BY <1>3, RevPersisted
<1>5. QED  BY <1>2, <1>3, <1>4 DEF BrokerOK, Minted

LEMMA RevokeAllBroker ==
    ASSUME ContainTypes, BrokerOK, NEW t \in TaskIds, NEW ok \in BOOLEAN, RevokeAllForTask(t, ok), proc = "up",
           UNCHANGED <<proc, handler, narrowed, cached, token>>
    PROVE  BrokerOK' /\ gone' \in [ids: SUBSET Nat, tasks: SUBSET TaskIds]
<1>1. gone \in [ids: SUBSET Nat, tasks: SUBSET TaskIds]  BY DEF ContainTypes
<1>2. gone' \in [ids: SUBSET Nat, tasks: SUBSET TaskIds] /\ gone'.ids = gone.ids
      /\ gone'.tasks = IF ok THEN gone.tasks \cup {t} ELSE gone.tasks
  BY <1>1 DEF RevokeAllForTask
<1>3. revoked \subseteq revoked' /\ shut' = shut \cup {t} /\ persistRevLocked(revoked', shut', ok)
  BY DEF RevokeAllForTask
<1>4. /\ ok => file'.ids = revoked' /\ file'.tasks = shut'
      /\ file' = file \/ (file'.ids = revoked' /\ file'.tasks = shut')
  BY <1>3, RevPersisted
<1>5. QED  BY <1>2, <1>3, <1>4 DEF BrokerOK, Minted

\* The steps of the process and of its files.
LEMMA ProcessInv ==
    ASSUME ContainInv, CreateKey \/ WriteKey \/ Load \/ LoadFails \/ currentIncident
    PROVE  ContainInv'
<1> USE DEF ContainInv
<1>1. CASE CreateKey
  <2>1. UNCHANGED <<box, cached, shut, report, handled>>  BY <1>1 DEF CreateKey, ivars
  <2>2. WalkOK' /\ CountOK'  BY <2>1, SameBox, ReportsKept
  <2>3. BrokerOK' /\ ContainTypes'  BY <1>1 DEF CreateKey, ivars, BrokerOK, Minted, ContainTypes
  <2>4. QED  BY <2>2, <2>3
<1>2. CASE WriteKey
  <2>1. UNCHANGED <<box, cached, shut, report, handled>>  BY <1>2 DEF WriteKey, ivars
  <2>2. WalkOK' /\ CountOK'  BY <2>1, SameBox, ReportsKept
  <2>3. BrokerOK' /\ ContainTypes'  BY <1>2 DEF WriteKey, ivars, BrokerOK, Minted, ContainTypes
  <2>4. QED  BY <2>2, <2>3
<1>3. CASE Load
  <2>1. UNCHANGED <<box, cached, report, handled>> /\ proc = "down" /\ cached # "broker"
    BY <1>3 DEF Load, ivars, BrokerOK
  <2>2. CountOK'  BY <2>1 DEF CountOK, Mildly
  <2>5. WalkOK'
    <3>1. SUFFICES ASSUME NEW r \in Reports
                   PROVE  /\ Taken(report'[r]) =>
                                cached' # "unset" /\ report'[r].task \in TaskIds /\ InForce(report[r])'
                          /\ report'[r].pc = "done" => report'[r].todo = <<>>
      BY DEF WalkOK
    <3>2. PICK x : x = report[r]  OBVIOUS
    <3>3. Taken(x) => cached' # "unset" /\ x.task \in TaskIds /\ InForce(x)
      BY <2>1, <3>2 DEF WalkOK
    <3>4. InForce(x) => InForce(x)'  BY <2>1 DEF InForce
    <3>5. QED  BY <2>1, <3>2, <3>3, <3>4 DEF WalkOK
  <2>3. BrokerOK' /\ ContainTypes'  BY <1>3 DEF Load, ivars, BrokerOK, Minted, ContainTypes
  <2>4. QED  BY <2>2, <2>3, <2>5
<1>4. CASE LoadFails
  <2>1. UNCHANGED <<box, cached, shut, report, handled>>  BY <1>4 DEF LoadFails, ivars
  <2>2. WalkOK' /\ CountOK'  BY <2>1, SameBox, ReportsKept
  <2>3. BrokerOK' /\ ContainTypes'  BY <1>4 DEF LoadFails, ivars, BrokerOK, Minted, ContainTypes
  <2>4. QED  BY <2>2, <2>3
<1>5. CASE currentIncident
  <2>1. UNCHANGED <<box, shut, report, handled, proc, handler, gone, file, revoked, narrowed, token>>
        /\ cached' \in {"broker", "nil"} /\ (cached' = "broker" => proc = "up")
    BY <1>5 DEF currentIncident, bvars
  <2>2. BrokerOK' /\ ContainTypes'  BY <2>1 DEF BrokerOK, Minted, ContainTypes
  <2>3. CountOK'  BY <2>1 DEF CountOK, Mildly
  <2>4. \A r \in Reports : ~Taken(report[r])  BY <1>5 DEF currentIncident, WalkOK
  <2>5. WalkOK'  BY <2>1, <2>4 DEF WalkOK, Taken
  <2>6. QED  BY <2>2, <2>3, <2>5
<1>6. QED  BY <1>1, <1>2, <1>3, <1>4, <1>5

\* The death of the process drops every report and every rotation in flight.
LEMMA CrashInv == ASSUME ContainInv, Crash PROVE ContainInv'
<1>1. ContainTypes /\ proc' = "down" /\ cached' = "unset" /\ handler' = [h \in Handlers |-> Rest]
      /\ handled' = [t \in TaskIds |-> 0] /\ UNCHANGED <<token, gone, narrowed, box, file>>
  BY DEF ContainInv, Crash
<1>2. report' \in [Reports -> Report] /\ \A r \in Reports : report'[r].pc \in {"idle", "lost"}
  <2>1. ASSUME NEW r \in Reports
        PROVE  LET y == [report[r] EXCEPT !.pc = IF @ = "idle" THEN @ ELSE "lost"]
               IN  y \in Report /\ y.pc \in {"idle", "lost"}
    <3>1. report[r] \in Report  BY <1>1 DEF ContainTypes
    <3>2. QED  BY <3>1 DEF Report
  <2>2. QED  BY <2>1 DEF Crash
<1>3. Rest \in [pc: {"idle", "mint", "revoke"}, id: Nat] /\ Rest.pc = "idle"  BY DEF Rest
<1>4. ContainTypes'  BY <1>1, <1>2, <1>3 DEF ContainTypes
<1>5. BrokerOK'  BY <1>1, <1>3 DEF ContainInv, BrokerOK
<1>6. WalkOK'  BY <1>2 DEF WalkOK, Taken
<1>7. CountOK'
  <2>1. \A t \in TaskIds : Mildly(t)' = {}  BY <1>2 DEF Mildly
  <2>2. QED  BY <1>1, <2>1, FS_EmptySet DEF CountOK
<1>8. QED  BY <1>4, <1>5, <1>6, <1>7 DEF ContainInv

\* The requests of the broker, each a step of its own.
LEMMA BrokerInv ==
    ASSUME ContainInv,
           \/ \E t \in TaskIds : PostToken(t) \/ \E ok \in BOOLEAN : RevokeAll(t, ok)
           \/ \E h \in Handlers :
                 \/ RefreshMint(h)
                 \/ \E ok \in BOOLEAN : RevokeOne(h, ok)
                 \/ \E id \in Minted : RefreshCheck(h, id) \/ \E t \in TaskIds : RevokeCheck(h, t, id)
           \/ \E id \in Minted : Expire(id) \/ Forget(id)
    PROVE  ContainInv'
<1>0. ContainTypes /\ BrokerOK /\ WalkOK /\ CountOK  BY DEF ContainInv
<1>1. ASSUME NEW t \in TaskIds, PostToken(t)  PROVE ContainInv'
  <2>1. UNCHANGED <<proc, revoked, shut, file, handler, gone, narrowed, cached, handled, report, box>> /\ Mint(t)
    BY <1>1 DEF PostToken, ivars
  <2>2. WalkOK' /\ CountOK'  BY <1>0, <2>1, SameBox, ReportsKept
  <2>3. ContainTypes' /\ Minted \subseteq Minted'  BY <1>0, <2>1, MintType DEF ContainTypes
  <2>4. BrokerOK'  BY <1>0, <2>1, <2>3 DEF BrokerOK
  <2>5. QED  BY <2>2, <2>3, <2>4 DEF ContainInv
<1>2. ASSUME NEW t \in TaskIds, NEW ok \in BOOLEAN, RevokeAll(t, ok)  PROVE ContainInv'
  <2>1. /\ UNCHANGED <<proc, token, handler, narrowed, cached, handled, report, box>>
        /\ proc = "up" /\ RevokeAllForTask(t, ok) /\ shut \subseteq shut'
    BY <1>2 DEF RevokeAll, ivars, RevokeAllForTask
  <2>2. WalkOK' /\ CountOK'  BY <1>0, <2>1, SameBox, ReportsKept
  <2>3. BrokerOK' /\ gone' \in [ids: SUBSET Nat, tasks: SUBSET TaskIds]  BY <1>0, <2>1, RevokeAllBroker
  <2>4. ContainTypes'  BY <1>0, <2>1, <2>3 DEF ContainTypes
  <2>5. QED  BY <2>2, <2>3, <2>4 DEF ContainInv
<1>3. ASSUME NEW h \in Handlers, RefreshMint(h)  PROVE ContainInv'
  <2>1. /\ UNCHANGED <<proc, revoked, shut, file, gone, narrowed, cached, handled, report, box>>
        /\ handler' = [handler EXCEPT ![h].pc = "revoke"] /\ handler[h].pc = "mint"
        /\ Mint(token[handler[h].id].task)
    BY <1>3 DEF RefreshMint, ivars
  <2>2. WalkOK' /\ CountOK'  BY <1>0, <2>1, SameBox, ReportsKept
  <2>3. token[handler[h].id] \in Token  BY <1>0, <2>1, TokenType DEF BrokerOK
  <2>4. PICK t \in TaskIds : t = token[handler[h].id].task  BY <2>3 DEF Token
  <2>5. token' \in Seq(Token) /\ Minted \subseteq Minted'  BY <1>0, <2>1, <2>4, MintType
  <2>6. ContainTypes'  BY <1>0, <2>1, <2>5 DEF ContainTypes
  <2>7. BrokerOK'  BY <1>0, <2>1, <2>5 DEF BrokerOK, ContainTypes
  <2>8. QED  BY <2>2, <2>6, <2>7 DEF ContainInv
<1>4. ASSUME NEW h \in Handlers, NEW ok \in BOOLEAN, RevokeOne(h, ok)  PROVE ContainInv'
  <2>1. /\ UNCHANGED <<proc, token, shut, narrowed, cached, handled, report, box>>
        /\ handler' = [handler EXCEPT ![h] = Rest] /\ handler[h].pc = "revoke" /\ Revoke(handler[h].id, ok)
    BY <1>4 DEF RevokeOne, ivars
  <2>2. WalkOK' /\ CountOK'  BY <1>0, <2>1, SameBox, ReportsKept
  <2>3. proc = "up" /\ handler[h].id \in Nat  BY <1>0, <2>1 DEF BrokerOK, ContainTypes
  <2>4. handler' \in [Handlers -> [pc: {"idle", "mint", "revoke"}, id: Nat]]
        /\ \A g \in Handlers : handler'[g].pc # "idle" => handler'[g] = handler[g]
    BY <1>0, <2>1 DEF ContainTypes, Rest
  <2>5. PICK id \in Nat : id = handler[h].id  BY <2>3
  <2>6. BrokerOK' /\ gone' \in [ids: SUBSET Nat, tasks: SUBSET TaskIds]
    BY <1>0, <2>1, <2>3, <2>4, <2>5, RevokeBroker
  <2>7. ContainTypes'  BY <1>0, <2>1, <2>4, <2>6 DEF ContainTypes
  <2>8. QED  BY <2>2, <2>6, <2>7 DEF ContainInv
<1>5. ASSUME NEW h \in Handlers, NEW id \in Minted,
             RefreshCheck(h, id) \/ \E t \in TaskIds : RevokeCheck(h, t, id)
      PROVE  ContainInv'
  <2>1. /\ UNCHANGED <<proc, token, revoked, shut, file, gone, narrowed, cached, handled, report, box>>
        /\ proc = "up"
        /\ \E pc \in {"mint", "revoke"} : handler' = [handler EXCEPT ![h] = [pc |-> pc, id |-> id]]
    BY <1>5 DEF RefreshCheck, RevokeCheck, ivars
  <2>2. WalkOK' /\ CountOK'  BY <1>0, <2>1, SameBox, ReportsKept
  <2>3. id \in Nat  BY <1>0, TokenType
  <2>4. ContainTypes'  BY <1>0, <2>1, <2>3 DEF ContainTypes
  <2>5. BrokerOK'  BY <1>0, <2>1 DEF BrokerOK, Minted, ContainTypes
  <2>6. QED  BY <2>2, <2>4, <2>5 DEF ContainInv
<1>6. ASSUME NEW id \in Minted, Expire(id)  PROVE ContainInv'
  <2>1. /\ UNCHANGED <<proc, revoked, shut, file, handler, gone, narrowed, cached, handled, report, box>>
        /\ token' = [token EXCEPT ![id].exp = TRUE]
    BY <1>6 DEF Expire, ivars
  <2>2. WalkOK' /\ CountOK'  BY <1>0, <2>1, SameBox, ReportsKept
  <2>3. token' \in Seq(Token)
    <3>1. token \in Seq(Token) /\ id \in 1 .. Len(token)  BY <1>0, LenProperties DEF ContainTypes, Minted
    <3>2. PICK x \in Token : x = token[id]  BY <1>0, TokenType
    <3>3. [x EXCEPT !.exp = TRUE] \in Token  BY DEF Token
    <3>4. token' = [token EXCEPT ![id] = [x EXCEPT !.exp = TRUE]]  BY <2>1, <3>2
    <3>5. QED  BY <3>1, <3>3, <3>4, ExceptSeq
  <2>4. ContainTypes'  BY <1>0, <2>1, <2>3 DEF ContainTypes
  <2>5. Minted' = Minted  BY <2>1 DEF Minted
  <2>6. BrokerOK'  BY <1>0, <2>1, <2>5 DEF BrokerOK
  <2>7. QED  BY <2>2, <2>4, <2>6 DEF ContainInv
<1>7. ASSUME NEW id \in Minted, Forget(id)  PROVE ContainInv'
  <2>1. UNCHANGED <<proc, token, revoked, shut, file, handler, gone, narrowed, cached, handled, report, box>>
    BY <1>7 DEF Forget, ivars
  <2>2. WalkOK' /\ CountOK'  BY <1>0, <2>1, SameBox, ReportsKept
  <2>3. ContainTypes' /\ BrokerOK'  BY <1>0, <2>1 DEF ContainTypes, BrokerOK, Minted
  <2>4. QED  BY <2>2, <2>3 DEF ContainInv
<1>8. QED  BY <1>1, <1>2, <1>3, <1>4, <1>5, <1>6, <1>7

-----------------------------------------------------------------------------
(* Steps of the incident controller. *)

\* Handle: the new report has every stage ahead of it, and is mild only as one
\* of the first two on its task.
LEMMA HandleInv ==
    ASSUME ContainInv, NEW r \in Reports, NEW t \in TaskIds, NEW sev \in Severities, Handle(r, t, sev)
    PROVE  ContainInv'
<1>0. ContainTypes /\ BrokerOK /\ WalkOK /\ CountOK  BY DEF ContainInv
<1>1. PICK n \in Nat : n = handled[t]  BY <1>0 DEF ContainTypes
<1>2. PICK act : act = escalated(n + 1, Classify(sev))  OBVIOUS
<1>3. PICK y : y = [pc |-> "walk", task |-> t, act |-> act, todo |-> Stages(act), failed |-> {}, undone |-> {}]
  OBVIOUS
<1>4. /\ UNCHANGED <<proc, token, revoked, shut, file, handler, gone, narrowed, cached, box>>
      /\ cached # "unset" /\ report[r].pc = "idle"
      /\ handled' = [handled EXCEPT ![t] = n + 1] /\ handled'[t] = n + 1
      /\ report' = [report EXCEPT ![r] = y]
  <2>1. handled' = [handled EXCEPT ![t] = n + 1] /\ handled'[t] = n + 1
    BY <1>0, <1>1 DEF Handle, ContainTypes
  <2>2. QED  BY <1>2, <1>3, <2>1 DEF Handle, bvars
<1>5. act \in {"block", "pause", "quarantine", "terminate"} /\ (act \in Mild => n < 2)
  BY <1>1, <1>2 DEF escalated, Classify, Severities, Mild
<1>6. y \in Report /\ y.task = t /\ y.pc = "walk" /\ y.act = act /\ y.todo = Stages(act)
  <2>1. Stages(act) \in Seq(StageName)
    <3>1. CASE act = "terminate"
      <4>1. Stages(act) = <<"revoke", "block", "pause", "preserve", "terminate">>  BY <3>1 DEF Stages
      <4>2. QED  BY <4>1 DEF StageName
    <3>2. CASE act = "quarantine"
      <4>1. Stages(act) = <<"revoke", "block", "pause", "preserve">>  BY <3>2 DEF Stages
      <4>2. QED  BY <4>1 DEF StageName
    <3>3. CASE act = "pause"
      <4>1. Stages(act) = <<"pause", "preserve">>  BY <3>3 DEF Stages
      <4>2. QED  BY <4>1 DEF StageName
    <3>4. CASE act = "block"
      <4>1. Stages(act) = <<"block">>  BY <3>4 DEF Stages
      <4>2. QED  BY <4>1 DEF StageName
    <3>5. QED  BY <1>5, <3>1, <3>2, <3>3, <3>4
  <2>2. QED  BY <1>3, <1>5, <2>1 DEF Report
<1>7. ContainTypes'  BY <1>0, <1>4, <1>6 DEF ContainTypes
<1>8. BrokerOK'  BY <1>0, <1>4 DEF BrokerOK, Minted
<1>9. report'[r] = y /\ \A q \in Reports : q # r => report'[q] = report[q]  BY <1>0, <1>4 DEF ContainTypes
<1>10. WalkOK'
  <2>1. SUFFICES ASSUME NEW q \in Reports
                 PROVE  /\ Taken(report'[q]) =>
                              cached' # "unset" /\ report'[q].task \in TaskIds /\ InForce(report[q])'
                        /\ report'[q].pc = "done" => report'[q].todo = <<>>
    BY DEF WalkOK
  <2>2. CASE q = r
    <3>1. \A s : ~Over(y, s)  BY <1>6 DEF Over, Ahead
    <3>2. InForce(y)'  BY <3>1 DEF InForce
    <3>3. QED  BY <1>4, <1>6, <1>9, <2>2, <3>2
  <2>3. CASE q # r
    <3>1. PICK x \in Report : x = report[q]  BY <1>0 DEF ContainTypes
    <3>2. Grows  BY <1>0, <1>4, SameBox
    <3>3. Taken(x) => x.task \in TaskIds /\ InForce(x)'  BY <1>0, <3>1, <3>2, StillInForce DEF WalkOK
    <3>4. report'[q] = x  BY <1>9, <2>3, <3>1
    <3>5. QED  BY <1>0, <1>4, <3>1, <3>3, <3>4 DEF WalkOK
  <2>4. QED  BY <2>2, <2>3
<1>11. CountOK'
  <2>1. SUFFICES ASSUME NEW u \in TaskIds
                 PROVE  /\ IsFiniteSet(Mildly(u)')
                        /\ Cardinality(Mildly(u)') <= handled'[u] /\ Cardinality(Mildly(u)') <= 2
    BY DEF CountOK
  <2>2. PICK M : M = Mildly(u)  OBVIOUS
  <2>3. IsFiniteSet(M) /\ Cardinality(M) <= handled[u] /\ Cardinality(M) <= 2 /\ Cardinality(M) \in Nat
    BY <1>0, <2>2, FS_CardinalityType DEF CountOK
  <2>4. handled[u] \in Nat /\ handled'[u] = IF u = t THEN n + 1 ELSE handled[u]  BY <1>0, <1>4 DEF ContainTypes
  <2>5. CASE u = t /\ act \in Mild
    <3>1. Mildly(u)' = M \cup {r}  BY <1>4, <1>6, <1>9, <2>2, <2>5 DEF Mildly
    <3>2. IsFiniteSet(M \cup {r}) /\ Cardinality(M \cup {r}) <= Cardinality(M) + 1
      BY <2>3, FS_AddElement
    <3>3. Cardinality(M \cup {r}) \in Nat  BY <3>2, FS_CardinalityType
    <3>4. QED  BY <1>1, <1>5, <2>3, <2>4, <2>5, <3>1, <3>2, <3>3
  <2>6. CASE ~(u = t /\ act \in Mild)
    <3>1. Mildly(u)' = M  BY <1>4, <1>6, <1>9, <2>2, <2>6 DEF Mildly
    <3>2. QED  BY <1>1, <2>3, <2>4, <3>1
  <2>7. QED  BY <2>5, <2>6
<1>12. QED  BY <1>7, <1>8, <1>10, <1>11 DEF ContainInv

\* One stage done: the rest of the report is as it was.
LEMMA WalkedReport ==
    ASSUME NEW x \in Report, x.todo # <<>>, NEW ok \in BOOLEAN
    PROVE  LET w == walked(x, ok)
           IN  /\ w \in Report /\ w.pc = x.pc /\ w.task = x.task /\ w.act = x.act /\ w.undone = x.undone
               /\ Ahead(x) \subseteq Ahead(w) \cup {Head(x.todo)}
               /\ x.failed \subseteq w.failed
               /\ ~ok => Head(x.todo) \in w.failed
<1> DEFINE w == walked(x, ok)
<1>1. PICK s \in Seq(StageName) : s = x.todo  BY DEF Report
<1>2. /\ Head(s) \in StageName /\ Tail(s) \in Seq(StageName) /\ Len(s) \in Nat
      /\ Len(Tail(s)) = Len(s) - 1 /\ \A i \in 1 .. Len(Tail(s)) : Tail(s)[i] = s[i + 1]
  BY <1>1, HeadTailProperties, LenProperties
<1>7. Head(s) = s[1]  BY <1>1
<1>3. w = [x EXCEPT !.todo = Tail(s), !.failed = IF ok THEN x.failed ELSE x.failed \cup {Head(s)}]
  BY <1>1 DEF walked, Report
<1>4. w \in Report /\ w.todo = Tail(s) /\ w.pc = x.pc /\ w.task = x.task /\ w.act = x.act /\ w.undone = x.undone
      /\ w.failed = IF ok THEN x.failed ELSE x.failed \cup {Head(s)}
  <2>1. PICK f \in SUBSET StageName : f = IF ok THEN x.failed ELSE x.failed \cup {Head(s)}  BY <1>2 DEF Report
  <2>2. w = [x EXCEPT !.todo = Tail(s), !.failed = f]  BY <1>3, <2>1
  <2>3. QED  BY <1>2, <2>1, <2>2 DEF Report
<1> HIDE DEF w
<1>5. Ahead(x) \subseteq Ahead(w) \cup {Head(s)}
  <2>1. SUFFICES ASSUME NEW i \in DOMAIN s, s[i] # Head(s)  PROVE s[i] \in Ahead(w)
    BY <1>1 DEF Ahead
  <2>2. DOMAIN s = 1 .. Len(s) /\ DOMAIN Tail(s) = 1 .. Len(Tail(s))  BY <1>2, LenProperties
  <2>3. i - 1 \in DOMAIN Tail(s) /\ Tail(s)[i - 1] = s[i]  BY <1>2, <1>7, <2>1, <2>2
  <2>4. QED  BY <1>4, <2>3 DEF Ahead
<1>6. QED  BY <1>1, <1>4, <1>5 DEF w

\* A stage is walked: it must be in force if it is not reported as failed.
LEMMA WalkStep ==
    ASSUME ContainInv, NEW r \in Reports, NEW stage, NEW ok \in BOOLEAN, NextStage(r, stage), Grows,
           report' = [report EXCEPT ![r] = walked(report[r], ok)], UNCHANGED handled,
           ok /\ stage = "revoke" /\ cached = "broker" => report[r].task \in shut',
           ok /\ stage = "pause" /\ box[report[r].task].cg => box'[report[r].task].run \in {"frozen", "dead"},
           ok /\ stage = "terminate" /\ box[report[r].task].cg => box'[report[r].task].run = "dead"
    PROVE  WalkOK' /\ CountOK' /\ report' \in [Reports -> Report]
<1>0. ContainTypes /\ WalkOK /\ CountOK  BY DEF ContainInv
<1>1. PICK x \in Report : x = report[r]  BY <1>0 DEF ContainTypes
<1>2. x.pc = "walk" /\ x.todo # <<>> /\ Head(x.todo) = stage  BY <1>1 DEF NextStage
<1>3. PICK w : w = walked(x, ok)  OBVIOUS
<1>4. /\ w \in Report /\ w.pc = x.pc /\ w.task = x.task /\ w.act = x.act /\ w.undone = x.undone
      /\ Ahead(x) \subseteq Ahead(w) \cup {stage}
      /\ x.failed \subseteq w.failed
      /\ ~ok => stage \in w.failed
  BY <1>2, <1>3, WalkedReport
<1>5. report' \in [Reports -> Report] /\ report'[r] = w /\ \A q \in Reports : q # r => report'[q] = report[q]
  BY <1>0, <1>1, <1>3, <1>4 DEF ContainTypes
<1>6. CountOK'
  <2>1. \A q \in Reports : /\ report'[q].task = report[q].task /\ report'[q].act = report[q].act
                           /\ Taken(report[q])' <=> Taken(report[q])
    BY <1>1, <1>4, <1>5 DEF Taken
  <2>2. QED  BY <1>0, <2>1, CountKept
<1>7. x.task \in TaskIds /\ InForce(x) /\ cached # "unset"  BY <1>0, <1>1, <1>2 DEF WalkOK, Taken
<1>8. InForce(w)'
  <2>1. \A s : Over(w, s) /\ s # stage => Over(x, s)  BY <1>4 DEF Over
  <2>2. Over(w, stage) => ok  BY <1>4 DEF Over
  <2>3. box'[x.task].cg = box[x.task].cg /\ cached' = cached  BY <1>7 DEF Grows
  <2>4. InForce(x)'  BY <1>7, StillInForce
  <2>5. Over(w, "revoke") /\ cached' = "broker" => w.task \in shut'
    BY <1>1, <1>4, <2>1, <2>2, <2>3, <2>4 DEF InForce
  <2>6. Over(w, "pause") /\ box'[w.task].cg /\ "pause" \notin w.undone => box'[w.task].run \in {"frozen", "dead"}
    BY <1>1, <1>4, <2>1, <2>2, <2>3, <2>4 DEF InForce
  <2>7. Over(w, "terminate") /\ box'[w.task].cg => box'[w.task].run = "dead"
    BY <1>1, <1>4, <2>1, <2>2, <2>3, <2>4 DEF InForce
  <2>8. QED  BY <2>5, <2>6, <2>7 DEF InForce
<1>9. WalkOK'
  <2>1. SUFFICES ASSUME NEW q \in Reports
                 PROVE  /\ Taken(report'[q]) =>
                              cached' # "unset" /\ report'[q].task \in TaskIds /\ InForce(report[q])'
                        /\ report'[q].pc = "done" => report'[q].todo = <<>>
    BY DEF WalkOK
  <2>2. CASE q = r  BY <1>2, <1>4, <1>5, <1>7, <1>8, <2>2 DEF Grows
  <2>3. CASE q # r
    <3>1. PICK z \in Report : z = report[q]  BY <1>0 DEF ContainTypes
    <3>2. Taken(z) => z.task \in TaskIds /\ InForce(z)'  BY <1>0, <3>1, StillInForce DEF WalkOK
    <3>3. report'[q] = z  BY <1>5, <2>3, <3>1
    <3>4. QED  BY <1>0, <1>7, <3>1, <3>2, <3>3 DEF WalkOK, Grows
  <2>4. QED  BY <2>2, <2>3
<1>10. QED  BY <1>5, <1>6, <1>9

\* The hooks of a walk, one stage each.
LEMMA HookInv ==
    ASSUME ContainInv, NEW r \in Reports,
           \/ applyBlock(r) \/ applyPause(r) \/ applyPauseFails(r)
           \/ \E ok \in BOOLEAN : applyRevoke(r, ok) \/ applyPreserve(r, ok) \/ Terminate(r, ok)
    PROVE  ContainInv'
<1>0. ContainTypes /\ BrokerOK /\ WalkOK /\ CountOK  BY DEF ContainInv
<1>1. report[r].pc = "walk"
  BY DEF applyBlock, applyPause, applyPauseFails, applyRevoke, applyPreserve, Terminate, NextStage
<1>2. PICK t \in TaskIds : t = report[r].task  BY <1>0, <1>1 DEF WalkOK, Taken
<1>3. PICK b \in Box : b = box[t]  BY <1>0 DEF ContainTypes
\* A hook that leaves the broker alone and changes at most the guest of its task.
<1>4. ASSUME NEW stage, NEW ok \in BOOLEAN, NEW c \in Box, NextStage(r, stage), stage # "revoke",
             UNCHANGED <<proc, token, revoked, shut, file, handler, gone, narrowed, cached, handled>>,
             report' = [report EXCEPT ![r] = walked(report[r], ok)],
             box' = [box EXCEPT ![t] = c],
             c.cg = b.cg, b.run = "dead" => c.run = "dead",
             b.run = "frozen" => c.run \in {"frozen", "dead"},
             ok /\ stage = "pause" /\ b.cg => c.run \in {"frozen", "dead"},
             ok /\ stage = "terminate" /\ b.cg => c.run = "dead"
      PROVE  ContainInv'
  <2>1. box' \in [TaskIds -> Box] /\ box'[t] = c /\ \A u \in TaskIds : u # t => box'[u] = box[u]
    BY <1>0, <1>4 DEF ContainTypes
  <2>2. Grows  BY <1>3, <1>4, <2>1 DEF Grows
  <2>3. WalkOK' /\ CountOK' /\ report' \in [Reports -> Report]
    BY <1>2, <1>3, <1>4, <2>1, <2>2, WalkStep
  <2>4. ContainTypes'  BY <1>0, <1>4, <2>1, <2>3 DEF ContainTypes
  <2>5. BrokerOK'  BY <1>0, <1>4 DEF BrokerOK, Minted
  <2>6. QED  BY <2>3, <2>4, <2>5 DEF ContainInv
<1>5. [box EXCEPT ![t] = b] = box  BY <1>0, <1>3 DEF ContainTypes
<1>6. CASE applyBlock(r)
  <2>1. NextStage(r, "block") /\ report' = [report EXCEPT ![r] = walked(report[r], FALSE)] /\ box' = [box EXCEPT ![t] = b]
        /\ UNCHANGED <<proc, token, revoked, shut, file, handler, gone, narrowed, cached, handled>>
    BY <1>5, <1>6 DEF applyBlock, bvars
  <2>2. QED  BY <1>4, <2>1
<1>7. CASE applyPause(r)
  <2>1. PICK c : c = Froze(b)  OBVIOUS
  <2>2. NextStage(r, "pause") /\ report' = [report EXCEPT ![r] = walked(report[r], TRUE)] /\ box' = [box EXCEPT ![t] = c]
        /\ UNCHANGED <<proc, token, revoked, shut, file, handler, gone, narrowed, cached, handled>>
    BY <1>2, <1>3, <1>7, <2>1 DEF applyPause, bvars
  <2>3. /\ c \in Box /\ c.cg = b.cg /\ (b.run = "dead" => c.run = "dead")
        /\ b.run = "frozen" => c.run = "frozen"
        /\ b.cg => c.run \in {"frozen", "dead"}
    BY <2>1 DEF Froze, Box
  <2>4. QED  BY <1>4, <2>2, <2>3
<1>8. CASE applyPauseFails(r)
  <2>1. NextStage(r, "pause") /\ b.run # "dead"
        /\ UNCHANGED <<proc, token, revoked, shut, file, handler, gone, narrowed, cached, handled>>
    BY <1>2, <1>3, <1>8 DEF applyPauseFails, bvars
  <2>2. CASE box' = box /\ report' = [report EXCEPT ![r] = walked(report[r], FALSE)]
    BY <1>4, <1>5, <2>1, <2>2
  <2>3. CASE /\ box' = [box EXCEPT ![report[r].task].run = "frozen"]
             /\ report' = [report EXCEPT ![r] = walked(report[r], TRUE)]
    <3>1. PICK c : c = [b EXCEPT !.run = "frozen"]  OBVIOUS
    <3>2. c \in Box /\ c.cg = b.cg /\ c.run = "frozen"  BY <3>1 DEF Box
    <3>3. box' = [box EXCEPT ![t] = c]  BY <1>2, <1>3, <2>3, <3>1
    <3>4. QED  BY <1>4, <2>1, <2>3, <3>2, <3>3
  <2>4. QED  BY <1>8, <2>2, <2>3 DEF applyPauseFails
<1>9. ASSUME NEW ok \in BOOLEAN, applyPreserve(r, ok)  PROVE ContainInv'
  <2>1. NextStage(r, "preserve") /\ report' = [report EXCEPT ![r] = walked(report[r], ok)] /\ box' = [box EXCEPT ![t] = b]
        /\ UNCHANGED <<proc, token, revoked, shut, file, handler, gone, narrowed, cached, handled>>
    BY <1>5, <1>9 DEF applyPreserve, bvars
  <2>2. QED  BY <1>4, <2>1
<1>10. ASSUME NEW ok \in BOOLEAN, Terminate(r, ok)  PROVE ContainInv'
  <2>1. PICK c : c = IF ok THEN Killed(b) ELSE b  OBVIOUS
  <2>2. NextStage(r, "terminate") /\ report' = [report EXCEPT ![r] = walked(report[r], ok)] /\ box' = [box EXCEPT ![t] = c]
        /\ UNCHANGED <<proc, token, revoked, shut, file, handler, gone, narrowed, cached, handled>>
    BY <1>2, <1>3, <1>5, <1>10, <2>1 DEF Terminate, bvars
  <2>3. /\ c \in Box /\ c.cg = b.cg /\ (b.run = "dead" => c.run = "dead")
        /\ b.run = "frozen" => c.run \in {"frozen", "dead"}
        /\ ok /\ b.cg => c.run = "dead"
    BY <2>1 DEF Killed, Box
  <2>4. QED  BY <1>4, <2>2, <2>3
<1>11. ASSUME NEW ok \in BOOLEAN, applyRevoke(r, ok)  PROVE ContainInv'
  <2>1. /\ NextStage(r, "revoke") /\ report' = [report EXCEPT ![r] = walked(report[r], ok)]
        /\ UNCHANGED <<proc, token, handler, narrowed, cached, handled, box>>
    BY <1>11 DEF applyRevoke
  <2>2. CASE cached = "nil"
    <3>1. UNCHANGED <<revoked, shut, file, gone>>  BY <1>11, <2>2 DEF applyRevoke
    <3>2. Grows  BY <1>0, <2>1, <3>1, SameBox
    <3>3. WalkOK' /\ CountOK' /\ report' \in [Reports -> Report]  BY <2>1, <2>2, <3>2, WalkStep
    <3>4. ContainTypes' /\ BrokerOK'  BY <1>0, <2>1, <3>1, <3>3 DEF ContainTypes, BrokerOK, Minted
    <3>5. QED  BY <3>3, <3>4 DEF ContainInv
  <2>3. CASE cached # "nil"
    <3>1. proc = "up" /\ RevokeAllForTask(t, ok)  BY <1>2, <1>11, <2>3 DEF applyRevoke
    <3>2. shut' = shut \cup {t}  BY <3>1 DEF RevokeAllForTask
    <3>3. Grows  BY <1>0, <2>1, <3>2, SameBox
    <3>4. WalkOK' /\ CountOK' /\ report' \in [Reports -> Report]  BY <1>2, <2>1, <3>2, <3>3, WalkStep
    <3>5. BrokerOK' /\ gone' \in [ids: SUBSET Nat, tasks: SUBSET TaskIds]
      BY <1>0, <2>1, <3>1, RevokeAllBroker
    <3>6. ContainTypes'  BY <1>0, <2>1, <3>4, <3>5 DEF ContainTypes
    <3>7. QED  BY <3>4, <3>5, <3>6 DEF ContainInv
  <2>4. QED  BY <2>2, <2>3
<1>12. QED  BY <1>6, <1>7, <1>8, <1>9, <1>10, <1>11

\* The answer of a report whose walk is over.
LEMMA AnsweredInv == ASSUME ContainInv, NEW r \in Reports, Answered(r) PROVE ContainInv'
<1>0. ContainTypes /\ BrokerOK /\ WalkOK /\ CountOK  BY DEF ContainInv
<1>1. UNCHANGED <<proc, token, revoked, shut, file, handler, gone, narrowed, cached, handled, box>>
  BY DEF Answered, bvars
<1>2. PICK x \in Report : x = report[r]  BY <1>0 DEF ContainTypes
<1>3. PICK y : y = [x EXCEPT !.pc = "done"]  OBVIOUS
<1>4. y \in Report /\ y.pc = "done" /\ y.task = x.task /\ y.act = x.act /\ y.todo = x.todo
      /\ y.failed = x.failed /\ y.undone = x.undone
  BY <1>3 DEF Report
<1>5. x.pc = "walk" /\ x.todo = <<>> /\ report' = [report EXCEPT ![r] = y]  BY <1>2, <1>3 DEF Answered
<1>6. report' \in [Reports -> Report] /\ report'[r] = y /\ \A q \in Reports : q # r => report'[q] = report[q]
  BY <1>0, <1>4, <1>5 DEF ContainTypes
<1>7. ContainTypes' /\ BrokerOK'  BY <1>0, <1>1, <1>6 DEF ContainTypes, BrokerOK, Minted
<1>8. CountOK'
  <2>1. \A q \in Reports : /\ report'[q].task = report[q].task /\ report'[q].act = report[q].act
                           /\ Taken(report[q])' <=> Taken(report[q])
    BY <1>2, <1>4, <1>5, <1>6 DEF Taken
  <2>2. QED  BY <1>0, <1>1, <2>1, CountKept
<1>9. Grows  BY <1>0, <1>1, SameBox
<1>10. x.task \in TaskIds /\ InForce(x)' /\ cached # "unset"
  BY <1>0, <1>2, <1>5, <1>9, StillInForce DEF WalkOK, Taken
<1>11. InForce(y)'
  <2>1. \A s : Over(y, s) <=> Over(x, s)  BY <1>4 DEF Over, Ahead
  <2>2. QED  BY <1>4, <1>10, <2>1 DEF InForce
<1>12. WalkOK'
  <2>1. SUFFICES ASSUME NEW q \in Reports
                 PROVE  /\ Taken(report'[q]) =>
                              cached' # "unset" /\ report'[q].task \in TaskIds /\ InForce(report[q])'
                        /\ report'[q].pc = "done" => report'[q].todo = <<>>
    BY DEF WalkOK
  <2>2. CASE q = r  BY <1>1, <1>4, <1>5, <1>6, <1>10, <1>11, <2>2
  <2>3. CASE q # r
    <3>1. PICK z \in Report : z = report[q]  BY <1>0 DEF ContainTypes
    <3>2. Taken(z) => z.task \in TaskIds /\ InForce(z)'  BY <1>0, <1>9, <3>1, StillInForce DEF WalkOK
    <3>3. report'[q] = z  BY <1>6, <2>3, <3>1
    <3>4. QED  BY <1>0, <1>1, <3>1, <3>2, <3>3 DEF WalkOK
  <2>4. QED  BY <2>2, <2>3
<1>13. QED  BY <1>7, <1>8, <1>12 DEF ContainInv

\* A resume lifts the pause of every report on its task, and no other stage.
LEMMA ResumeInv == ASSUME ContainInv, NEW t \in TaskIds, ResumeTask(t) PROVE ContainInv'
<1>0. ContainTypes /\ BrokerOK /\ WalkOK /\ CountOK  BY DEF ContainInv
<1>1. UNCHANGED <<proc, token, revoked, shut, file, handler, gone, narrowed, cached, handled>>
  BY DEF ResumeTask, bvars
<1>2. PICK c : c = [[box[t] EXCEPT !.run = "running"] EXCEPT !.status = "Running"]  OBVIOUS
<1>3. box[t] \in Box /\ c \in Box /\ c.cg = box[t].cg /\ box[t].run = "frozen" /\ box' = [box EXCEPT ![t] = c]
  BY <1>0, <1>2 DEF ResumeTask, ContainTypes, Box
<1>4. box' \in [TaskIds -> Box] /\ box'[t] = c /\ \A u \in TaskIds : u # t => box'[u] = box[u]
  BY <1>0, <1>3 DEF ContainTypes
<1>5. ASSUME NEW q \in Reports
      PROVE  /\ report'[q] \in Report /\ report'[q].pc = report[q].pc /\ report'[q].task = report[q].task
             /\ report'[q].act = report[q].act /\ report'[q].todo = report[q].todo
             /\ report'[q].failed = report[q].failed
             /\ report[q].undone \subseteq report'[q].undone
             /\ report[q].task = t => "pause" \in report'[q].undone
  <2>1. PICK x \in Report : x = report[q]  BY <1>0 DEF ContainTypes
  <2>2. report'[q] = IF x.task = t THEN [x EXCEPT !.undone = @ \cup {"pause"}] ELSE x
    BY <2>1 DEF ResumeTask
  <2>3. CASE x.task = t
    <3>1. PICK u \in SUBSET StageName : u = x.undone \cup {"pause"}  BY DEF Report, StageName
    <3>2. report'[q] = [x EXCEPT !.undone = u]  BY <2>2, <2>3, <3>1
    <3>3. QED  BY <2>1, <3>1, <3>2 DEF Report
  <2>4. CASE x.task # t  BY <2>1, <2>2, <2>4
  <2>5. QED  BY <2>3, <2>4
<1>6. report' \in [Reports -> Report]  BY <1>5 DEF ResumeTask
<1>7. ContainTypes' /\ BrokerOK'  BY <1>0, <1>1, <1>4, <1>6 DEF ContainTypes, BrokerOK, Minted
<1>8. CountOK'
  <2>1. \A q \in Reports : /\ report'[q].task = report[q].task /\ report'[q].act = report[q].act
                           /\ Taken(report[q])' <=> Taken(report[q])
    BY <1>5 DEF Taken
  <2>2. QED  BY <1>0, <1>1, <2>1, CountKept
<1>9. WalkOK'
  <2>1. SUFFICES ASSUME NEW q \in Reports
                 PROVE  /\ Taken(report'[q]) =>
                              cached' # "unset" /\ report'[q].task \in TaskIds /\ InForce(report[q])'
                        /\ report'[q].pc = "done" => report'[q].todo = <<>>
    BY DEF WalkOK
  <2>2. PICK x, y : x = report[q] /\ y = report'[q]  OBVIOUS
  <2>3. y.pc = x.pc /\ y.task = x.task /\ y.todo = x.todo /\ (x.pc = "done" => x.todo = <<>>)
        /\ x.undone \subseteq y.undone /\ (x.task = t => "pause" \in y.undone)
    BY <1>0, <1>5, <2>2 DEF WalkOK
  <2>4. \A s : Over(y, s) <=> Over(x, s)  BY <1>5, <2>2 DEF Over, Ahead
  <2>5. Taken(y) => cached # "unset" /\ x.task \in TaskIds /\ InForce(x)
    BY <1>0, <2>2, <2>3 DEF WalkOK, Taken
  <2>6. Taken(y) => InForce(y)'
    <3>1. SUFFICES ASSUME Taken(y)  PROVE InForce(y)'  OBVIOUS
    <3>2. y.task \in TaskIds /\ InForce(x)  BY <2>3, <2>5, <3>1
    <3>3. box'[y.task].cg = box[y.task].cg /\ (y.task # t => box'[y.task] = box[y.task])
      BY <1>3, <1>4, <3>2
    <3>4. Over(y, "revoke") /\ cached' = "broker" => y.task \in shut'  BY <1>1, <2>3, <2>4, <3>2 DEF InForce
    <3>5. Over(y, "pause") /\ box'[y.task].cg /\ "pause" \notin y.undone =>
             box'[y.task].run \in {"frozen", "dead"}
      BY <2>3, <2>4, <3>2, <3>3 DEF InForce
    <3>6. Over(y, "terminate") /\ box'[y.task].cg => box'[y.task].run = "dead"
      BY <1>3, <2>3, <2>4, <3>2, <3>3 DEF InForce
    <3>7. QED  BY <3>4, <3>5, <3>6 DEF InForce
  <2>7. InForce(report[q])' <=> InForce(y)'  BY <2>2 DEF InForce
  <2>8. QED  BY <1>1, <2>2, <2>3, <2>5, <2>6, <2>7
<1>10. QED  BY <1>7, <1>8, <1>9 DEF ContainInv

LEMMA ExitInv == ASSUME ContainInv, NEW t \in TaskIds, Exit(t) PROVE ContainInv'
<1>0. ContainTypes /\ BrokerOK /\ WalkOK /\ CountOK  BY DEF ContainInv
<1>1. UNCHANGED <<proc, token, revoked, shut, file, handler, gone, narrowed, cached, handled, report>>
  BY DEF Exit, bvars
<1>2. box[t] \in Box /\ box' = [box EXCEPT ![t].run = "dead"] /\ box[t].run = "running"
  BY <1>0 DEF Exit, ContainTypes
<1>3. Grows  BY <1>0, <1>1, <1>2 DEF Grows, ContainTypes, Box
<1>4. WalkOK' /\ CountOK'  BY <1>0, <1>1, <1>3, ReportsKept
<1>5. ContainTypes' /\ BrokerOK'  BY <1>0, <1>1, <1>3 DEF ContainTypes, BrokerOK, Minted, Grows
<1>6. QED  BY <1>4, <1>5 DEF ContainInv

-----------------------------------------------------------------------------
(* The theorems. *)

LEMMA InitInv == ASSUME ContainInit PROVE ContainInv
<1>1. NoReport \in Report /\ NoReport.pc = "idle"
  <2>1. <<>> \in Seq(StageName)  BY EmptySeq
  <2>2. QED  BY <2>1 DEF NoReport, Report
<1>2. \A r \in Reports : report[r] = NoReport  BY DEF ContainInit
<1>3. ContainTypes
  <2>1. report \in [Reports -> Report]  BY <1>1 DEF ContainInit
  <2>2. handler \in [Handlers -> [pc: {"idle", "mint", "revoke"}, id: Nat]]  BY DEF ContainInit, Rest
  <2>3. box \in [TaskIds -> Box]  BY DEF ContainInit, Box
  <2>4. token \in Seq(Token)  BY EmptySeq DEF ContainInit
  <2>5. handled \in [TaskIds -> Nat] /\ gone \in [ids: SUBSET Nat, tasks: SUBSET TaskIds]  BY DEF ContainInit
  <2>6. QED  BY <2>1, <2>2, <2>3, <2>4, <2>5 DEF ContainInit, ContainTypes
<1>4. BrokerOK  BY DEF ContainInit, BrokerOK, Rest
<1>5. WalkOK  BY <1>1, <1>2 DEF WalkOK, Taken
<1>6. CountOK
  <2>1. \A t \in TaskIds : Mildly(t) = {}  BY <1>1, <1>2 DEF Mildly
  <2>2. \A t \in TaskIds : handled[t] = 0  BY DEF ContainInit
  <2>3. QED  BY <2>1, <2>2, FS_EmptySet DEF CountOK
<1>7. QED  BY <1>3, <1>4, <1>5, <1>6 DEF ContainInv

LEMMA NextInv == ASSUME ContainInv, [ContainNext]_containVars PROVE ContainInv'
<1>1. CASE UNCHANGED containVars
  <2>1. UNCHANGED <<proc, token, revoked, shut, file, handler, gone, narrowed, cached, handled, report, box>>
    BY <1>1 DEF containVars, bvars, ivars
  <2>2. ContainTypes' /\ BrokerOK'  BY <2>1 DEF ContainInv, ContainTypes, BrokerOK, Minted
  <2>3. WalkOK' /\ CountOK'  BY <2>1, SameBox, ReportsKept DEF ContainInv
  <2>4. QED  BY <2>2, <2>3 DEF ContainInv
<1>2. CASE ContainNext
  <2>1. CASE CreateKey \/ WriteKey \/ Load \/ LoadFails \/ currentIncident  BY <2>1, ProcessInv
  <2>2. CASE Crash  BY <2>2, CrashInv
  <2>3. CASE \E t \in TaskIds : PostToken(t) \/ \E ok \in BOOLEAN : RevokeAll(t, ok)  BY <2>3, BrokerInv
  <2>4. CASE \E h \in Handlers :
                 \/ RefreshMint(h)
                 \/ \E ok \in BOOLEAN : RevokeOne(h, ok)
                 \/ \E id \in Minted : RefreshCheck(h, id) \/ \E t \in TaskIds : RevokeCheck(h, t, id)
    BY <2>4, BrokerInv
  <2>5. CASE \E id \in Minted : Expire(id) \/ Forget(id)  BY <2>5, BrokerInv
  <2>6. CASE \E t \in TaskIds : \/ ResumeTask(t) \/ Exit(t)
                              \/ \E r \in Reports, sev \in Severities : Handle(r, t, sev)
    BY <2>6, ResumeInv, ExitInv, HandleInv
  <2>7. CASE \E r \in Reports :
                 \/ applyBlock(r) \/ applyPause(r) \/ applyPauseFails(r) \/ Answered(r)
                 \/ \E ok \in BOOLEAN : applyRevoke(r, ok) \/ applyPreserve(r, ok) \/ Terminate(r, ok)
    BY <2>7, HookInv, AnsweredInv
  <2>8. QED  BY <1>2, <2>1, <2>2, <2>3, <2>4, <2>5, <2>6, <2>7 DEF ContainNext
<1>3. QED  BY <1>1, <1>2

\* A token or a task whose revocation the broker reported as done never
\* validates again, through rotations in flight, mints, failed writes and
\* restarts, unless a start lost the revocation file (Broker.Revoke,
\* RevokeAllForTask, PersistRevocations).
THEOREM RevocationHolds == ContainSpec => []RevokedStaysRevoked
<1>1. ContainInit => ContainInv  BY InitInv
<1>2. ContainInv /\ [ContainNext]_containVars => ContainInv'  BY NextInv
<1>3. ContainInv => RevokedStaysRevoked  BY DEF ContainInv, BrokerOK, RevokedStaysRevoked, Validates
<1>4. QED  BY <1>1, <1>2, <1>3, PTL DEF ContainSpec

\* Of an answered report every stage that is not reported as failed is in
\* force, whichever hooks failed before it (Controller.Handle, recordFailure).
THEOREM ContainmentHolds == ContainSpec => []ContainmentComplete
<1>1. ContainInit => ContainInv  BY InitInv
<1>2. ContainInv /\ [ContainNext]_containVars => ContainInv'  BY NextInv
<1>3. ContainInv => ContainmentComplete
  <2>1. SUFFICES ASSUME ContainInv, NEW r \in Reports, report[r].pc = "done"
                 PROVE  LET t == report[r].task
                        IN  /\ Stage(r, "revoke") /\ cached = "broker" /\ proc = "up" =>
                                  \A id \in Minted : token[id].task = t => ~Validates(id)
                            /\ Stage(r, "pause") /\ box[t].cg /\ "pause" \notin report[r].undone =>
                                  box[t].run \in {"frozen", "dead"}
                            /\ Stage(r, "terminate") /\ box[t].cg => box[t].run = "dead"
    BY DEF ContainmentComplete
  <2>2. InForce(report[r]) /\ report[r].todo = <<>>  BY <2>1 DEF ContainInv, WalkOK, Taken
  <2>3. Ahead(report[r]) = {}  BY <2>2 DEF Ahead
  <2>4. \A s : Stage(r, s) => Over(report[r], s)  BY <2>3 DEF Stage, Over
  <2>5. QED  BY <2>2, <2>4 DEF InForce, Validates
<1>4. QED  BY <1>1, <1>2, <1>3, PTL DEF ContainSpec

\* However many reports on a task are handled at the same time, at most two of
\* those one process takes are answered with less than quarantine
\* (Controller.Handle counts and reads under one lock).
THEOREM ThirdEscalates == ContainSpec => []EscalatesOnThird
<1>1. ContainInit => ContainInv  BY InitInv
<1>2. ContainInv /\ [ContainNext]_containVars => ContainInv'  BY NextInv
<1>3. ContainInv => EscalatesOnThird  BY DEF ContainInv, CountOK, Mildly, EscalatesOnThird
<1>4. QED  BY <1>1, <1>2, <1>3, PTL DEF ContainSpec
=============================================================================
