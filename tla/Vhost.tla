------------------------------- MODULE Vhost -------------------------------
(***************************************************************************)
(* The vhost-user block server (internal/vhost, internal/vhost/vu): the    *)
(* listener that serves one frontend at a time, the control channel of a   *)
(* session, its split virtqueue and the pump that drains it.               *)
(*                                                                         *)
(* session.mu makes a message handler, a pop phase and a publish phase     *)
(* atomic; the device IO between them runs without it.  The guest and its  *)
(* frontend are the environment: they post and kick, set the queue up in   *)
(* protocol order, may reset it at any time, and may vanish.               *)
(***************************************************************************)
EXTENDS Naturals, Sequences, FiniteSets, SequencesExt

CONSTANTS Num,          \* queue size
          IdxMod,       \* 2^16: the ring indices wrap here
          pumpMaxBatch, \* requests one pop phase takes at most
          Limits,       \* bounds: [sessions, posts, odd, resets] to run under
          Kinds         \* of requests: see process

ASSUME VhostAssumption == /\ Num \in Nat \ {0} /\ IdxMod \in Nat /\ IdxMod > Num
                          /\ IdxMod % Num = 0 /\ pumpMaxBatch \in Nat \ {0}
                          /\ Kinds \subseteq {"out", "far", "short", "bad"}
                          /\ \A l \in Limits : l.sessions \in Nat

VARIABLES lim,      \* the bounds of this behaviour: frontends, requests, requests
                    \* other than plain writes, queues set up again
          server,   \* the listener and who it serves
          g,        \* per session: the rings and the guest's view of them
          d,        \* per session: the session as the server keeps it
          written,  \* the writes the backend has applied
          twice,    \* the sessions with a write that was applied more than once
          fault     \* the server touched memory it had unmapped

vhostVars == <<lim, server, g, d, written, twice, fault>>

Sessions == UNION {1 .. l.sessions : l \in Limits}
Slots == 0 .. Num - 1
NoReq == [id |-> 0, kind |-> "bad"]

NewGuest == [up |-> FALSE, next |-> "mem", setups |-> 0, desc |-> [h \in Slots |-> NoReq],
             avail |-> [i \in Slots |-> 0], availIdx |-> 0, kicked |-> TRUE,
             used |-> [i \in Slots |-> <<0, "none">>], usedIdx |-> 0, seen |-> 0,
             inflight |-> {}, posts |-> 0, odd |-> 0]

newSession == [msg |-> "none", run |-> "loop", closed |-> FALSE, closer |-> "none", torn |-> FALSE,
               mem |-> 0, ring |-> 0, lastAvail |-> 0, usedIdx |-> 0, kick |-> 0, pending |-> {},
               enabled |-> FALSE, pump |-> "off", pumpKick |-> 0, batch |-> <<>>, sg |-> 0]

VhostInit == /\ lim \in Limits
             /\ server = [state |-> "serving", accept |-> "accept", cur |-> 0]
             /\ g = [s \in Sessions |-> NewGuest]
             /\ d = [s \in Sessions |-> newSession]
             /\ written = {} /\ twice = {}
             /\ fault = FALSE

Posts == FoldSet(LAMBDA s, n : n + g[s].posts, 0, Sessions)
Odd == FoldSet(LAMBDA s, n : n + g[s].odd, 0, Sessions)
Resets == FoldSet(LAMBDA s, n : n + (IF g[s].setups > 1 THEN g[s].setups - 1 ELSE 0), 0, Sessions)

PumpGone(s) == d[s].pump \in {"off", "done"}
PumpBusy(s) == d[s].pump \in {"io", "publish"}

---------------------------------------------------------------------------

(* session.close, up to its wait for the pump: the first caller marks the  *)
(* session, closes the channel and signals the kick it finds.              *)
BeginClose(s, who) ==
    IF d[s].closed THEN d[s]
    ELSE [d[s] EXCEPT !.closed = TRUE, !.closer = who,
                      !.pending = IF d[s].kick = 0 THEN @ ELSE @ \cup {d[s].kick}]

(* The first caller unmaps and closes the descriptors once the pump is     *)
(* gone; a later caller only waits for the pump.  Nobody looks at the      *)
(* queue of that session again: its fields go back to their first values.  *)
Teardown(s) ==
    /\ d[s].closed /\ ~d[s].torn /\ PumpGone(s)
    /\ d' = [d EXCEPT ![s] = [newSession EXCEPT !.closed = TRUE, !.torn = TRUE, !.msg = d[s].msg,
                                                !.run = d[s].run, !.closer = d[s].closer,
                                                !.pump = "done"]]
    /\ g' = [g EXCEPT ![s] = [NewGuest EXCEPT !.up = g[s].up, !.setups = g[s].setups,
                                              !.posts = g[s].posts, !.odd = g[s].odd]]
    /\ UNCHANGED <<server, written, twice, fault>>

closeReturned(s, who) == /\ d[s].closed /\ PumpGone(s)
                         /\ d[s].closer = who => d[s].torn

---------------------------------------------------------------------------
(* The listener. *)
Serving(s) == [server EXCEPT !.cur = s, !.accept = "accept"]

(* acceptLoop closes the session of the previous frontend, holding the     *)
(* server's lock, before it makes the new one.                             *)
Accept ==
    /\ server.state = "serving" /\ server.accept = "accept" /\ server.cur < lim.sessions
    /\ IF server.cur = 0
       THEN /\ server' = Serving(1)
            /\ g' = [g EXCEPT ![1].up = TRUE]
            /\ UNCHANGED d
       ELSE /\ server' = [server EXCEPT !.accept = "closing"]
            /\ d' = [d EXCEPT ![server.cur] = BeginClose(server.cur, "server")]
            /\ UNCHANGED g
    /\ UNCHANGED <<written, twice, fault>>

Replace ==
    /\ server.accept = "closing" /\ closeReturned(server.cur, "server")
    /\ server' = Serving(server.cur + 1)
    /\ g' = [g EXCEPT ![server.cur + 1].up = TRUE]
    /\ UNCHANGED <<d, written, twice, fault>>

(* Server.Close takes the server's lock, so it waits for acceptLoop. *)
Close ==
    /\ server.state = "serving" /\ server.accept = "accept"
    /\ server' = [server EXCEPT !.state = "closing"]
    /\ d' = IF server.cur = 0 THEN d
            ELSE [d EXCEPT ![server.cur] = BeginClose(server.cur, "server")]
    /\ UNCHANGED <<g, written, twice, fault>>

(* It returns when acceptLoop and every session's run have ended, and then *)
(* goBackend.Close closes the image.                                       *)
CloseDone ==
    /\ server.state = "closing"
    /\ \A s \in 1 .. server.cur : /\ d[s].run = "ended" /\ closeReturned(s, "run")
                                  /\ s = server.cur => closeReturned(s, "server")
    /\ server' = [server EXCEPT !.state = "closed"]
    /\ UNCHANGED <<g, d, written, twice, fault>>

---------------------------------------------------------------------------
(* The environment: a frontend and its guest. *)
(* The queue starts when both SET_VRING_KICK and SET_VRING_ENABLE are in,  *)
(* in either order.  A driver may reset its queue, with requests in flight *)
(* or not, and set up another in fresh memory.                             *)
Messages(s) == CASE g[s].next = "kick+" -> {"kick"} [] g[s].next = "enable+" -> {"enable"}
                 [] g[s].next = "start" -> {"kick", "enable"}
                 [] g[s].next = "ready" -> IF Resets < lim.resets THEN {"disable"} ELSE {}
                 [] OTHER -> {g[s].next}
Then(s, m) == CASE g[s].next = "start" -> IF m = "kick" THEN "enable+" ELSE "kick+"
                [] m = "mem" -> "base" [] m = "base" -> "addr" [] m = "addr" -> "start"
                [] m = "disable" -> "getbase" [] m = "getbase" -> "mem" [] OTHER -> "ready"

(* The frontend sends a message, whose answer it waits for, and run has    *)
(* read it.  Setting the queue up begins with empty rings.                 *)
Send(s, m) ==
    /\ g[s].up /\ d[s].msg = "none" /\ d[s].run = "loop" /\ ~d[s].closed
    /\ m \in Messages(s)
    /\ d' = [d EXCEPT ![s].msg = m]
    /\ g' = IF m = "mem"
            THEN [g EXCEPT ![s] = [NewGuest EXCEPT !.up = TRUE, !.next = Then(s, m),
                                                   !.setups = g[s].setups + 1, !.posts = g[s].posts,
                                                   !.odd = g[s].odd]]
            ELSE [g EXCEPT ![s].next = Then(s, m)]
    /\ UNCHANGED <<server, written, twice, fault>>

Ready(s) == g[s].up /\ ~d[s].torn /\ g[s].next = "ready" /\ d[s].msg = "none"

(* A driver takes its descriptors from a free list: any order will do. *)
Post(s, h, k) ==
    /\ Ready(s) /\ Posts < lim.posts
    /\ h \notin g[s].inflight /\ \A i \in Slots \ g[s].inflight : h <= i
    /\ k # "out" => Odd < lim.odd
    /\ g' = [g EXCEPT ![s].desc[h] = [id |-> g[s].posts + 1, kind |-> k],
                      ![s].avail[g[s].availIdx % Num] = h,
                      ![s].availIdx = (@ + 1) % IdxMod, ![s].kicked = FALSE,
                      ![s].inflight = @ \cup {h}, ![s].posts = @ + 1,
                      ![s].odd = IF k = "out" THEN @ ELSE @ + 1]
    /\ UNCHANGED <<server, d, written, twice, fault>>

Kick(s) ==
    /\ Ready(s) /\ ~g[s].kicked
    /\ g' = [g EXCEPT ![s].kicked = TRUE]
    /\ d' = [d EXCEPT ![s].pending = @ \cup {g[s].setups}]
    /\ UNCHANGED <<server, written, twice, fault>>

Answer(s) == g[s].used[g[s].seen % Num]

Reap(s) ==
    /\ Ready(s) /\ g[s].seen # g[s].usedIdx
    /\ g' = [g EXCEPT ![s].seen = (@ + 1) % IdxMod, ![s].inflight = @ \ {Answer(s)[1]}]
    /\ UNCHANGED <<server, d, written, twice, fault>>

(* The guest is rebooted or dies: its end of the channel closes. *)
Leave(s) ==
    /\ g[s].up
    /\ g' = [g EXCEPT ![s].up = FALSE]
    /\ UNCHANGED <<server, d, written, twice, fault>>

---------------------------------------------------------------------------
(* The control loop. *)

(* Once per session, when the queue is enabled and its kick is known. *)
maybeStartPump(v) ==
    IF v.closed \/ ~v.enabled \/ v.kick = 0 \/ v.pump # "off" THEN v
    ELSE [v EXCEPT !.pump = "top"]

(* Mutant: SET_MEM_TABLE does not wait for a batch in its IO. *)
waitPumpIdleLocked_Skips(s) == TRUE

waitPumpIdleLocked(s) == ~PumpBusy(s)

(* SET_MEM_TABLE unmaps the old table and maps the new one. *)
setMemTable(s) == d' = [d EXCEPT ![s].mem = g[s].setups, ![s].msg = "none"]

(* A table that cannot be mapped ends the session. *)
setMemTableFails(s) ==
    d' = [d EXCEPT ![s] = [BeginClose(s, "run") EXCEPT !.mem = 0, !.msg = "none", !.run = "ended"]]

(* SET_VRING_ADDR translates the rings through the current table. *)
setup(s) == d[s].mem

(* A new kick descriptor replaces, and closes, the old one. *)
setVringFile(s) == maybeStartPump([d[s] EXCEPT !.kick = g[s].setups, !.msg = "none"])

(* handle, on the message run has read.  Disabling the queue and asking    *)
(* for its base leave the pump as it is.                                   *)
handle(s) ==
    /\ d[s].msg # "none"
    /\ CASE d[s].msg = "mem" -> /\ waitPumpIdleLocked(s)
                                /\ setMemTable(s) \/ setMemTableFails(s)
         [] d[s].msg = "base" -> d' = [d EXCEPT ![s].lastAvail = 0, ![s].msg = "none"]
         [] d[s].msg = "addr" -> d' = [d EXCEPT ![s].ring = setup(s), ![s].msg = "none"]
         [] d[s].msg = "kick" -> d' = [d EXCEPT ![s] = setVringFile(s)]
         [] d[s].msg = "enable" -> d' = [d EXCEPT ![s] = maybeStartPump(
                                    [d[s] EXCEPT !.enabled = TRUE, !.msg = "none"])]
         [] d[s].msg = "disable" -> d' = [d EXCEPT ![s].enabled = FALSE, ![s].msg = "none"]
         [] OTHER -> d' = [d EXCEPT ![s].msg = "none"]
    /\ UNCHANGED <<server, g, written, twice, fault>>

(* recv fails: the peer is gone or the channel was closed. *)
RunEnds(s) ==
    /\ s <= server.cur /\ d[s].run = "loop" /\ d[s].msg = "none"
    /\ ~g[s].up \/ d[s].closed
    /\ d' = [d EXCEPT ![s] = [BeginClose(s, "run") EXCEPT !.run = "ended"]]
    /\ UNCHANGED <<server, g, written, twice, fault>>

---------------------------------------------------------------------------
(* The pump. *)
PumpTop(s) ==
    /\ d[s].pump = "top"
    /\ d' = IF d[s].closed \/ d[s].kick = 0 THEN [d EXCEPT ![s].pump = "done"]
            ELSE [d EXCEPT ![s].pump = "wait", ![s].pumpKick = d[s].kick]
    /\ UNCHANGED <<server, g, written, twice, fault>>

(* The counter of the eventfd is drained by the read that sees it. *)
PumpWake(s) ==
    /\ d[s].pump = "wait" /\ d[s].pumpKick \in d[s].pending
    /\ d' = [d EXCEPT ![s].pump = "drain", ![s].pending = @ \ {d[s].pumpKick}]
    /\ UNCHANGED <<server, g, written, twice, fault>>

(* A read that starts after its descriptor was replaced fails; one that    *)
(* had started stays blocked.                                              *)
PumpWaitFails(s) ==
    /\ d[s].pump = "wait" /\ d[s].pumpKick # d[s].kick
    /\ d' = [d EXCEPT ![s].pump = "done"]
    /\ UNCHANGED <<server, g, written, twice, fault>>

(* The rings of a queue that was given up stay as they were drained. *)
Current(s) == d[s].ring = g[s].setups

(* Mutant: an index that has wrapped counts as already taken. *)
Waiting_NoWrap(s) == IF ~Current(s) \/ g[s].availIdx <= d[s].lastAvail THEN 0 ELSE g[s].availIdx - d[s].lastAvail

Waiting(s) == IF ~Current(s) THEN 0 ELSE (g[s].availIdx + IdxMod - d[s].lastAvail) % IdxMod
Available(s) == [i \in 1 .. Min({Waiting(s), pumpMaxBatch}) |->
                    g[s].avail[(d[s].lastAvail + i - 1) % Num]]

(* pop counts a chain it then refuses; that ends the batch. *)
Popped(s) == LET a == Available(s)
                 bad == {i \in DOMAIN a : g[s].desc[a[i]].kind = "bad"}
             IN  IF bad = {} THEN [batch |-> a, count |-> Len(a)]
                 ELSE LET i == CHOOSE i \in bad : \A j \in bad : i <= j
                      IN  [batch |-> SubSeq(a, 1, i - 1), count |-> i]

Advanced(v, n) == (v.lastAvail + n) % IdxMod

popBatch(s) ==
    /\ d[s].pump = "drain"
    /\ IF d[s].closed \/ d[s].ring = 0
       THEN d' = [d EXCEPT ![s].pump = "top"] /\ UNCHANGED fault
       ELSE LET p == Popped(s) IN
            /\ fault' = (d[s].ring # d[s].mem)
            /\ d' = [d EXCEPT ![s].batch = p.batch, ![s].sg = d[s].mem, ![s].lastAvail = Advanced(d[s], p.count),
                              ![s].pump = IF p.batch = <<>> THEN "top" ELSE "io"]
    /\ UNCHANGED <<server, g, written, twice>>

(* process answers every request it can parse; "far" stands for those it   *)
(* answers with an error: outside the disk, refused or failed.             *)
process(s, h) == LET k == g[s].desc[h].kind IN
                 CASE k = "out" -> "ok" [] k = "short" -> "unanswered" [] OTHER -> "ioerr"

(* Phase 2, without the lock: the slices of the batch point into the table *)
(* that was current when it was popped.                                    *)
runBatch(s) ==
    /\ d[s].pump = "io"
    /\ LET outs == {<<s, g[s].desc[h].id>> : h \in {h \in Range(d[s].batch) : process(s, h) = "ok"}}
       IN  /\ written' = written \cup outs
           /\ twice' = IF outs \cap written = {} /\ IsInjective(d[s].batch) THEN twice ELSE twice \cup {s}
    /\ fault' = (d[s].sg # d[s].mem)
    /\ d' = [d EXCEPT ![s].pump = "publish"]
    /\ UNCHANGED <<server, g>>

(* The requests of the batch that were answered, in their order. *)
Answered(s) == {i \in DOMAIN d[s].batch : process(s, d[s].batch[i]) # "unanswered"}
Results(s) ==
    [n \in 1 .. Cardinality(Answered(s)) |->
        LET i == CHOOSE i \in Answered(s) : Cardinality({j \in Answered(s) : j <= i}) = n
        IN  <<d[s].batch[i], process(s, d[s].batch[i])>>]

(* Mutant: the entry goes into the slot after its own. *)
push_Slot(s, r) ==
    LET n == d[s].usedIdx
        at(slot) == {i \in DOMAIN r : (n + i) % Num = slot}
    IN  [g EXCEPT ![s].used = [slot \in Slots |-> IF at(slot) = {} THEN @[slot]
                                                  ELSE r[CHOOSE i \in at(slot) : TRUE]],
                  ![s].usedIdx = (n + Len(r)) % IdxMod]

(* push writes the entry before it moves the index. *)
push(s, r) ==
    LET n == d[s].usedIdx
        at(slot) == {i \in DOMAIN r : (n + i - 1) % Num = slot}
    IN  [g EXCEPT ![s].used = [slot \in Slots |-> IF at(slot) = {} THEN @[slot]
                                                  ELSE r[CHOOSE i \in at(slot) : TRUE]],
                  ![s].usedIdx = (n + Len(r)) % IdxMod]

(* A full batch may have left requests; otherwise the queue was drained. *)
NextPump(s) == IF Len(d[s].batch) < pumpMaxBatch THEN "top" ELSE "drain"

(* Phase 3: the answers are published unless the session was closed. *)
publish(s) ==
    /\ d[s].pump = "publish"
    /\ IF d[s].closed
       THEN /\ d' = [d EXCEPT ![s].pump = "done", ![s].batch = <<>>]
            /\ UNCHANGED <<g, fault>>
       ELSE LET r == Results(s) IN
            /\ g' = IF Current(s) THEN push(s, r) ELSE g
            /\ fault' = (d[s].ring # d[s].mem)
            /\ d' = [d EXCEPT ![s].usedIdx = (@ + Len(r)) % IdxMod, ![s].batch = <<>>,
                              ![s].pump = NextPump(s)]
    /\ UNCHANGED <<server, written, twice>>

---------------------------------------------------------------------------
Pump(s) == PumpTop(s) \/ PumpWake(s) \/ popBatch(s) \/ runBatch(s) \/ publish(s)

Guest(s) == \/ \E h \in Slots, k \in Kinds : Post(s, h, k)
            \/ Kick(s) \/ Reap(s) \/ Leave(s)
            \/ \E m \in {"mem", "base", "addr", "kick", "enable", "disable", "getbase"} : Send(s, m)

VhostNext == /\ ~fault /\ UNCHANGED lim
             /\ \/ Accept \/ Replace \/ Close \/ CloseDone
                \/ \E s \in Sessions : \/ Guest(s) \/ handle(s) \/ RunEnds(s) \/ Teardown(s)
                                       \/ Pump(s) \/ PumpWaitFails(s)

VhostSpec == VhostInit /\ [][VhostNext]_vhostVars

Step(A) == ~fault /\ UNCHANGED lim /\ A

(* The server's threads run; a guest that has posted kicks. *)
FairSpec == /\ VhostSpec
            /\ \A s \in Sessions :
                 /\ WF_vhostVars(Step(Pump(s))) /\ WF_vhostVars(Step(handle(s)))
                 /\ WF_vhostVars(Step(RunEnds(s))) /\ WF_vhostVars(Step(Teardown(s)))
                 /\ WF_vhostVars(Step(Kick(s)))

---------------------------------------------------------------------------
VhostTypeOK ==
    /\ server.state \in {"serving", "closing", "closed"}
    /\ server.accept \in {"accept", "closing"} /\ server.cur \in 0 .. lim.sessions
    /\ \A s \in Sessions :
         /\ d[s].pump \in {"off", "top", "wait", "drain", "io", "publish", "done"}
         /\ d[s].lastAvail \in 0 .. IdxMod - 1 /\ d[s].usedIdx \in 0 .. IdxMod - 1
         /\ d[s].mem \in Nat /\ d[s].ring \in Nat /\ d[s].kick \in Nat /\ d[s].pending \subseteq Nat
         /\ d[s].batch \in BoundedSeq(Slots, pumpMaxBatch)
         /\ g[s].inflight \subseteq Slots

(* One writer: however frontends replace each other, are replaced, time    *)
(* out or vanish, at most one pump is alive, only the current session's,   *)
(* and none is once the image is closed (server.go:98-100, goBackend.Close *)
(* in backend.go:91).                                                      *)
OnePump ==
    \A s \in Sessions : ~PumpGone(s) => /\ server.cur = s
                                        /\ server.state # "closed"

(* A batch in its IO points into memory that stays mapped until it is      *)
(* published, whatever the control channel and close do meanwhile          *)
(* (SET_MEM_TABLE waits in waitPumpIdleLocked, close waits for the pump).  *)
BatchMapped == \A s \in Sessions : PumpBusy(s) => d[s].sg = d[s].mem

(* The rings too, as long as the frontend sets the queue up once.          *)
RingMapped == fault => \E s \in Sessions : g[s].setups > 1

(* The memory rules together, with the type invariant. *)
MemorySafe == VhostTypeOK /\ OnePump /\ BatchMapped /\ RingMapped

Unseen(s) == {i \in 0 .. IdxMod - 1 : (i + IdxMod - g[s].seen) % IdxMod
                                       < (g[s].usedIdx + IdxMod - g[s].seen) % IdxMod}

(* In a queue that is set up once, no write is applied twice, and every    *)
(* answer the guest has not yet read is for a request of its own that is   *)
(* in flight, at most one for each, and says "ok" exactly if its write was *)
(* applied (vring.pop and push across the wrap of the indices).            *)
AnsweredOnce ==
    \A s \in Sessions : g[s].setups <= 1 =>
         /\ s \notin twice
         /\ \A i \in Unseen(s) :
              LET a == g[s].used[i % Num] IN
              /\ a[1] \in g[s].inflight
              /\ a[2] = "ok" <=> <<s, g[s].desc[a[1]].id>> \in written
         /\ \A i, j \in Unseen(s) : g[s].used[i % Num][1] = g[s].used[j % Num][1] => i = j

(* No kick is lost: a guest whose requests are well formed, and that does  *)
(* not reset its queue, has each of them answered unless the session ends. *)
EveryRequestAnswered ==
    \A s \in Sessions, h \in Slots :
       (h \in g[s].inflight /\ g[s].setups = 1
          /\ \A k \in g[s].inflight : g[s].desc[k].kind \notin {"bad", "short"})
       ~> (\/ h \notin g[s].inflight \/ \E i \in Unseen(s) : g[s].used[i % Num][1] = h
           \/ ~g[s].up \/ d[s].closed \/ g[s].next # "ready"
           \/ \E k \in g[s].inflight : g[s].desc[k].kind \in {"bad", "short"})

(* A session that is closed is torn down: the pump is woken and leaves     *)
(* wherever it was (session.close, server.go:151-158), unless its kick     *)
(* descriptor was replaced.                                                *)
CloseEnds == \A s \in Sessions :
    (d[s].closed /\ g[s].setups <= 1) ~> (d[s].torn \/ g[s].setups > 1 \/ fault)

(* The comment on session.close without that exception: "it stops the      *)
(* control channel, wakes and waits for the pump goroutine" (server.go:    *)
(* 141).                                                                   *)
CloseAlwaysEnds == \A s \in Sessions : d[s].closed ~> (d[s].torn \/ fault)

(* A well-behaved guest is served until its session ends, and an ending    *)
(* session ends (vring kicks, pumpLoop, session.close).                    *)
Served == EveryRequestAnswered /\ CloseEnds
=============================================================================
