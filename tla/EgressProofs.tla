---------------------------- MODULE EgressProofs ----------------------------
(***************************************************************************)
(* Theorems about Egress, for any number of flows, names, addresses,       *)
(* policies, operations, learners and workers.                             *)
(*                                                                         *)
(* The invariant of the gateway: a flow whose verdict was given under the  *)
(* generation in force is one the policy in force allows; a registered     *)
(* tunnel is of that generation; a tunnel that carries bytes is registered *)
(* or about to be closed; and the account of a flow says at every step     *)
(* what its end will bill.                                                 *)
(*                                                                         *)
(* The invariant of the learned floor, LInv: the map writes a learner has  *)
(* queued and nobody has overtaken say what its table says; an address of  *)
(* the table or the map that no queued write accounts for is in both or    *)
(* adrift; whoever writes for the task's learner holds the task's map; the *)
(* references of a map are the goroutines that hold it; and whatever names *)
(* a learner names one that was made.                                      *)
(***************************************************************************)
EXTENDS Egress, FiniteSetTheorems, NaturalsInduction, TLAPS

\* The flow has passed its verdict and has not ended.
Judged(r) == r.pc \in {"dial", "guard", "track", "intercept", "reply", "splice", "mitm", "pipe", "body"}
Carrying(r) == r.pc \in {"reply", "splice", "mitm"}

\* The account of a flow that ends here, with b billed.
Settled(r, b) ==
    (r.kind # "splice" /\ ~r.chunked) =>
        /\ b + r.early >= r.sent
        /\ r.mitm \/ b + r.early = r.sent
        /\ r.early > 0 => r.kind = "connect"

\* What is owed when the flow ends here.
Account(r) ==
    /\ r.pc \in {"idle", "dial", "guard", "track", "intercept", "reply"} => r.sent = 0 /\ r.billed = 0
    /\ r.pc \notin {"pipe", "done"} => r.early = 0
    /\ r.pc \in {"dial", "guard", "track"} => r.kind # ""
    /\ r.pc = "track" => r.kind # "http"
    /\ r.pc \in {"reply", "pipe"} => r.kind = "connect"
    /\ r.pc = "pipe" => r.early <= r.sent
    /\ r.pc \in {"intercept", "mitm"} => r.mitm
    /\ r.pc = "splice" => r.kind = "splice"
    /\ r.pc = "mitm" /\ ~r.chunked => r.billed >= r.sent
    /\ r.pc = "done" => Settled(r, r.billed)

Flow ==
    [pc: {"idle", "dial", "guard", "track", "intercept", "reply", "splice", "mitm", "pipe", "body", "done"},
     kind: {"", "connect", "splice", "http"}, host: Domains \cup {""}, port: {"", "web", "other"},
     op: Ops \cup {""}, ip: IPs \cup {0}, gen: Nat, pol: Policies \cup {NoPolicy},
     cl: {"open", "closed"}, up: {"none", "open", "closed"},
     sent: Nat, early: Nat, billed: Nat, mitm: BOOLEAN, chunked: BOOLEAN]

FlowsType ==
    /\ policy \in Policies \cup {NoPolicy} /\ gen \in Nat
    /\ tunnels \subseteq Conns /\ closing \subseteq Conns
    /\ conn \in [Conns -> Flow]

\* One flow against the policy p in force, of generation n.
Abides(r, p, n) ==
    /\ r.ip \notin Private
    /\ r.gen <= n
    /\ Judged(r) /\ r.gen = n => Verdict(r, p) /\ r.pol = p

Registered(c) ==
    /\ c \in tunnels => conn[c].gen = gen /\ Carrying(conn[c])
    /\ Carrying(conn[c]) /\ conn[c].cl = "open" => c \in tunnels \cup closing

GInv ==
    /\ FlowsType
    /\ \A c \in Conns : Abides(conn[c], policy, gen) /\ Account(conn[c]) /\ Registered(c)

-----------------------------------------------------------------------------
(* The gateway. *)

\* One flow moves on.
LEMMA OneFlow ==
    ASSUME GInv, NEW c \in Conns, NEW r \in Flow, conn' = [conn EXCEPT ![c] = r],
           UNCHANGED <<policy, gen, closing>>, Abides(r, policy, gen), Account(r),
           tunnels' \in SUBSET Conns, \A x \in Conns \ {c} : x \in tunnels' <=> x \in tunnels,
           c \in tunnels' => r.gen = gen /\ Carrying(r),
           Carrying(r) /\ r.cl = "open" => c \in tunnels' \cup closing
    PROVE  GInv'
<1>1. FlowsType'  BY DEF GInv, FlowsType
<1>2. conn'[c] = r /\ \A x \in Conns \ {c} : conn'[x] = conn[x]  BY DEF GInv, FlowsType
<1>3. ASSUME NEW x \in Conns  PROVE Abides(conn'[x], policy', gen') /\ Account(conn'[x])
  BY <1>2 DEF GInv
<1>4. ASSUME NEW x \in Conns  PROVE Registered(x)'
  <2>1. CASE x = c  BY <1>2, <2>1 DEF Registered, Carrying
  <2>2. CASE x # c  BY <1>2, <2>2 DEF GInv, Registered, Carrying
  <2>3. QED  BY <2>1, <2>2
<1>5. QED  BY <1>1, <1>3, <1>4 DEF GInv

LEMMA FreshFlow == Fresh \in Flow /\ Fresh.pc = "idle" /\ Fresh.ip \notin Private /\ Fresh.gen = 0 /\ Account(Fresh)
<1>1. Fresh \in Flow  BY DEF Fresh, Flow, NoPolicy
<1>2. Fresh.ip \notin Private  BY EgressAssumption, LearnAssumption DEF Fresh
<1>3. QED  BY <1>1, <1>2 DEF Fresh, Account

\* A flow that has ended is nobody's any more, and its account is settled.
LEMMA EndedFlow ==
    ASSUME NEW r \in Flow, NEW b \in Nat, NEW n \in Nat, NEW p,
           Settled(r, b)
    PROVE  LET x == Ended(r, b)
           IN  x \in Flow /\ ~Carrying(x) /\ ~Judged(x) /\ Abides(x, p, n) /\ Account(x)
<1>1. PICK x : x = Ended(r, b)  OBVIOUS
<1>6. x = [pc |-> "done", kind |-> r.kind, host |-> "", port |-> "", op |-> "", ip |-> 0, gen |-> 0,
           pol |-> NoPolicy, cl |-> "closed", up |-> "closed", sent |-> r.sent, early |-> r.early,
           billed |-> b, mitm |-> r.mitm, chunked |-> r.chunked]
  BY <1>1 DEF Ended
<1>7. r.kind \in {"", "connect", "splice", "http"} /\ r.sent \in Nat /\ r.early \in Nat
      /\ r.mitm \in BOOLEAN /\ r.chunked \in BOOLEAN
  BY DEF Flow
<1>8. x \in Flow  BY <1>6, <1>7 DEF Flow, NoPolicy
<1>2. /\ x \in Flow /\ x.pc = "done" /\ x.kind = r.kind /\ x.sent = r.sent /\ x.early = r.early
      /\ x.billed = b /\ x.mitm = r.mitm
      /\ x.chunked = r.chunked /\ x.ip = Fresh.ip /\ x.gen = 0
  BY <1>6, <1>8 DEF Fresh
<1>3. ~Carrying(x) /\ ~Judged(x) /\ Account(x)  BY <1>2 DEF Carrying, Judged, Account, Settled
<1>4. Abides(x, p, n)  BY <1>2, <1>3, FreshFlow DEF Abides
<1>5. QED  BY <1>1, <1>2, <1>3, <1>4

\* Nothing sent, nothing owed.
LEMMA NothingOwed ==
    ASSUME NEW r, r.sent = 0, r.early = 0
    PROVE  Settled(r, 0)
BY DEF Settled

\* A flow ends, with b billed.
LEMMA FlowEnds ==
    ASSUME GInv, NEW c \in Conns, NEW b \in Nat,
           Settled(conn[c], b),
           Step(c, Ended(conn[c], b)),
           tunnels' = tunnels \ {c} \/ (UNCHANGED tunnels /\ ~Carrying(conn[c]))
    PROVE  GInv'
<1>1. FlowsType /\ conn[c] \in Flow /\ gen \in Nat /\ Registered(c)  BY DEF GInv, FlowsType
<1>2. PICK x : x = Ended(conn[c], b)  OBVIOUS
<1>3. x \in Flow /\ ~Carrying(x) /\ ~Judged(x) /\ Abides(x, policy, gen) /\ Account(x)
  BY <1>1, <1>2, EndedFlow
<1>4. conn' = [conn EXCEPT ![c] = x] /\ UNCHANGED <<policy, gen, closing>>  BY <1>2 DEF Step
<1>5. c \notin tunnels' /\ tunnels' \in SUBSET Conns /\ \A y \in Conns \ {c} : y \in tunnels' <=> y \in tunnels
  BY <1>1 DEF Registered, FlowsType
<1>6. QED  BY <1>3, <1>4, <1>5, OneFlow

\* A flow ends where it has billed what it sent.
LEMMA FlowDone ==
    ASSUME GInv, NEW c \in Conns,
           Settled(conn[c], conn[c].billed),
           Step(c, Done(c)),
           tunnels' = tunnels \ {c} \/ (UNCHANGED tunnels /\ ~Carrying(conn[c]))
    PROVE  GInv'
<1>1. conn[c] \in Flow  BY DEF GInv, FlowsType
<1>2. PICK b \in Nat : b = conn[c].billed  BY <1>1 DEF Flow
<1>4. Step(c, Ended(conn[c], b))  BY <1>2 DEF Done
<1>5. QED  BY <1>2, <1>4, FlowEnds

\* A flow goes on: what the verdict was about stays, and so does its account.
LEMMA FlowGoesOn ==
    ASSUME GInv, NEW c \in Conns, NEW r \in Flow, Step(c, r), UNCHANGED tunnels, Account(r),
           r.kind = conn[c].kind, r.host = conn[c].host, r.port = conn[c].port, r.op = conn[c].op,
           r.gen = conn[c].gen, r.pol = conn[c].pol, r.ip \notin Private,
           Judged(conn[c]), Carrying(r) <=> Carrying(conn[c]), r.cl = "open" => conn[c].cl = "open"
    PROVE  GInv'
<1>1. FlowsType /\ conn[c] \in Flow /\ Registered(c) /\ Abides(conn[c], policy, gen)  BY DEF GInv, FlowsType
<1>2. View(r) = View(conn[c])  BY DEF View
<1>3. Verdict(conn[c], policy) => Verdict(r, policy)  BY <1>2 DEF Verdict, PortAllowed
<1>4. Abides(r, policy, gen)  BY <1>1, <1>3 DEF Abides
<1>5. conn' = [conn EXCEPT ![c] = r] /\ UNCHANGED <<policy, gen, closing>>  BY DEF Step
<1>6. tunnels' \in SUBSET Conns /\ \A y \in Conns \ {c} : y \in tunnels' <=> y \in tunnels  BY <1>1 DEF FlowsType
<1>7. c \in tunnels' => r.gen = gen /\ Carrying(r)  BY <1>1 DEF Registered
<1>8. Carrying(r) /\ r.cl = "open" => c \in tunnels' \cup closing  BY <1>1 DEF Registered
<1>9. QED  BY <1>4, <1>5, <1>6, <1>7, <1>8, OneFlow

LEMMA DialInv == ASSUME GInv, NEW c \in Conns, NEW ip \in IPs, Dial(c, ip) PROVE GInv'
<1>1. conn[c] \in Flow /\ conn[c].pc = "dial" /\ Account(conn[c]) /\ UNCHANGED tunnels
  BY DEF GInv, FlowsType, Dial
<1>2. /\ conn[c].sent = 0 /\ conn[c].billed = 0 /\ conn[c].early = 0 /\ conn[c].kind # "" /\ Judged(conn[c])
      /\ ~Carrying(conn[c])
  BY <1>1 DEF Account, Judged, Carrying
<1>6. Settled(conn[c], conn[c].billed)  BY <1>2, NothingOwed
<1>3. CASE ip \in Private
  <2>1. Step(c, Done(c))  BY <1>3 DEF Dial
  <2>2. QED  BY <1>1, <1>2, <1>6, <2>1, FlowDone
<1>4. CASE ip \notin Private
  <2>1. PICK r : r = [conn[c] EXCEPT !.pc = "guard", !.ip = ip, !.up = "open"]  OBVIOUS
  <2>2. /\ r \in Flow /\ r.pc = "guard" /\ r.ip = ip /\ r.kind = conn[c].kind /\ r.host = conn[c].host
        /\ r.port = conn[c].port /\ r.op = conn[c].op /\ r.gen = conn[c].gen /\ r.pol = conn[c].pol
        /\ r.cl = conn[c].cl /\ r.sent = 0 /\ r.billed = 0 /\ r.early = 0
    BY <1>1, <1>2, <2>1 DEF Flow
  <2>3. Step(c, r)  BY <1>4, <2>1 DEF Dial
  <2>4. Account(r) /\ ~Carrying(r)  BY <1>2, <2>2 DEF Account, Carrying
  <2>5. QED  BY <1>1, <1>2, <1>4, <2>2, <2>3, <2>4, FlowGoesOn
<1>5. QED  BY <1>3, <1>4

LEMMA GuardInv == ASSUME GInv, NEW c \in Conns, Guard(c) \/ DialFails(c) PROVE GInv'
<1>1. conn[c] \in Flow /\ conn[c].pc \in {"guard", "dial"} /\ Account(conn[c]) /\ UNCHANGED tunnels
      /\ Abides(conn[c], policy, gen)
  BY DEF GInv, FlowsType, Guard, DialFails
<1>2. /\ conn[c].sent = 0 /\ conn[c].billed = 0 /\ conn[c].early = 0 /\ conn[c].kind # "" /\ Judged(conn[c])
      /\ ~Carrying(conn[c])
  BY <1>1 DEF Account, Judged, Carrying
<1>6. Settled(conn[c], conn[c].billed)  BY <1>2, NothingOwed
<1>3. CASE Step(c, Done(c))  BY <1>1, <1>2, <1>3, <1>6, FlowDone
<1>4. CASE Step(c, [conn[c] EXCEPT !.pc = IF conn[c].kind = "http" THEN "body" ELSE "track"])
  <2>1. PICK r : r = [conn[c] EXCEPT !.pc = IF conn[c].kind = "http" THEN "body" ELSE "track"]  OBVIOUS
  <2>2. /\ r \in Flow /\ r.pc = (IF conn[c].kind = "http" THEN "body" ELSE "track") /\ r.ip = conn[c].ip /\ r.kind = conn[c].kind /\ r.host = conn[c].host
        /\ r.port = conn[c].port /\ r.op = conn[c].op /\ r.gen = conn[c].gen /\ r.pol = conn[c].pol
        /\ r.cl = conn[c].cl /\ r.sent = 0 /\ r.billed = 0 /\ r.early = 0
    BY <1>1, <1>2, <2>1 DEF Flow
  <2>3. Step(c, r)  BY <1>4, <2>1
  <2>4. Account(r) /\ ~Carrying(r) /\ r.ip \notin Private  BY <1>1, <1>2, <2>2 DEF Account, Carrying, Abides
  <2>5. QED  BY <1>1, <1>2, <2>2, <2>3, <2>4, FlowGoesOn
<1>5. QED
  <2>1. PICK S, o : Guard(c) => Step(c, IF ~(o \/ conn[c].ip \in S) THEN Done(c)
                   ELSE [conn[c] EXCEPT !.pc = IF conn[c].kind = "http" THEN "body" ELSE "track"])
    <3>1. PICK S : S = IF registered = None THEN {} ELSE LearnedIPs(registered, conn[c].host)  OBVIOUS
    <3>2. PICK o : o = (S = {} /\ ~(conn[c].kind = "splice" /\ registered # None))  OBVIOUS
    <3>3. QED  BY <3>1, <3>2 DEF Guard
  <2>2. CASE DialFails(c)  BY <1>3, <2>2 DEF DialFails
  <2>3. CASE Guard(c) /\ ~(o \/ conn[c].ip \in S)  BY <1>3, <2>1, <2>3
  <2>4. CASE Guard(c) /\ (o \/ conn[c].ip \in S)  BY <1>4, <2>1, <2>4
  <2>5. QED  BY <2>2, <2>3, <2>4

\* Registration: only under the generation of the verdict.
LEMMA TrackInv == ASSUME GInv, NEW c \in Conns, Track(c) PROVE GInv'
<1>1. /\ conn[c] \in Flow /\ conn[c].pc \in {"track", "intercept"} /\ Account(conn[c])
      /\ FlowsType /\ Abides(conn[c], policy, gen)
  BY DEF GInv, FlowsType, Track
<1>2. conn[c].sent = 0 /\ conn[c].billed = 0 /\ conn[c].early = 0 /\ Judged(conn[c]) /\ ~Carrying(conn[c])
      /\ (conn[c].pc = "intercept" => conn[c].mitm)
      /\ (conn[c].pc = "track" => conn[c].kind \in {"connect", "splice"})
  BY <1>1 DEF Account, Judged, Carrying, Flow
<1>6. Settled(conn[c], conn[c].billed)  BY <1>2, NothingOwed
<1>3. CASE conn[c].gen # gen
  <2>1. Step(c, Done(c)) /\ UNCHANGED tunnels  BY <1>3 DEF Track, trackTunnelIfFresh
  <2>2. QED  BY <1>1, <1>2, <1>6, <2>1, FlowDone
<1>4. CASE conn[c].gen = gen
  <2>1. PICK l \in {"mitm", "splice", "reply"} :
            /\ l = IF conn[c].pc = "intercept" THEN "mitm" ELSE IF conn[c].kind = "splice" THEN "splice" ELSE "reply"
    OBVIOUS
  <2>2. PICK r : r = [conn[c] EXCEPT !.pc = l]  OBVIOUS
  <2>3. /\ r \in Flow /\ r.pc = l /\ r.ip = conn[c].ip /\ r.kind = conn[c].kind /\ r.host = conn[c].host
        /\ r.port = conn[c].port /\ r.op = conn[c].op /\ r.gen = conn[c].gen /\ r.pol = conn[c].pol
        /\ r.cl = conn[c].cl /\ r.sent = 0 /\ r.billed = 0 /\ r.early = 0 /\ r.mitm = conn[c].mitm
    BY <1>1, <1>2, <2>2 DEF Flow
  <2>4. tunnels' = tunnels \cup {c} /\ Step(c, r)
    BY <1>4, <2>1, <2>2 DEF Track, trackTunnelIfFresh
  <2>5. Account(r) /\ Carrying(r)
    <3>1. l = "reply" => conn[c].kind = "connect"  BY <1>1, <1>2, <2>1
    <3>2. (l = "mitm" => conn[c].mitm) /\ (l = "splice" => conn[c].kind = "splice")  BY <1>1, <1>2, <2>1
    <3>3. QED  BY <2>1, <2>3, <3>1, <3>2 DEF Account, Carrying
  <2>6. View(r) = View(conn[c])  BY <2>3 DEF View
  <2>7. Abides(r, policy, gen)  BY <1>1, <1>2, <2>3, <2>6 DEF Abides, Verdict, PortAllowed
  <2>8. conn' = [conn EXCEPT ![c] = r] /\ UNCHANGED <<policy, gen, closing>>  BY <2>4 DEF Step
  <2>9. tunnels' \in SUBSET Conns /\ \A y \in Conns \ {c} : y \in tunnels' <=> y \in tunnels
    BY <1>1, <2>4 DEF FlowsType
  <2>10. QED  BY <1>4, <2>3, <2>4, <2>5, <2>7, <2>8, <2>9, OneFlow
<1>5. QED  BY <1>3, <1>4

LEMMA ReplyInv == ASSUME GInv, NEW c \in Conns, NEW n \in 0 .. MaxSent, Reply(c, n) \/ ReplyFails(c, n) PROVE GInv'
<1>1. /\ conn[c] \in Flow /\ conn[c].pc = "reply" /\ Account(conn[c]) /\ tunnels' = tunnels \ {c}
      /\ FlowsType /\ Abides(conn[c], policy, gen) /\ gen \in Nat
  BY DEF GInv, FlowsType, Reply, ReplyFails
<1>2. conn[c].billed = 0 /\ conn[c].kind = "connect" /\ Judged(conn[c])  BY <1>1 DEF Account, Judged
<1>3. n \in Nat  BY EgressAssumption
<1>4. tunnels' \in SUBSET Conns /\ c \notin tunnels' /\ \A y \in Conns \ {c} : y \in tunnels' <=> y \in tunnels
  BY <1>1 DEF FlowsType
<1>5. CASE ReplyFails(c, n)
  <2>1. PICK r : r = [conn[c] EXCEPT !.sent = n, !.early = n]  OBVIOUS
  <2>2. r \in Flow /\ r.sent = n /\ r.early = n /\ r.billed = 0 /\ r.kind = "connect"
    BY <1>1, <1>2, <1>3, <2>1 DEF Flow
  <2>3. Settled(r, 0)  BY <1>3, <2>2 DEF Settled
  <2>4. PICK x : x = Ended(r, 0)  OBVIOUS
  <2>5. x \in Flow /\ ~Carrying(x) /\ Abides(x, policy, gen) /\ Account(x)
    BY <1>1, <2>2, <2>3, <2>4, EndedFlow
  <2>7. conn' = [conn EXCEPT ![c] = x] /\ UNCHANGED <<policy, gen, closing>>
    BY <1>5, <2>1, <2>4 DEF ReplyFails, Step
  <2>8. QED  BY <1>4, <2>5, <2>7, OneFlow
<1>6. CASE Reply(c, n)
  <2>1. PICK r : r = [conn[c] EXCEPT !.pc = "pipe", !.sent = n, !.early = n]  OBVIOUS
  <2>2. /\ r \in Flow /\ r.pc = "pipe" /\ r.ip = conn[c].ip /\ r.kind = conn[c].kind /\ r.host = conn[c].host
        /\ r.port = conn[c].port /\ r.op = conn[c].op /\ r.gen = conn[c].gen /\ r.pol = conn[c].pol
        /\ r.sent = n /\ r.early = n
    BY <1>1, <1>3, <2>1 DEF Flow
  <2>3. Account(r) /\ ~Carrying(r) /\ Judged(r)  BY <1>2, <1>3, <2>2 DEF Account, Carrying, Judged
  <2>4. View(r) = View(conn[c])  BY <2>2 DEF View
  <2>5. Abides(r, policy, gen)  BY <1>1, <1>2, <2>2, <2>4 DEF Abides, Verdict, PortAllowed
  <2>6. conn' = [conn EXCEPT ![c] = r] /\ UNCHANGED <<policy, gen, closing>>  BY <1>6, <2>1 DEF Reply, Step
  <2>7. QED  BY <1>4, <2>2, <2>3, <2>5, <2>6, OneFlow
<1>7. QED  BY <1>5, <1>6

LEMMA EndsInv ==
    ASSUME GInv, NEW c \in Conns, PipeEnds(c) \/ HttpEnds(c) \/ SpliceEnds(c) \/ MitmEnds(c)
    PROVE  GInv'
<1>1. conn[c] \in Flow /\ Account(conn[c])  BY DEF GInv, FlowsType
<1>5. conn[c].sent \in Nat /\ conn[c].early \in Nat /\ conn[c].billed \in Nat  BY <1>1 DEF Flow
<1>2. CASE PipeEnds(c) \/ HttpEnds(c)
  <2>1. PICK b \in Nat : b + conn[c].early = conn[c].sent /\ Step(c, Ended(conn[c], b))
    <3>1. CASE PipeEnds(c)
      <4>1. conn[c].early <= conn[c].sent  BY <1>1, <3>1 DEF PipeEnds, Account
      <4>2. conn[c].sent - conn[c].early \in Nat  BY <1>5, <4>1
      <4>3. QED  BY <1>5, <3>1, <4>2 DEF PipeEnds
    <3>2. CASE HttpEnds(c)
      <4>1. conn[c].early = 0  BY <1>1, <3>2 DEF HttpEnds, Account
      <4>2. QED  BY <1>5, <3>2, <4>1 DEF HttpEnds
    <3>3. QED  BY <1>2, <3>1, <3>2
  <2>2. conn[c].pc \in {"pipe", "body"} /\ UNCHANGED tunnels  BY <1>2 DEF PipeEnds, HttpEnds
  <2>3. ~Carrying(conn[c])  BY <2>2 DEF Carrying
  <2>4. conn[c].early > 0 => conn[c].kind = "connect"
    <3>1. conn[c].kind = "connect" \/ conn[c].early = 0  BY <1>1, <2>2 DEF Account
    <3>2. QED  BY <3>1
  <2>5. Settled(conn[c], b)  BY <1>5, <2>1, <2>4 DEF Settled
  <2>6. QED  BY <2>1, <2>2, <2>3, <2>5, FlowEnds
<1>3. CASE SpliceEnds(c) \/ MitmEnds(c)
  <2>1. conn[c].pc \in {"splice", "mitm"} /\ tunnels' = tunnels \ {c} /\ Step(c, Done(c))
    BY <1>3 DEF SpliceEnds, MitmEnds
  <2>4. conn[c].early = 0  BY <1>1, <2>1 DEF Account
  <2>5. conn[c].kind = "splice" \/ (conn[c].mitm /\ (~conn[c].chunked => conn[c].billed >= conn[c].sent))
    BY <1>1, <2>1 DEF Account
  <2>2. Settled(conn[c], conn[c].billed)  BY <1>5, <2>4, <2>5 DEF Settled
  <2>3. QED  BY <2>1, <2>2, FlowDone
<1>4. QED  BY <1>2, <1>3

\* Bytes are carried, or a side closes.
LEMMA CarryInv ==
    ASSUME GInv, NEW c \in Conns, Upload(c) \/ ClientCloses(c) \/ UpstreamCloses(c) \/ SendBody(c)
    PROVE  GInv'
<1>1. /\ conn[c] \in Flow /\ conn[c].pc \in {"pipe", "splice", "mitm", "body"} /\ Account(conn[c])
      /\ Abides(conn[c], policy, gen) /\ UNCHANGED tunnels
  BY DEF GInv, FlowsType, Upload, ClientCloses, UpstreamCloses, SendBody
<1>2. Judged(conn[c]) /\ conn[c].ip \notin Private  BY <1>1 DEF Judged, Abides
<1>3. PICK n \in Nat : n = conn[c].sent + 1
  <2>1. conn[c].sent \in Nat  BY <1>1 DEF Flow
  <2>2. QED  BY <2>1
<1>8. conn[c].sent \in Nat /\ conn[c].early \in Nat  BY <1>1 DEF Flow
<1>4. PICK r \in Flow :
        /\ Step(c, r) /\ r.pc = conn[c].pc /\ r.ip = conn[c].ip /\ r.kind = conn[c].kind /\ r.host = conn[c].host
        /\ r.port = conn[c].port /\ r.op = conn[c].op /\ r.gen = conn[c].gen /\ r.pol = conn[c].pol
        /\ r.mitm = conn[c].mitm /\ r.chunked = conn[c].chunked /\ r.billed = conn[c].billed /\ r.early = conn[c].early
        /\ (r.cl = "open" => conn[c].cl = "open")
        /\ (r.pc = "mitm" => r.sent = conn[c].sent) /\ r.sent >= conn[c].sent
  <2>1. CASE Upload(c) \/ SendBody(c)
    <3>1. PICK r : r = [conn[c] EXCEPT !.sent = n]  OBVIOUS
    <3>2. Step(c, r) /\ conn[c].pc # "mitm"  BY <1>3, <2>1, <3>1 DEF Upload, SendBody
    <3>3. r \in Flow  BY <1>1, <3>1 DEF Flow
    <3>4. /\ r.pc = conn[c].pc /\ r.ip = conn[c].ip /\ r.kind = conn[c].kind /\ r.host = conn[c].host
          /\ r.port = conn[c].port /\ r.op = conn[c].op /\ r.gen = conn[c].gen /\ r.pol = conn[c].pol
          /\ r.mitm = conn[c].mitm /\ r.chunked = conn[c].chunked /\ r.billed = conn[c].billed /\ r.early = conn[c].early
          /\ r.cl = conn[c].cl /\ r.sent = n
      BY <1>1, <3>1 DEF Flow
    <3>5. n >= conn[c].sent  BY <1>3, <1>8
    <3>6. QED  BY <3>2, <3>3, <3>4, <3>5
  <2>2. CASE ClientCloses(c)
    <3>1. PICK r : r = [conn[c] EXCEPT !.cl = "closed"]  OBVIOUS
    <3>2. Step(c, r)  BY <2>2, <3>1 DEF ClientCloses
    <3>3. r \in Flow  BY <1>1, <3>1 DEF Flow
    <3>4. /\ r.pc = conn[c].pc /\ r.ip = conn[c].ip /\ r.kind = conn[c].kind /\ r.host = conn[c].host
          /\ r.port = conn[c].port /\ r.op = conn[c].op /\ r.gen = conn[c].gen /\ r.pol = conn[c].pol
          /\ r.mitm = conn[c].mitm /\ r.chunked = conn[c].chunked /\ r.billed = conn[c].billed /\ r.early = conn[c].early
          /\ r.cl = "closed" /\ r.sent = conn[c].sent
      BY <1>1, <3>1 DEF Flow
    <3>5. r.sent >= conn[c].sent  BY <1>8, <3>4
    <3>6. QED  BY <3>2, <3>3, <3>4, <3>5
  <2>3. CASE UpstreamCloses(c)
    <3>1. PICK r : r = [conn[c] EXCEPT !.up = "closed"]  OBVIOUS
    <3>2. Step(c, r)  BY <2>3, <3>1 DEF UpstreamCloses
    <3>3. r \in Flow  BY <1>1, <3>1 DEF Flow
    <3>4. /\ r.pc = conn[c].pc /\ r.ip = conn[c].ip /\ r.kind = conn[c].kind /\ r.host = conn[c].host
          /\ r.port = conn[c].port /\ r.op = conn[c].op /\ r.gen = conn[c].gen /\ r.pol = conn[c].pol
          /\ r.mitm = conn[c].mitm /\ r.chunked = conn[c].chunked /\ r.billed = conn[c].billed /\ r.early = conn[c].early
          /\ r.cl = conn[c].cl /\ r.sent = conn[c].sent
      BY <1>1, <3>1 DEF Flow
    <3>5. r.sent >= conn[c].sent  BY <1>8, <3>4
    <3>6. QED  BY <3>2, <3>3, <3>4, <3>5
  <2>4. QED  BY <2>1, <2>2, <2>3
<1>7. r.sent \in Nat  BY <1>4 DEF Flow
<1>5. Account(r) /\ (Carrying(r) <=> Carrying(conn[c]))
  <2>1. r.pc = "pipe" => r.early <= r.sent
    <3>1. conn[c].pc = "pipe" => conn[c].early <= conn[c].sent  BY <1>1 DEF Account
    <3>2. QED  BY <1>4, <1>7, <1>8, <3>1
  <2>2. r.pc = "mitm" /\ ~r.chunked => r.billed >= r.sent  BY <1>1, <1>4 DEF Account
  <2>3. /\ r.pc \notin {"pipe", "done"} => r.early = 0
        /\ r.pc = "pipe" => r.kind = "connect"
        /\ r.pc = "mitm" => r.mitm
        /\ r.pc = "splice" => r.kind = "splice"
    BY <1>1, <1>4 DEF Account
  <2>4. Account(r)  BY <1>1, <1>4, <2>1, <2>2, <2>3 DEF Account
  <2>5. QED  BY <1>4, <2>4 DEF Carrying
<1>6. QED  BY <1>1, <1>2, <1>4, <1>5, FlowGoesOn

LEMMA MitmInv ==
    ASSUME GInv, NEW c \in Conns, NEW op \in Ops, NEW ch \in BOOLEAN, NEW lv \in BOOLEAN,
           MitmRequest(c, op, ch, lv)
    PROVE  GInv'
<1>1. /\ conn[c] \in Flow /\ conn[c].pc = "mitm" /\ Account(conn[c])
      /\ Abides(conn[c], policy, gen) /\ UNCHANGED tunnels
  BY DEF GInv, FlowsType, MitmRequest
<1>2. Judged(conn[c]) /\ conn[c].ip \notin Private /\ conn[c].mitm
      /\ (~conn[c].chunked => conn[c].billed >= conn[c].sent)
  BY <1>1 DEF Judged, Abides, Account
<1>3. conn[c].sent \in Nat /\ conn[c].billed \in Nat /\ conn[c].chunked \in BOOLEAN  BY <1>1 DEF Flow
<1>4. PICK n, b \in Nat : /\ n = IF lv THEN conn[c].sent + 1 ELSE conn[c].sent
                          /\ b = IF ch THEN conn[c].billed ELSE conn[c].billed + 1
  BY <1>3
<1>5. PICK k \in BOOLEAN : k = (conn[c].chunked \/ ch)  BY <1>3
<1>6. PICK r : r = [conn[c] EXCEPT !.sent = n, !.billed = b, !.chunked = k]  OBVIOUS
<1>7. /\ r \in Flow /\ r.pc = "mitm" /\ r.ip = conn[c].ip /\ r.kind = conn[c].kind /\ r.host = conn[c].host
      /\ r.port = conn[c].port /\ r.op = conn[c].op /\ r.gen = conn[c].gen /\ r.pol = conn[c].pol
      /\ r.mitm = conn[c].mitm /\ r.chunked = k /\ r.billed = b /\ r.sent = n /\ r.cl = conn[c].cl
      /\ r.early = conn[c].early
  BY <1>1, <1>6 DEF Flow
<1>8. Step(c, r)  BY <1>1, <1>4, <1>5, <1>6 DEF MitmRequest, Flow
<1>9. ~k => b >= n  BY <1>2, <1>3, <1>4, <1>5
<1>10. Account(r) /\ Carrying(r) /\ Carrying(conn[c])  BY <1>1, <1>2, <1>7, <1>9 DEF Account, Carrying
<1>11. QED  BY <1>1, <1>2, <1>7, <1>8, <1>10, FlowGoesOn

\* The sweep closes the client's side of a flow that is off the register.
LEMMA CloseSweptInv == ASSUME GInv, NEW c \in Conns, CloseSwept(c) PROVE GInv'
<1>1. /\ FlowsType /\ conn[c] \in Flow /\ Account(conn[c]) /\ Abides(conn[c], policy, gen) /\ Registered(c)
      /\ UNCHANGED <<policy, gen, tunnels>> /\ closing' = closing \ {c}
  BY DEF GInv, FlowsType, CloseSwept
<1>2. PICK r : r = [conn[c] EXCEPT !.cl = "closed"]  OBVIOUS
<1>3. r \in Flow  BY <1>1, <1>2 DEF Flow
<1>4. /\ r.pc = conn[c].pc /\ r.ip = conn[c].ip /\ r.kind = conn[c].kind /\ r.host = conn[c].host
      /\ r.port = conn[c].port /\ r.op = conn[c].op /\ r.gen = conn[c].gen /\ r.pol = conn[c].pol
      /\ r.mitm = conn[c].mitm /\ r.chunked = conn[c].chunked /\ r.billed = conn[c].billed /\ r.early = conn[c].early
      /\ r.sent = conn[c].sent /\ r.cl = "closed"
  BY <1>1, <1>2 DEF Flow
<1>5. conn' = [conn EXCEPT ![c] = r]  BY <1>1, <1>2 DEF CloseSwept, FlowsType
<1>6. conn'[c] = r /\ \A x \in Conns \ {c} : conn'[x] = conn[x]  BY <1>1, <1>5 DEF FlowsType
<1>7. FlowsType'  BY <1>1, <1>3, <1>5 DEF FlowsType
<1>8. View(r) = View(conn[c])  BY <1>4 DEF View
<1>9. (Judged(r) <=> Judged(conn[c])) /\ (Carrying(r) <=> Carrying(conn[c]))  BY <1>4 DEF Judged, Carrying
<1>10. Abides(r, policy, gen)  BY <1>1, <1>4, <1>8, <1>9 DEF Abides, Verdict, PortAllowed
<1>11. Account(r)  BY <1>1, <1>4 DEF Account, Settled
<1>12. ASSUME NEW x \in Conns  PROVE Abides(conn'[x], policy', gen') /\ Account(conn'[x]) /\ Registered(x)'
  <2>1. CASE x = c
    <3>1. Registered(x)'  BY <1>1, <1>4, <1>6, <1>9, <2>1 DEF Registered, Carrying
    <3>2. QED  BY <1>1, <1>6, <1>10, <1>11, <2>1, <3>1
  <2>2. CASE x # c
    <3>1. conn'[x] = conn[x] /\ Registered(x)  BY <1>6, <2>2 DEF GInv
    <3>2. Registered(x)'  BY <1>1, <2>2, <3>1 DEF Registered, Carrying
    <3>3. QED  BY <1>1, <3>1, <3>2 DEF GInv
  <2>3. QED  BY <2>1, <2>2
<1>13. QED  BY <1>7, <1>12 DEF GInv

\* The verdict is given under the policy and the generation read with it.
LEMMA AcceptInv ==
    ASSUME GInv, NEW c \in Conns, NEW k \in {"connect", "splice", "http"}, NEW h \in Domains,
           NEW p \in {"web", "other"}, NEW op \in Ops, Accept(c, k, h, p, op)
    PROVE  GInv'
<1>1. /\ FlowsType /\ conn[c] \in Flow /\ Account(conn[c]) /\ Abides(conn[c], policy, gen) /\ Registered(c)
      /\ conn[c].pc = "idle" /\ UNCHANGED <<policy, gen, closing, tunnels>>
  BY DEF GInv, FlowsType, Accept
<1>2. conn[c].sent = 0 /\ conn[c].billed = 0 /\ conn[c].early = 0 /\ c \notin tunnels /\ conn[c].ip \notin Private
  BY <1>1 DEF Account, Registered, Carrying, Abides
<1>3. PICK r : r = [conn[c] EXCEPT !.kind = k, !.host = h, !.port = p, !.op = op, !.gen = gen, !.pol = policy]
  OBVIOUS
<1>4. r \in Flow  BY <1>1, <1>3 DEF Flow, FlowsType
<1>5. /\ r.pc = "idle" /\ r.kind = k /\ r.gen = gen /\ r.pol = policy /\ r.sent = 0 /\ r.billed = 0
      /\ r.early = 0 /\ r.ip = conn[c].ip
  BY <1>1, <1>2, <1>3 DEF Flow
<1>6. SUFFICES \E x \in Flow : /\ conn' = [conn EXCEPT ![c] = x] /\ Abides(x, policy, gen) /\ Account(x)
                               /\ ~Carrying(x)
  <2>1. PICK x \in Flow : conn' = [conn EXCEPT ![c] = x] /\ Abides(x, policy, gen) /\ Account(x) /\ ~Carrying(x)
    BY <1>6
  <2>2. tunnels' \in SUBSET Conns /\ c \notin tunnels' /\ \A y \in Conns \ {c} : y \in tunnels' <=> y \in tunnels
    BY <1>1, <1>2 DEF FlowsType
  <2>3. QED  BY <1>1, <2>1, <2>2, OneFlow
<1>7. CASE ~Verdict(r, policy)
  <2>1. conn' = [conn EXCEPT ![c] = Ended(r, 0)]  BY <1>3, <1>7 DEF Accept
  <2>2. PICK x : x = Ended(r, 0)  OBVIOUS
  <2>3. 0 \in Nat /\ gen \in Nat /\ Settled(r, 0)  BY <1>1, <1>5, NothingOwed DEF FlowsType
  <2>4. x \in Flow /\ ~Carrying(x) /\ Abides(x, policy, gen) /\ Account(x)
    BY <1>4, <2>2, <2>3, EndedFlow
  <2>6. QED  BY <2>1, <2>2, <2>4
<1>8. CASE Verdict(r, policy)
  <2>1. PICK m : m = (k # "http" /\ ruleMITM(h, Terms[policy]))  OBVIOUS
  <2>2. CASE m
    <3>1. PICK x : x = [r EXCEPT !.pc = "intercept", !.mitm = TRUE]  OBVIOUS
    <3>2. conn' = [conn EXCEPT ![c] = x]  BY <1>3, <1>8, <2>1, <2>2, <3>1 DEF Accept
    <3>3. x \in Flow  BY <1>4, <3>1 DEF Flow
    <3>4. /\ x.pc = "intercept" /\ x.mitm = TRUE /\ x.kind = r.kind /\ x.host = r.host /\ x.port = r.port
          /\ x.op = r.op /\ x.gen = r.gen /\ x.pol = r.pol /\ x.ip = r.ip /\ x.sent = 0 /\ x.billed = 0
          /\ x.early = 0
      BY <1>4, <1>5, <3>1 DEF Flow
    <3>5. View(x) = View(r)  BY <3>4 DEF View
    <3>6. Verdict(x, policy)  BY <1>8, <3>4, <3>5 DEF Verdict, PortAllowed
    <3>7. Abides(x, policy, gen)  BY <1>1, <1>2, <1>5, <3>4, <3>6 DEF Abides, FlowsType
    <3>8. Account(x) /\ ~Carrying(x)  BY <1>5, <3>4 DEF Account, Carrying
    <3>9. QED  BY <3>2, <3>3, <3>7, <3>8
  <2>3. CASE ~m
    <3>1. PICK x : x = [r EXCEPT !.pc = "dial"]  OBVIOUS
    <3>2. conn' = [conn EXCEPT ![c] = x]  BY <1>3, <1>8, <2>1, <2>3, <3>1 DEF Accept
    <3>3. x \in Flow  BY <1>4, <3>1 DEF Flow
    <3>4. /\ x.pc = "dial" /\ x.kind = r.kind /\ x.host = r.host /\ x.port = r.port
          /\ x.op = r.op /\ x.gen = r.gen /\ x.pol = r.pol /\ x.ip = r.ip /\ x.sent = 0 /\ x.billed = 0
          /\ x.early = 0
      BY <1>4, <1>5, <3>1 DEF Flow
    <3>5. View(x) = View(r)  BY <3>4 DEF View
    <3>6. Verdict(x, policy)  BY <1>8, <3>4, <3>5 DEF Verdict, PortAllowed
    <3>7. Abides(x, policy, gen)  BY <1>1, <1>2, <1>5, <3>4, <3>6 DEF Abides, FlowsType
    <3>8. Account(x) /\ ~Carrying(x)  BY <1>5, <3>4 DEF Account, Carrying
    <3>9. QED  BY <3>2, <3>3, <3>7, <3>8
  <2>4. QED  BY <2>1, <2>2, <2>3
<1>9. QED  BY <1>7, <1>8

\* A new policy: every verdict so far is of an older generation, every
\* registered tunnel is about to be closed.
LEMMA SetPolicyInv == ASSUME GInv, NEW p \in Policies, SetPolicy(p) PROVE GInv'
<1>1. /\ FlowsType /\ policy' = p /\ gen' = gen + 1 /\ closing' = closing \cup tunnels /\ tunnels' = {}
      /\ UNCHANGED conn
  BY DEF GInv, SetPolicy
<1>2. FlowsType'  BY <1>1 DEF FlowsType
<1>3. ASSUME NEW x \in Conns  PROVE Abides(conn'[x], policy', gen') /\ Account(conn'[x]) /\ Registered(x)'
  <2>1. conn[x] \in Flow /\ Abides(conn[x], policy, gen) /\ Account(conn[x]) /\ Registered(x)
    BY DEF GInv, FlowsType
  <2>2. conn[x].gen \in Nat /\ gen \in Nat  BY <1>1, <2>1 DEF Flow, FlowsType
  <2>3. conn[x].gen <= gen /\ conn[x].ip \notin Private  BY <2>1 DEF Abides
  <2>4. conn[x].gen <= gen + 1 /\ conn[x].gen # gen + 1  BY <2>2, <2>3
  <2>5. Abides(conn[x], p, gen + 1)  BY <2>3, <2>4 DEF Abides
  <2>6. Registered(x)'  BY <1>1, <2>1 DEF Registered, Carrying
  <2>7. QED  BY <1>1, <2>1, <2>5, <2>6
<1>4. QED  BY <1>2, <1>3 DEF GInv

LEMMA GatewayInit == Init => GInv
<1> SUFFICES ASSUME Init PROVE GInv  OBVIOUS
<1>1. policy = NoPolicy /\ gen = 0 /\ tunnels = {} /\ closing = {} /\ conn = [c \in Conns |-> Fresh]  BY DEF Init
<1>2. FlowsType  BY <1>1, FreshFlow DEF FlowsType
<1>3. ASSUME NEW c \in Conns  PROVE Abides(conn[c], policy, gen) /\ Account(conn[c]) /\ Registered(c)
  <2>1. conn[c] = Fresh  BY <1>1
  <2>2. ~Judged(Fresh) /\ ~Carrying(Fresh)  BY FreshFlow DEF Judged, Carrying
  <2>3. Abides(Fresh, policy, gen)  BY <1>1, <2>2, FreshFlow DEF Abides
  <2>4. Registered(c)  BY <1>1, <2>1, <2>2 DEF Registered
  <2>5. QED  BY <2>1, <2>3, <2>4, FreshFlow
<1>4. QED  BY <1>2, <1>3 DEF GInv

LEMMA GatewayNext == GInv /\ [Next]_<<lvars, gvars>> => GInv'
<1> SUFFICES ASSUME GInv, [Next]_<<lvars, gvars>> PROVE GInv'  OBVIOUS
<1>1. CASE UNCHANGED gvars
  <2>1. FlowsType'  BY <1>1 DEF GInv, FlowsType, gvars
  <2>2. ASSUME NEW x \in Conns  PROVE Abides(conn'[x], policy', gen') /\ Account(conn'[x]) /\ Registered(x)'
    BY <1>1 DEF GInv, gvars, Registered, Carrying
  <2>3. QED  BY <2>1, <2>2 DEF GInv
<1>2. CASE \E p \in Policies : SetPolicy(p)  BY <1>2, SetPolicyInv
<1>3. ASSUME NEW c \in Conns, FlowNext(c)  PROVE GInv'
  <2>1. CASE \E k \in {"connect", "splice", "http"}, h \in Domains, p \in {"web", "other"}, op \in Ops :
                Accept(c, k, h, p, op)
    BY <2>1, AcceptInv
  <2>2. CASE \E ip \in IPs : Dial(c, ip)  BY <2>2, DialInv
  <2>3. CASE \E op \in Ops, ch \in BOOLEAN, lv \in BOOLEAN : MitmRequest(c, op, ch, lv)  BY <2>3, MitmInv
  <2>4. CASE Guard(c) \/ DialFails(c)  BY <2>4, GuardInv
  <2>5. CASE Track(c)  BY <2>5, TrackInv
  <2>6. CASE \E n \in 0 .. MaxSent : Reply(c, n) \/ ReplyFails(c, n)  BY <2>6, ReplyInv
  <2>7. CASE PipeEnds(c) \/ HttpEnds(c) \/ SpliceEnds(c) \/ MitmEnds(c)  BY <2>7, EndsInv
  <2>8. CASE Upload(c) \/ ClientCloses(c) \/ UpstreamCloses(c) \/ SendBody(c)  BY <2>8, CarryInv
  <2>9. CASE CloseSwept(c)  BY <2>9, CloseSweptInv
  <2>10. QED  BY <1>3, <2>1, <2>2, <2>3, <2>4, <2>5, <2>6, <2>7, <2>8, <2>9 DEF FlowNext
<1>4. QED  BY <1>1, <1>2, <1>3 DEF Next

(***************************************************************************)
(* A tunnel that carries bytes is one the policy in force allows, or a     *)
(* SetPolicy is about to close it (gateway.go SetPolicy,                   *)
(* trackTunnelIfFresh), however many policy updates come between the       *)
(* verdict, the dial and the registration of however many flows.           *)
(***************************************************************************)
THEOREM PolicyHolds == Spec => []TunnelsObeyPolicy
<1>1. GInv => TunnelsObeyPolicy
  <2> SUFFICES ASSUME GInv, NEW c \in Conns, conn[c].pc \in {"reply", "splice", "mitm"},
                      conn[c].cl = "open", c \notin closing
               PROVE  Verdict(conn[c], policy) /\ c \in tunnels /\ conn[c].ip \notin Private
    BY DEF TunnelsObeyPolicy
  <2>1. Abides(conn[c], policy, gen) /\ Registered(c)  BY DEF GInv
  <2>2. Carrying(conn[c]) /\ Judged(conn[c])  BY DEF Carrying, Judged
  <2>3. c \in tunnels /\ conn[c].gen = gen  BY <2>1, <2>2 DEF Registered
  <2>4. QED  BY <2>1, <2>2, <2>3 DEF Abides
<1>2. QED  BY <1>1, GatewayInit, GatewayNext, PTL DEF Spec

(***************************************************************************)
(* What a flow uploaded is billed when it has ended (gateway.go pipe,      *)
(* handleHTTP; mitm.go serveMITM), whichever side closed first and         *)
(* wherever the flow was when it ended, but for what a CONNECT forwarded   *)
(* before its pipes ran.                                                   *)
(***************************************************************************)
THEOREM Billed == Spec => []UploadBilled
<1>1. GInv => UploadBilled  BY DEF GInv, Account, Settled, UploadBilled
<1>2. QED  BY <1>1, GatewayInit, GatewayNext, PTL DEF Spec

-----------------------------------------------------------------------------
(* The learned floor. *)

Entries == Domains \X (IPs \ Private)

LearnerRec ==
    [st: {"unborn", "live", "closing", "closed"}, nop: BOOLEAN, on: BOOLEAN, allow: SUBSET Domains,
     cap: Nat, tab: [Entries -> {"none", "live", "expired"}], total: Int]

MapRec == [ips: SUBSET IPs, refs: Nat, st: {"unloaded", "tap", "retired", "closed"}]

Write == [op: {"add", "del"}, ip: IPs \ Private, stale: BOOLEAN]

WorkerRec ==
    [pc: {"idle", "asked", "write", "writing", "sweep", "sweeping", "made", "wait"},
     l: Learners \cup {None}, d: Domains \cup {""}, ops: Seq(Write), h: Maps \cup {None},
     via: {"", "tap", "pin"}, api: BOOLEAN, win: Learners \cup {None}]

LearnType ==
    /\ learner \in [Learners -> LearnerRec]
    /\ registered \in Learners \cup {None} /\ own \in Learners \cup {None}
    /\ task \in {"down", "attached", "up", "tearing", "detach", "unpin"}
    /\ map \in [Maps -> MapRec] /\ tap \in Maps \cup {None} /\ pin \in Maps \cup {None}
    /\ worker \in [Workers -> WorkerRec]
    /\ adrift \subseteq IPs /\ replaced \subseteq Learners

\* A goroutine has writes to make exactly while it makes them, and
\* a handle exactly while it uses it.
Shaped(r) ==
    /\ r.ops # <<>> <=> r.pc \in {"write", "writing", "sweep", "sweeping"}
    /\ r.via # "" <=> r.pc \in {"writing", "sweeping"}
    /\ r.via # "" => r.h \in Maps
    /\ r.pc # "idle" => r.l \in Learners
    /\ r.pc = "asked" => r.d \in Domains
    /\ (r.pc = "wait" /\ r.d # "") => r.win \in Learners

Filled(r) == {e \in Entries : r.tab[e] # "none"}

\* A learner's table is counted and capped; one not made yet is blank.
TableOK(r) ==
    /\ r.st = "unborn" => r = Unborn
    /\ IsFiniteSet(Filled(r)) /\ r.total = Cardinality(Filled(r)) /\ r.total <= r.cap

Born(l) == l # None => learner[l].st # "unborn"

\* Whoever names a learner names one that was made; the task's writes the map.
Named ==
    /\ Born(registered) /\ Born(own)
    /\ \A w \in Workers : Born(worker[w].l) /\ Born(worker[w].win)
    /\ own # None => ~learner[own].nop

\* What each stage of the task's life says of its learner, its map and its pin.
Stage ==
    /\ own # None <=> task \in {"up", "tearing", "detach"}
    /\ task \in {"tearing", "detach"} => learner[own].st # "live"
    /\ task \in {"down", "unpin"} => tap = None
    /\ task = "down" => pin = None
    /\ task \in {"attached", "up", "tearing", "detach"} => pin = tap

Holders(m) == {w \in Workers : worker[w].via = "tap" /\ worker[w].h = m}

\* The references of a map are the goroutines that hold it.
MapOK(m) ==
    /\ IsFiniteSet(Holders(m)) /\ Cardinality(Holders(m)) = map[m].refs
    /\ map[m].st = "unloaded" => map[m].ips = {}
    /\ map[m].st = "retired" => map[m].refs > 0
    /\ map[m].st = "closed" => map[m].refs = 0
    /\ map[m].st = "tap" <=> tap = m

Hands ==
    /\ \A m \in Maps : MapOK(m)
    /\ pin # None => map[pin].st # "unloaded"
    /\ \A w \in Workers : worker[w].via # "" => map[worker[w].h].st # "unloaded"

IsLive(r, ip) == \E e \in Entries : e[2] = ip /\ r.tab[e] = "live"
InTable(r, ip) == \E e \in Entries : e[2] = ip /\ r.tab[e] # "none"

Queued(ws, l, kind, ip) ==
    \E w \in Workers : ws[w].l = l /\ \E i \in DOMAIN ws[w].ops : ws[w].ops[i].op = kind /\ ws[w].ops[i].ip = ip

\* A queued write that nothing overtook still says what the table says.
Due(r, o) == ~o.stale => /\ o.op = "add" => InTable(r, o.ip)
                         /\ o.op = "del" => ~IsLive(r, o.ip)

\* The goroutine writes the task's map, and what it writes is due or overtaken.
Serves(x, r, m) ==
    /\ x.via # "" => x.h = m
    /\ \A i \in DOMAIN x.ops : Due(r, x.ops[i])

Floor ==
    /\ (task = "attached" /\ tap # None) => map[tap].ips \subseteq adrift
    /\ own # None => \A w \in Workers : worker[w].l = own => Serves(worker[w], learner[own], tap)
    /\ (own # None /\ tap # None) => \A ip \in IPs :
           /\ IsLive(learner[own], ip) => ip \in map[tap].ips \cup adrift \/ Queued(worker, own, "add", ip)
           /\ ip \in map[tap].ips => ip \in adrift \/ InTable(learner[own], ip) \/ Queued(worker, own, "del", ip)

Known ==
    \A l \in Learners :
        learner[l].st = "live" => \/ l \in {registered, own} \cup replaced
                                  \/ \E w \in Workers : worker[w].pc = "made" /\ worker[w].l = l

LInv ==
    /\ LearnType
    /\ \A w \in Workers : Shaped(worker[w])
    /\ \A l \in Learners : TableOK(learner[l])
    /\ Named /\ Stage /\ Hands /\ Floor /\ Known

-----------------------------------------------------------------------------
(* Facts about the operators. *)

LEMMA LearnerNumbers == None \notin Learners /\ None \notin Maps /\ Learners \subseteq Nat /\ Maps \subseteq Nat
BY LearnAssumption DEF None, Learners, Maps

LEMMA SeqElement == ASSUME NEW S, NEW q \in Seq(S), NEW i \in DOMAIN q  PROVE q # <<>> /\ q[i] \in S /\ i \in 1..Len(q)
OBVIOUS

\* A finite set in some order.
LEMMA SeqOfSet ==
    ASSUME NEW S, IsFiniteSet(S)
    PROVE  /\ SetToSeq(S) \in Seq(S)
           /\ {SetToSeq(S)[i] : i \in DOMAIN SetToSeq(S)} = S
           /\ SetToSeq(S) = <<>> <=> S = {}
<1>1. PICK n \in Nat : n = Cardinality(S)  BY FS_CardinalityType
<1>2. Bijection(1..n, S) # {}  BY <1>1, FS_CardinalityType DEF ExistsBijection
<1>3. PICK g : g \in Bijection(1..n, S)  BY <1>2
<1>4. g \in [1..n -> S] /\ IsInjective(g)  BY <1>3 DEF Bijection, Injection
<1>5. PICK f : f = SetToSeq(S)  OBVIOUS
<1>6. f \in [1..n -> S] /\ IsInjective(f)  BY <1>1, <1>4, <1>5 DEF SetToSeq
<1>7. f \in Injection(1..n, S)  BY <1>6 DEF Injection
<1>8. Cardinality(1..n) = n  BY FS_Interval
<1>9. f \in Surjection(1..n, S)  BY <1>1, <1>7, <1>8, FS_Injection
<1>10. \A t \in S : \E i \in 1..n : f[i] = t  BY <1>9 DEF Surjection
<1>11. f \in Seq(S) /\ DOMAIN f = 1..n  BY <1>6
<1>12. {f[i] : i \in DOMAIN f} = S  BY <1>6, <1>10, <1>11
<1>13. f = <<>> <=> S = {}  BY <1>10, <1>11, <1>12
<1>14. QED  BY <1>5, <1>11, <1>12, <1>13

\* The writes queued for a set of addresses.
LEMMA WritesOf ==
    ASSUME NEW kind \in {"add", "del"}, NEW ips \in SUBSET (IPs \ Private)
    PROVE  /\ Writes(kind, ips) \in Seq(Write)
           /\ \A i \in DOMAIN Writes(kind, ips) :
                 Writes(kind, ips)[i].op = kind /\ ~Writes(kind, ips)[i].stale /\ Writes(kind, ips)[i].ip \in ips
           /\ \A ip \in ips : \E i \in DOMAIN Writes(kind, ips) :
                 Writes(kind, ips)[i].ip = ip /\ Writes(kind, ips)[i].op = kind
           /\ Writes(kind, ips) = <<>> <=> ips = {}
<1>1. PICK S : S = {[op |-> kind, ip |-> ip, stale |-> FALSE] : ip \in ips}  OBVIOUS
<1>2. IsFiniteSet(ips)  BY LearnAssumption, FS_Subset
<1>3. IsFiniteSet(S)
  <2>1. PICK f : f = [ip \in ips |-> [op |-> kind, ip |-> ip, stale |-> FALSE]]  OBVIOUS
  <2>2. f \in Surjection(ips, S)  BY <1>1, <2>1 DEF Surjection
  <2>3. QED  BY <1>2, <2>2, FS_Surjection
<1>4. ASSUME NEW x \in S  PROVE x \in Write
  <2>1. PICK ip \in ips : x = [op |-> kind, ip |-> ip, stale |-> FALSE]  BY <1>1
  <2>2. ip \in IPs \ Private  OBVIOUS
  <2>3. QED  BY <2>1, <2>2 DEF Write
<1>5. PICK q : q = Writes(kind, ips)  OBVIOUS
<1>6. q = SetToSeq(S)  BY <1>1, <1>5 DEF Writes
<1>7. q \in Seq(S) /\ {q[i] : i \in DOMAIN q} = S /\ (q = <<>> <=> S = {})  BY <1>3, <1>6, SeqOfSet
<1>8. q \in Seq(Write)  BY <1>4, <1>7
<1>9. ASSUME NEW i \in DOMAIN q  PROVE q[i].op = kind /\ ~q[i].stale /\ q[i].ip \in ips
  <2>1. q[i] \in S  BY <1>7
  <2>2. QED  BY <1>1, <2>1
<1>10. ASSUME NEW ip \in ips  PROVE \E i \in DOMAIN q : q[i].ip = ip /\ q[i].op = kind
  <2>1. [op |-> kind, ip |-> ip, stale |-> FALSE] \in S  BY <1>1
  <2>2. PICK i \in DOMAIN q : q[i] = [op |-> kind, ip |-> ip, stale |-> FALSE]  BY <1>7, <2>1
  <2>3. QED  BY <2>2
<1>11. S = {} <=> ips = {}  BY <1>1
<1>12. QED  BY <1>5, <1>7, <1>8, <1>9, <1>10, <1>11

-----------------------------------------------------------------------------
(* What a step leaves alone. *)

\* One goroutine moves on.
LEMMA OneWorker ==
    ASSUME LInv, NEW w \in Workers, NEW r \in WorkerRec, Shaped(r), worker' = [worker EXCEPT ![w] = r]
    PROVE  /\ worker' \in [Workers -> WorkerRec] /\ \A v \in Workers : Shaped(worker'[v])
           /\ worker'[w] = r /\ \A v \in Workers \ {w} : worker'[v] = worker[v]
<1>1. worker \in [Workers -> WorkerRec]  BY DEF LInv, LearnType
<1>2. worker' \in [Workers -> WorkerRec]  BY <1>1
<1>3. worker'[w] = r /\ \A v \in Workers \ {w} : worker'[v] = worker[v]  BY <1>1
<1>4. \A v \in Workers : Shaped(worker'[v])  BY <1>3 DEF LInv
<1>5. QED  BY <1>2, <1>3, <1>4

\* One learner changes.
LEMMA OneLearner ==
    ASSUME LInv, NEW l \in Learners, NEW r \in LearnerRec, TableOK(r), learner' = [learner EXCEPT ![l] = r]
    PROVE  /\ learner' \in [Learners -> LearnerRec] /\ \A k \in Learners : TableOK(learner'[k])
           /\ learner'[l] = r /\ \A k \in Learners \ {l} : learner'[k] = learner[k]
<1>1. learner \in [Learners -> LearnerRec]  BY DEF LInv, LearnType
<1>2. learner' \in [Learners -> LearnerRec]  BY <1>1
<1>3. learner'[l] = r /\ \A k \in Learners \ {l} : learner'[k] = learner[k]  BY <1>1
<1>4. \A k \in Learners : TableOK(learner'[k])  BY <1>3 DEF LInv
<1>5. QED  BY <1>2, <1>3, <1>4

\* The switch, the allowlist or the life of a learner changes, not its table.
LEMMA TableKept ==
    ASSUME NEW r \in LearnerRec, TableOK(r), NEW x \in LearnerRec, r.st # "unborn", x.st # "unborn",
           x.tab = r.tab, x.total = r.total, x.cap = r.cap
    PROVE  TableOK(x)
<1>1. Filled(x) = Filled(r)  BY DEF Filled
<1>2. QED  BY <1>1 DEF TableOK

LEMMA NamedKept ==
    ASSUME LInv, own' = own,
           \A l \in Learners : learner[l].st # "unborn" => learner'[l].st # "unborn" /\ learner'[l].nop = learner[l].nop,
           Born(registered)', \A w \in Workers : Born(worker[w].l)' /\ Born(worker[w].win)'
    PROVE  Named'
<1>1. own # None => own \in Learners  BY DEF LInv, LearnType
<1>2. Born(own)'  BY <1>1 DEF Born, LInv, Named
<1>3. own' # None => ~learner'[own'].nop  BY <1>1 DEF Born, LInv, Named
<1>4. QED  BY <1>2, <1>3 DEF Named

\* A name that was good stays good.
LEMMA BornStays ==
    ASSUME LInv, NEW l \in Learners \cup {None}, Born(l),
           \A k \in Learners : learner[k].st # "unborn" => learner'[k].st # "unborn"
    PROVE  l # None => learner'[l].st # "unborn"
BY DEF Born

LEMMA StageKept ==
    ASSUME LInv, UNCHANGED <<own, task, tap, pin>>,
           \A l \in Learners : learner[l].st \notin {"live", "unborn"} => learner'[l].st # "live"
    PROVE  Stage'
<1>1. own # None => own \in Learners  BY DEF LInv, LearnType
<1>2. own # None => learner[own].st # "unborn"  BY DEF LInv, Named, Born
<1>3. QED  BY <1>1, <1>2 DEF LInv, Stage

LEMMA HandsKept ==
    ASSUME LInv, UNCHANGED <<map, tap>>, pin' \in {pin, None},
           \A w \in Workers : worker'[w].via = worker[w].via /\ (worker[w].via # "" => worker'[w].h = worker[w].h)
    PROVE  Hands'
<1>1. ASSUME NEW m \in Maps  PROVE MapOK(m)'
  <2>1. Holders(m)' = Holders(m)
    <3>1. \A w \in Workers : worker'[w].via = "tap" /\ worker'[w].h = m <=> worker[w].via = "tap" /\ worker[w].h = m
      OBVIOUS
    <3>2. QED  BY <3>1 DEF Holders
  <2>2. MapOK(m)  BY DEF LInv, Hands
  <2>3. QED  BY <2>1, <2>2 DEF MapOK
<1>2. pin' # None => map'[pin'].st # "unloaded"  BY DEF LInv, Hands
<1>3. \A w \in Workers : worker'[w].via # "" => map'[worker'[w].h].st # "unloaded"  BY DEF LInv, Hands
<1>4. QED  BY <1>1, <1>2, <1>3 DEF Hands

LEMMA KnownKept ==
    ASSUME LInv, UNCHANGED <<registered, own, replaced>>,
           \A l \in Learners : learner'[l].st = "live" => learner[l].st = "live",
           \A w \in Workers : worker[w].pc = "made" => worker'[w].pc = "made" /\ worker'[w].l = worker[w].l
    PROVE  Known'
BY DEF LInv, Known

\* The tables of the task's learner, the maps and the queued writes stay.
LEMMA FloorKept ==
    ASSUME LInv, UNCHANGED <<own, tap, adrift>>, task' = "attached" => task = "attached",
           \A m \in Maps : map'[m].ips = map[m].ips,
           own # None => \A ip \in IPs :
               /\ IsLive(learner'[own], ip) => IsLive(learner[own], ip)
               /\ InTable(learner'[own], ip) <=> InTable(learner[own], ip),
           \A w \in Workers : worker'[w].ops = worker[w].ops /\ (worker[w].ops # <<>> => worker'[w].l = worker[w].l),
           \A w \in Workers : (own # None /\ worker'[w].l = own /\ worker'[w].via # "") => worker'[w].h = tap
    PROVE  Floor'
<1>1. worker \in [Workers -> WorkerRec] /\ tap \in Maps \cup {None}  BY DEF LInv, LearnType
<1>2. (task' = "attached" /\ tap' # None) => map'[tap'].ips \subseteq adrift'  BY <1>1 DEF LInv, Floor
<1>3. ASSUME own # None, NEW w \in Workers, worker'[w].l = own  PROVE Serves(worker'[w], learner'[own], tap)
  <2>1. ASSUME NEW i \in DOMAIN worker'[w].ops  PROVE Due(learner'[own], worker'[w].ops[i])
    <3>1. worker[w].ops \in Seq(Write)  BY <1>1 DEF WorkerRec
    <3>2. worker[w].ops # <<>> /\ worker'[w].ops = worker[w].ops  BY <2>1, <3>1, SeqElement
    <3>3. worker[w].l = own  BY <1>3, <3>2
    <3>4. Serves(worker[w], learner[own], tap)  BY <1>3, <3>3 DEF LInv, Floor
    <3>5. PICK o : o = worker[w].ops[i]  OBVIOUS
    <3>6. Due(learner[own], o)  BY <2>1, <3>2, <3>4, <3>5 DEF Serves
    <3>7. o \in Write  BY <2>1, <3>2, <3>5, <3>1, SeqElement
    <3>8. o.ip \in IPs  BY <3>7 DEF Write
    <3>9. Due(learner'[own], o)  BY <1>3, <3>6, <3>8 DEF Due
    <3>10. QED  BY <3>2, <3>5, <3>9
  <2>2. QED  BY <1>3, <2>1 DEF Serves
<1>4. ASSUME own # None, tap # None, NEW ip \in IPs
      PROVE  /\ IsLive(learner'[own], ip) => ip \in map'[tap].ips \cup adrift \/ Queued(worker', own, "add", ip)
             /\ ip \in map'[tap].ips => ip \in adrift \/ InTable(learner'[own], ip) \/ Queued(worker', own, "del", ip)
  <2>1. ASSUME NEW kind, Queued(worker, own, kind, ip)  PROVE Queued(worker', own, kind, ip)
    <3>1. PICK w \in Workers : worker[w].l = own /\ \E i \in DOMAIN worker[w].ops :
                                  worker[w].ops[i].op = kind /\ worker[w].ops[i].ip = ip
      BY <2>1 DEF Queued
    <3>2. worker[w].ops \in Seq(Write)  BY <1>1 DEF WorkerRec
    <3>3. worker[w].ops # <<>>  BY <3>1, <3>2, SeqElement
    <3>4. worker'[w].l = own /\ worker'[w].ops = worker[w].ops  BY <3>1, <3>3
    <3>5. QED  BY <3>1, <3>4 DEF Queued
  <2>2. map'[tap].ips = map[tap].ips  BY <1>1, <1>4
  <2>3. QED  BY <1>4, <2>1, <2>2 DEF LInv, Floor
<1>5. QED  BY <1>2, <1>3, <1>4 DEF Floor

\* The parts of the invariant.
LEMMA Parts ==
    ASSUME LInv
    PROVE  /\ LearnType /\ Named /\ Stage /\ Hands /\ Floor /\ Known
           /\ learner \in [Learners -> LearnerRec] /\ map \in [Maps -> MapRec] /\ worker \in [Workers -> WorkerRec]
           /\ \A w \in Workers : worker[w] \in WorkerRec /\ Shaped(worker[w])
           /\ \A l \in Learners : learner[l] \in LearnerRec /\ TableOK(learner[l])
BY DEF LInv, LearnType

LEMMA NoWrites == <<>> \in Seq(Write)
OBVIOUS

LEMMA IdleOK == Idle \in WorkerRec /\ Shaped(Idle)
<1>1. Idle \in WorkerRec  BY DEF Idle, WorkerRec
<1>2. QED  BY <1>1 DEF Idle, Shaped, None

\* A goroutine that starts on something.
LEMMA StartsOK ==
    ASSUME NEW pc \in {"asked", "made", "wait"}, NEW l \in Learners, NEW d \in Domains \cup {""}, NEW api \in BOOLEAN,
           pc = "asked" => d \in Domains, pc = "wait" => d = "", NEW r,
           r = [pc |-> pc, l |-> l, d |-> d, ops |-> <<>>, h |-> None, via |-> "", api |-> api, win |-> None]
    PROVE  r \in WorkerRec /\ Shaped(r)
<1>1. <<>> \in Seq(Write)  BY NoWrites
<1>2. r \in WorkerRec  BY <1>1 DEF WorkerRec
<1>3. QED  BY <1>1, <1>2, LearnerNumbers DEF Shaped

-----------------------------------------------------------------------------
(* The steps. *)

\* In ls no learner's table has changed, and none that was made is unmade.
KeptAs(ls) ==
    /\ ls \in [Learners -> LearnerRec] /\ \A k \in Learners : TableOK(ls[k])
    /\ \A k \in Learners : ls[k].tab = learner[k].tab
    /\ \A k \in Learners : learner[k].st # "unborn" => ls[k].st # "unborn" /\ ls[k].nop = learner[k].nop

NotRevived(ls) == \A k \in Learners : ls[k].st = "live" => learner[k].st = "live"

LearnersKept == KeptAs(learner')
NoneRevived == NotRevived(learner')

\* No goroutine gains or loses a write or a handle.
QueuesKept ==
    /\ worker' \in [Workers -> WorkerRec] /\ \A v \in Workers : Shaped(worker'[v])
    /\ \A v \in Workers : /\ worker'[v].ops = worker[v].ops /\ worker'[v].via = worker[v].via
                          /\ worker[v].via # "" => worker'[v].h = worker[v].h
                          /\ worker[v].ops # <<>> => worker'[v].l = worker[v].l

\* Goroutine w is now r, the others are as they were.
Becomes(w, r) == worker'[w] = r /\ \A v \in Workers \ {w} : worker'[v] = worker[v]

LEMMA LearnersStay == ASSUME LInv, UNCHANGED learner  PROVE LearnersKept /\ NoneRevived
BY Parts DEF LearnersKept, NoneRevived, KeptAs, NotRevived

LEMMA QueuesStay == ASSUME LInv, UNCHANGED worker  PROVE QueuesKept
BY Parts DEF QueuesKept

\* A goroutine without writes or a handle moves on, and has none after.
LEMMA FreeWorker ==
    ASSUME LInv, NEW w \in Workers, NEW r \in WorkerRec, Shaped(r), worker' = [worker EXCEPT ![w] = r],
           worker[w].pc \in {"idle", "asked", "made", "wait"}, r.ops = <<>>, r.via = ""
    PROVE  QueuesKept /\ Becomes(w, r)
<1>1. /\ worker' \in [Workers -> WorkerRec] /\ \A v \in Workers : Shaped(worker'[v])
      /\ worker'[w] = r /\ \A v \in Workers \ {w} : worker'[v] = worker[v]
  BY OneWorker
<1>2. worker[w].ops = <<>> /\ worker[w].via = ""  BY Parts DEF Shaped
<1>3. QED  BY <1>1, <1>2 DEF QueuesKept, Becomes

\* The registered learner, and the task's, are ones that were made.
LEMMA RegisteredBorn ==
    ASSUME LInv, registered # None  PROVE registered \in Learners /\ learner[registered].st # "unborn"
BY Parts DEF LearnType, Named, Born

LEMMA OwnBorn ==
    ASSUME LInv, own # None  PROVE own \in Learners /\ learner[own].st # "unborn" /\ ~learner[own].nop
BY Parts DEF LearnType, Named, Born

LEMMA WorkerBorn ==
    ASSUME LInv, NEW w \in Workers, worker[w].pc # "idle"
    PROVE  worker[w].l \in Learners /\ learner[worker[w].l].st # "unborn"
BY Parts, LearnerNumbers DEF Shaped, Named, Born

LEMMA WorkersBorn ==
    ASSUME LInv, LearnersKept, NEW w \in Workers, NEW r \in WorkerRec, Becomes(w, r),
           r.l # None => learner'[r.l].st # "unborn", r.win # None => learner'[r.win].st # "unborn"
    PROVE  \A v \in Workers : Born(worker[v].l)' /\ Born(worker[v].win)'
<1> SUFFICES ASSUME NEW v \in Workers  PROVE Born(worker[v].l)' /\ Born(worker[v].win)'  OBVIOUS
<1>1. CASE v = w  BY <1>1 DEF Born, Becomes
<1>2. CASE v # w
  <2>1. worker'[v] = worker[v] /\ Born(worker[v].l) /\ Born(worker[v].win)  BY <1>2, Parts DEF Named, Becomes
  <2>2. worker[v].l \in Learners \cup {None} /\ worker[v].win \in Learners \cup {None}  BY Parts DEF WorkerRec
  <2>3. QED  BY <2>1, <2>2 DEF Born, LearnersKept, KeptAs
<1>3. QED  BY <1>1, <1>2

LEMMA AllStillBorn ==
    ASSUME LInv, LearnersKept, UNCHANGED worker
    PROVE  \A v \in Workers : Born(worker[v].l)' /\ Born(worker[v].win)'
<1> SUFFICES ASSUME NEW v \in Workers  PROVE Born(worker[v].l)' /\ Born(worker[v].win)'  OBVIOUS
<1>1. worker'[v] = worker[v] /\ Born(worker[v].l) /\ Born(worker[v].win)  BY Parts DEF Named
<1>2. worker[v].l \in Learners \cup {None} /\ worker[v].win \in Learners \cup {None}  BY Parts DEF WorkerRec
<1>3. QED  BY <1>1, <1>2 DEF Born, LearnersKept, KeptAs

\* No table, map or queue changes.
LEMMA QuietStep ==
    ASSUME LInv, LearnersKept, QueuesKept,
           UNCHANGED <<own, map, tap, adrift, replaced>>, pin' \in {pin, None},
           registered' \in Learners \cup {None},
           task' \in {"down", "attached", "up", "tearing", "detach", "unpin"},
           task' = "attached" => task = "attached",
           Born(registered)', \A v \in Workers : Born(worker[v].l)' /\ Born(worker[v].win)', Stage', Known'
    PROVE  LInv'
<1>1. LearnType'  BY Parts DEF LearnType, LearnersKept, KeptAs, QueuesKept
<1>2. Named'  BY NamedKept DEF LearnersKept, KeptAs
<1>3. Hands'  BY HandsKept DEF QueuesKept
<1>4. Floor'
  <2>1. ASSUME own # None, NEW ip \in IPs
        PROVE  /\ IsLive(learner'[own], ip) => IsLive(learner[own], ip)
               /\ InTable(learner'[own], ip) <=> InTable(learner[own], ip)
    <3>1. learner'[own].tab = learner[own].tab  BY <2>1, Parts DEF LearnType, LearnersKept, KeptAs
    <3>2. QED  BY <3>1 DEF IsLive, InTable
  <2>2. ASSUME NEW v \in Workers, own # None, worker'[v].l = own, worker'[v].via # ""  PROVE worker'[v].h = tap
    <3>1. worker[v].via # "" /\ worker[v].ops # <<>>  BY <2>2, Parts DEF Shaped, QueuesKept
    <3>2. worker'[v].h = worker[v].h /\ worker[v].l = own  BY <2>2, <3>1 DEF QueuesKept
    <3>3. Serves(worker[v], learner[own], tap)  BY <2>2, <3>2, Parts DEF Floor
    <3>4. QED  BY <3>1, <3>2, <3>3 DEF Serves
  <2>3. QED  BY <2>1, <2>2, FloorKept DEF QueuesKept
<1>5. QED  BY <1>1, <1>2, <1>3, <1>4 DEF LInv, LearnersKept, KeptAs, QueuesKept

\* A handler changes learners and goes on with one of them.
LEMMA HandlerMoves ==
    ASSUME LInv, LearnersKept, NoneRevived,
           NEW w \in Workers, NEW r \in WorkerRec, Shaped(r), worker' = [worker EXCEPT ![w] = r],
           worker[w].pc \in {"idle", "asked", "wait"}, r.ops = <<>>, r.via = "",
           r.l # None => learner'[r.l].st # "unborn", r.win # None => learner'[r.win].st # "unborn",
           UNCHANGED <<registered, own, task, map, tap, pin, adrift, replaced>>
    PROVE  LInv'
<1>1. QueuesKept /\ Becomes(w, r)  BY FreeWorker
<1>2. \A v \in Workers : Born(worker[v].l)' /\ Born(worker[v].win)'  BY <1>1, WorkersBorn
<1>3. Born(registered)'  BY Parts, RegisteredBorn DEF Born, LearnersKept, KeptAs
<1>4. Stage'  BY StageKept DEF NoneRevived, NotRevived
<1>5. Known'
  <2>1. \A v \in Workers : worker[v].pc = "made" => worker'[v].pc = "made" /\ worker'[v].l = worker[v].l
    BY <1>1 DEF Becomes
  <2>2. QED  BY <2>1, KnownKept DEF NoneRevived, NotRevived
<1>6. QED  BY <1>1, <1>2, <1>3, <1>4, <1>5, QuietStep, Parts DEF LearnType

LEMMA QueryInv ==
    ASSUME LInv, NEW w \in Workers, NEW l \in Learners, NEW d \in Domains, Query(w, l, d) PROVE LInv'
<1>1. PICK r : r = [Idle EXCEPT !.pc = "asked", !.l = l, !.d = d]  OBVIOUS
<1>2. r = [pc |-> "asked", l |-> l, d |-> d, ops |-> <<>>, h |-> None, via |-> "", api |-> FALSE, win |-> None]
  BY <1>1 DEF Idle
<1>3. r \in WorkerRec /\ Shaped(r) /\ r.ops = <<>> /\ r.via = "" /\ r.l = l /\ r.win = None  BY <1>2, StartsOK
<1>4. LearnersKept /\ NoneRevived /\ learner'[l].st = "live"  BY LearnersStay DEF Query
<1>5. /\ worker[w].pc = "idle" /\ worker' = [worker EXCEPT ![w] = r]
      /\ UNCHANGED <<registered, own, task, map, tap, pin, adrift, replaced>>
  BY <1>1 DEF Query
<1>6. QED  BY <1>3, <1>4, <1>5, HandlerMoves

LEMMA NoAnswerInv == ASSUME LInv, NEW w \in Workers, NoAnswer(w) PROVE LInv'
<1>1. Idle.ops = <<>> /\ Idle.via = "" /\ Idle.l = None /\ Idle.win = None  BY DEF Idle
<1>2. LearnersKept /\ NoneRevived  BY LearnersStay DEF NoAnswer
<1>3. /\ worker[w].pc = "asked" /\ worker' = [worker EXCEPT ![w] = Idle]
      /\ UNCHANGED <<registered, own, task, map, tap, pin, adrift, replaced>>
  BY DEF NoAnswer
<1>4. QED  BY <1>1, <1>2, <1>3, IdleOK, HandlerMoves

\* A learner that was made changes its switch, its allowlist or its life.
LEMMA LearnerChanges ==
    ASSUME LInv, NEW ls, KeptAs(ls), NotRevived(ls), NEW l \in Learners, learner[l].st # "unborn",
           NEW r \in LearnerRec, r.tab = ls[l].tab, r.total = ls[l].total, r.cap = ls[l].cap, r.nop = ls[l].nop,
           r.st # "unborn", r.st = "live" => ls[l].st = "live",
           NEW to \in [Learners -> LearnerRec], to[l] = r, \A k \in Learners \ {l} : to[k] = ls[k]
    PROVE  KeptAs(to) /\ NotRevived(to)
<1>1. PICK x \in LearnerRec : x = ls[l]  BY DEF KeptAs
<1>2. TableOK(x) /\ x.st # "unborn"  BY <1>1 DEF KeptAs
<1>3. TableOK(r)  BY <1>1, <1>2, TableKept
<1>4. ASSUME NEW k \in Learners
      PROVE  /\ TableOK(to[k]) /\ to[k].tab = learner[k].tab
             /\ learner[k].st # "unborn" => to[k].st # "unborn" /\ to[k].nop = learner[k].nop
             /\ to[k].st = "live" => learner[k].st = "live"
  <2>1. CASE k = l  BY <1>1, <1>3, <2>1 DEF KeptAs, NotRevived
  <2>2. CASE k # l  BY <2>2 DEF KeptAs, NotRevived
  <2>3. QED  BY <2>1, <2>2
<1>5. QED  BY <1>4 DEF KeptAs, NotRevived

LEMMA SameKept == ASSUME LInv  PROVE KeptAs(learner) /\ NotRevived(learner)
BY Parts DEF KeptAs, NotRevived

\* AddAllow.
LEMMA Allows ==
    ASSUME LInv, NEW ls, KeptAs(ls), NotRevived(ls), NEW l \in Learners, learner[l].st # "unborn",
           NEW d \in Domains, learner' = [ls EXCEPT ![l].allow = @ \cup {d}]
    PROVE  LearnersKept /\ NoneRevived /\ learner'[l].st # "unborn"
<1>1. PICK x \in LearnerRec : x = ls[l]  BY DEF KeptAs
<1>2. PICK A \in SUBSET Domains : A = x.allow \cup {d}  BY <1>1 DEF LearnerRec
<1>3. PICK r : r = [x EXCEPT !.allow = A]  OBVIOUS
<1>4. r \in LearnerRec /\ r.tab = x.tab /\ r.total = x.total /\ r.cap = x.cap /\ r.nop = x.nop /\ r.st = x.st
  BY <1>1, <1>2, <1>3 DEF LearnerRec
<1>5. learner' = [ls EXCEPT ![l] = r]  BY <1>1, <1>2, <1>3 DEF KeptAs
<1>6. x.st # "unborn"  BY <1>1 DEF KeptAs
<1>7. PICK to : to = [ls EXCEPT ![l] = r]  OBVIOUS
<1>8. to \in [Learners -> LearnerRec] /\ to[l] = r /\ \A k \in Learners \ {l} : to[k] = ls[k]
  BY <1>4, <1>7 DEF KeptAs
<1>9. KeptAs(to) /\ NotRevived(to)  BY <1>1, <1>4, <1>6, <1>8, LearnerChanges
<1>10. QED  BY <1>4, <1>5, <1>6, <1>7, <1>9, <1>8 DEF LearnersKept, NoneRevived

\* A handler that goes on to ask upstream.
Asking(l, d) == [Idle EXCEPT !.pc = "asked", !.l = l, !.d = d, !.api = TRUE]

LEMMA Asks ==
    ASSUME NEW l \in Learners, NEW d \in Domains
    PROVE  /\ Asking(l, d) \in WorkerRec /\ Shaped(Asking(l, d))
           /\ Asking(l, d).ops = <<>> /\ Asking(l, d).via = "" /\ Asking(l, d).l = l /\ Asking(l, d).win = None
<1>1. PICK r : r = Asking(l, d)  OBVIOUS
<1>2. r = [pc |-> "asked", l |-> l, d |-> d, ops |-> <<>>, h |-> None, via |-> "", api |-> TRUE, win |-> None]
  BY <1>1 DEF Idle, Asking
<1>3. r \in WorkerRec /\ Shaped(r)  BY <1>2, StartsOK
<1>4. r.ops = <<>> /\ r.via = "" /\ r.l = l /\ r.win = None  BY <1>2
<1>5. QED  BY <1>1, <1>3, <1>4

LEMMA PostAllowInv == ASSUME LInv, NEW w \in Workers, NEW d \in Domains, PostAllow(w, d) PROVE LInv'
<1>1. registered \in Learners /\ learner[registered].st # "unborn"  BY RegisteredBorn DEF PostAllow
<1>2. LearnersKept /\ NoneRevived /\ learner'[registered].st # "unborn"  BY <1>1, SameKept, Allows DEF PostAllow
<1>3. PICK r : r = Asking(registered, d)  OBVIOUS
<1>4. r \in WorkerRec /\ Shaped(r) /\ r.ops = <<>> /\ r.via = "" /\ r.l = registered /\ r.win = None
  BY <1>1, <1>3, Asks
<1>5. /\ worker[w].pc = "idle" /\ worker' = [worker EXCEPT ![w] = r]
      /\ UNCHANGED <<registered, own, task, map, tap, pin, adrift, replaced>>
  BY <1>3 DEF PostAllow, Asking
<1>6. QED  BY <1>2, <1>4, <1>5, HandlerMoves

\* The least of a set of numbers is one of them.
LEMMA LeastMember == ASSUME NEW S \in SUBSET Nat, S # {}  PROVE Least(S) \in S
<1>1. PICK R : R = {e \in Nat \X Nat : e[1] < e[2]}  OBVIOUS
<1>2. IsWellFoundedOn(R, Nat)  BY <1>1, NatLessThanWellFounded, Zenon DEF OpToRel
<1>3. PICK x \in S : \A y \in S : <<y, x>> \notin R  BY <1>2, WFMin
<1>4. ASSUME NEW y \in S  PROVE x <= y
  <2>1. x \in Nat /\ y \in Nat /\ <<y, x>> \notin R  BY <1>3
  <2>2. PICK e : e = <<y, x>>  OBVIOUS
  <2>3. e \in Nat \X Nat /\ e[1] = y /\ e[2] = x  BY <2>1, <2>2
  <2>4. QED  BY <1>1, <2>1, <2>2, <2>3
<1>5. QED  BY <1>4 DEF Least

\* A learner is made.
LEMMA LearnerMade ==
    ASSUME LInv, NEW l \in FreshLearner, NEW cap \in Caps, NEW nop \in BOOLEAN, NEW allow \in SUBSET Domains,
           learner' = [learner EXCEPT ![l] = [@ EXCEPT !.st = "live", !.nop = nop, !.allow = allow, !.cap = cap]]
    PROVE  /\ l \in Learners /\ LearnersKept
           /\ learner'[l].st = "live" /\ learner'[l].nop = nop
           /\ \A ip \in IPs : ~InTable(learner'[l], ip)
           /\ \A k \in Learners \ {l} : learner'[k] = learner[k]
<1>1. l \in Learners /\ learner[l].st = "unborn"  BY DEF FreshLearner
<1>2. learner[l] = Unborn  BY <1>1, Parts DEF TableOK
<1>3. PICK r : r = [Unborn EXCEPT !.st = "live", !.nop = nop, !.allow = allow, !.cap = cap]  OBVIOUS
<1>4. r = [st |-> "live", nop |-> nop, on |-> TRUE, allow |-> allow, cap |-> cap,
           tab |-> [e \in Entries |-> "none"], total |-> 0]
  BY <1>3 DEF Unborn, Entries
<1>5. cap \in Nat  BY LearnAssumption
<1>6. r \in LearnerRec /\ r.st = "live" /\ r.nop = nop /\ r.tab = Unborn.tab /\ r.total = 0 /\ r.cap = cap
  BY <1>4, <1>5 DEF LearnerRec, Unborn, Entries
<1>7. Filled(r) = {}  BY <1>4 DEF Filled
<1>8. TableOK(r)  BY <1>5, <1>6, <1>7, FS_EmptySet DEF TableOK
<1>9. learner' = [learner EXCEPT ![l] = r]  BY <1>2, <1>3
<1>10. /\ learner' \in [Learners -> LearnerRec] /\ \A k \in Learners : TableOK(learner'[k])
       /\ learner'[l] = r /\ \A k \in Learners \ {l} : learner'[k] = learner[k]
  BY <1>1, <1>6, <1>8, <1>9, OneLearner
<1>11. \A e \in Entries : r.tab[e] = "none"  BY <1>4
<1>12. \A ip \in IPs : ~InTable(learner'[l], ip)  BY <1>10, <1>11 DEF InTable
<1>13. \A k \in Learners : learner'[k].tab = learner[k].tab  BY <1>2, <1>6, <1>10
<1>14. LearnersKept  BY <1>1, <1>10, <1>13 DEF LearnersKept, KeptAs
<1>15. QED  BY <1>1, <1>6, <1>10, <1>12, <1>14

LEMMA EnsureInv ==
    ASSUME LInv, NEW w \in Workers, NEW d \in Domains \cup {""}, NEW D \in SUBSET Domains, ensureDNSLearner(w, d, D)
    PROVE  LInv'
<1>1. PICK l : l = Least(FreshLearner)  OBVIOUS
<1>2. FreshLearner # {} /\ FreshLearner \in SUBSET Nat  BY LearnerNumbers DEF ensureDNSLearner, FreshLearner
<1>3. l \in FreshLearner  BY <1>1, <1>2, LeastMember
<1>4. PICK cap \in Caps : learner' =
          [learner EXCEPT ![l].st = "live", ![l].nop = TRUE, ![l].allow = D, ![l].cap = cap]
  BY <1>1 DEF ensureDNSLearner
<1>5. l \in Learners /\ l \in DOMAIN learner  BY <1>3, Parts DEF FreshLearner
<1>6. learner' = [learner EXCEPT ![l] = [@ EXCEPT !.st = "live", !.nop = TRUE, !.allow = D, !.cap = cap]]
  BY <1>4, <1>5
<1>7. LearnersKept /\ learner'[l].st = "live" /\ \A k \in Learners \ {l} : learner'[k] = learner[k]
  BY <1>3, <1>6, LearnerMade
<1>8. PICK r : r = [Idle EXCEPT !.pc = "made", !.l = l, !.d = d, !.api = TRUE]  OBVIOUS
<1>9. r = [pc |-> "made", l |-> l, d |-> d, ops |-> <<>>, h |-> None, via |-> "", api |-> TRUE, win |-> None]
  BY <1>8 DEF Idle
<1>10. r \in WorkerRec /\ Shaped(r)  BY <1>5, <1>9, StartsOK
<1>11. /\ worker[w].pc = "idle" /\ worker' = [worker EXCEPT ![w] = r]
       /\ UNCHANGED <<registered, own, task, map, tap, pin, adrift, replaced>>
  BY <1>1, <1>8 DEF ensureDNSLearner
<1>12. r.ops = <<>> /\ r.via = "" /\ r.l = l /\ r.win = None /\ r.pc = "made"  BY <1>9
<1>13. QueuesKept /\ Becomes(w, r)  BY <1>10, <1>11, <1>12, FreeWorker
<1>14. \A v \in Workers : Born(worker[v].l)' /\ Born(worker[v].win)'  BY <1>7, <1>10, <1>12, <1>13, WorkersBorn
<1>15. Born(registered)'  BY <1>7, <1>11, RegisteredBorn DEF Born, LearnersKept, KeptAs
<1>16. Stage'
  <2>1. \A k \in Learners : learner[k].st \notin {"live", "unborn"} => learner'[k].st # "live"
    BY <1>3, <1>7 DEF FreshLearner
  <2>2. QED  BY <1>11, <2>1, StageKept
<1>17. Known'
  <2>1. \A v \in Workers : worker[v].pc = "made" => worker'[v].pc = "made" /\ worker'[v].l = worker[v].l
    BY <1>11, <1>13 DEF Becomes
  <2>2. ASSUME NEW k \in Learners, learner'[k].st = "live"
        PROVE  \/ k \in {registered', own'} \cup replaced'
               \/ \E v \in Workers : worker'[v].pc = "made" /\ worker'[v].l = k
    <3>1. CASE k = l  BY <1>12, <1>13, <3>1 DEF Becomes
    <3>2. CASE k # l
      <4>1. learner[k].st = "live"  BY <1>7, <2>2, <3>2
      <4>2. \/ k \in {registered, own} \cup replaced
            \/ \E v \in Workers : worker[v].pc = "made" /\ worker[v].l = k
        BY <4>1, Parts DEF Known
      <4>3. QED  BY <1>11, <2>1, <4>2
    <3>3. QED  BY <3>1, <3>2
  <2>3. QED  BY <2>2 DEF Known
<1>18. QED  BY <1>7, <1>11, <1>13, <1>14, <1>15, <1>16, <1>17, QuietStep, Parts DEF LearnType

\* The goroutine of a handler after Promote: done, or asking upstream.
LEMMA Promotes ==
    ASSUME LInv, LearnersKept, NEW w \in Workers, worker[w].pc \in {"made", "wait"}, NEW l,
           NEW d \in Domains \cup {""}, d # "" => l \in Learners /\ learner'[l].st # "unborn",
           worker' = [worker EXCEPT ![w] = IF d = "" THEN Idle ELSE Asking(l, d)]
    PROVE  /\ QueuesKept
           /\ \E r \in WorkerRec : /\ Becomes(w, r) /\ (r.l # None => learner'[r.l].st # "unborn")
                                   /\ r.win = None
<1>1. PICK r : r = IF d = "" THEN Idle ELSE Asking(l, d)  OBVIOUS
<1>2. r \in WorkerRec /\ Shaped(r) /\ r.ops = <<>> /\ r.via = "" /\ (r.l # None => learner'[r.l].st # "unborn") /\ r.win = None
  <2>1. CASE d = ""
    <3>1. Idle.ops = <<>> /\ Idle.via = "" /\ Idle.l = None /\ Idle.win = None  BY DEF Idle
    <3>2. QED  BY <1>1, <2>1, <3>1, IdleOK
  <2>2. CASE d # ""  BY <1>1, <2>2, Asks
  <2>3. QED  BY <2>1, <2>2
<1>3. worker' = [worker EXCEPT ![w] = r]  BY <1>1
<1>4. QueuesKept /\ Becomes(w, r)  BY <1>2, <1>3, FreeWorker
<1>5. QED  BY <1>2, <1>4

\* Close.
LEMMA Closes ==
    ASSUME LInv, NEW l \in Learners, learner[l].st # "unborn", learner' = Close(l)
    PROVE  /\ LearnersKept /\ NoneRevived /\ learner'[l].st # "live" /\ learner'[l].st # "unborn"
           /\ \A k \in Learners \ {l} : learner'[k] = learner[k]
<1>1. CASE learner[l].st = "live"
  <2>1. PICK x \in LearnerRec : x = learner[l]  BY Parts
  <2>2. PICK r : r = [x EXCEPT !.st = "closing"]  OBVIOUS
  <2>3. r \in LearnerRec /\ r.tab = x.tab /\ r.total = x.total /\ r.cap = x.cap /\ r.nop = x.nop /\ r.st = "closing"
    BY <2>1, <2>2 DEF LearnerRec
  <2>4. PICK to : to = [learner EXCEPT ![l] = r]  OBVIOUS
  <2>5. learner' = to  BY <1>1, <2>1, <2>2, <2>4, Parts DEF Close
  <2>6. to \in [Learners -> LearnerRec] /\ to[l] = r /\ \A k \in Learners \ {l} : to[k] = learner[k]
    BY <2>3, <2>4, Parts
  <2>7. KeptAs(to) /\ NotRevived(to)  BY <2>1, <2>3, <2>6, <1>1, SameKept, LearnerChanges
  <2>8. QED  BY <2>3, <2>5, <2>6, <2>7 DEF LearnersKept, NoneRevived
<1>2. CASE learner[l].st # "live"
  <2>1. learner' = learner  BY <1>2 DEF Close
  <2>2. QED  BY <1>2, <2>1, LearnersStay
<1>3. QED  BY <1>1, <1>2

LEMMA GetOrCreateInv == ASSUME LInv, NEW w \in Workers, GetOrCreate(w) PROVE LInv'
<1>1. worker[w].pc = "made" /\ UNCHANGED <<own, task, map, tap, pin, left, adrift, replaced>>  BY DEF GetOrCreate
<1>2. PICK l \in Learners : l = worker[w].l  BY <1>1, WorkerBorn
<1>3. learner[l].st # "unborn"  BY <1>1, <1>2, WorkerBorn
<1>4. pin' \in {pin, None} /\ task' = task /\ task' \in {"down", "attached", "up", "tearing", "detach", "unpin"}
  BY <1>1, Parts DEF LearnType
<1>5. CASE registered = None
  <2>1. registered' = l /\ Promote(learner, w, l)  BY <1>2, <1>5 DEF GetOrCreate
  <2>2. PICK d \in Domains \cup {""} : d = worker[w].d  BY Parts DEF WorkerRec
  <2>3. LearnersKept /\ NoneRevived
    <3>1. CASE d = ""  BY <2>1, <2>2, <3>1, LearnersStay DEF Promote
    <3>2. CASE d # ""
      <4>1. d \in Domains /\ learner' = [learner EXCEPT ![l].allow = @ \cup {d}]  BY <2>1, <2>2, <3>2 DEF Promote
      <4>2. QED  BY <1>3, <4>1, SameKept, Allows
    <3>3. QED  BY <3>1, <3>2
  <2>4. worker' = [worker EXCEPT ![w] = IF d = "" THEN Idle ELSE Asking(l, d)]  BY <2>1, <2>2 DEF Promote, Asking
  <2>5. learner'[l].st # "unborn"  BY <1>3, <2>3 DEF LearnersKept, KeptAs
  <2>6. QueuesKept /\ \E r \in WorkerRec : /\ Becomes(w, r) /\ (r.l # None => learner'[r.l].st # "unborn")
                                          /\ r.win = None
    BY <1>1, <2>3, <2>4, <2>5, Promotes
  <2>7. PICK r \in WorkerRec : Becomes(w, r) /\ (r.l # None => learner'[r.l].st # "unborn") /\ r.win = None  BY <2>6
  <2>8. \A v \in Workers : Born(worker[v].l)' /\ Born(worker[v].win)'  BY <2>3, <2>7, WorkersBorn
  <2>9. Born(registered)'  BY <2>1, <2>5 DEF Born
  <2>10. Stage'  BY <1>1, <2>3, StageKept DEF NoneRevived, NotRevived
  <2>11. Known'
    <3>1. ASSUME NEW k \in Learners, learner'[k].st = "live"
          PROVE  \/ k \in {registered', own'} \cup replaced'
                 \/ \E v \in Workers : worker'[v].pc = "made" /\ worker'[v].l = k
      <4>1. learner[k].st = "live"  BY <2>3, <3>1 DEF NoneRevived, NotRevived
      <4>2. CASE k \in {registered, own} \cup replaced  BY <1>1, <1>5, <4>2, LearnerNumbers
      <4>3. CASE \E v \in Workers : worker[v].pc = "made" /\ worker[v].l = k
        BY <1>2, <2>1, <2>7, <4>3 DEF Becomes
      <4>4. QED  BY <4>1, <4>2, <4>3, Parts DEF Known
    <3>2. QED  BY <3>1 DEF Known
  <2>12. registered' \in Learners \cup {None}  BY <2>1
  <2>13. QED  BY <1>1, <1>4, <2>3, <2>6, <2>8, <2>9, <2>10, <2>11, <2>12, QuietStep
<1>6. CASE registered # None
  <2>1. /\ learner' = Close(l) /\ worker' = [worker EXCEPT ![w].pc = "wait", ![w].win = registered]
        /\ registered' = registered
    BY <1>2, <1>6 DEF GetOrCreate
  <2>2. /\ LearnersKept /\ NoneRevived /\ learner'[l].st # "live"
        /\ \A k \in Learners \ {l} : learner'[k] = learner[k]
    BY <1>3, <2>1, Closes
  <2>3. PICK x \in WorkerRec : x = worker[w]  BY Parts
  <2>4. PICK r : r = [x EXCEPT !.pc = "wait", !.win = registered]  OBVIOUS
  <2>5. registered \in Learners /\ learner[registered].st # "unborn"  BY <1>6, RegisteredBorn
  <2>6. x.ops = <<>> /\ x.via = "" /\ x.l = l  BY <1>1, <1>2, <2>3, Parts DEF Shaped
  <2>7. r \in WorkerRec /\ r.ops = <<>> /\ r.via = "" /\ r.l = l /\ r.win = registered /\ r.pc = "wait"
    BY <2>3, <2>4, <2>5, <2>6 DEF WorkerRec
  <2>8. Shaped(r)  BY <2>5, <2>7 DEF Shaped
  <2>9. worker' = [worker EXCEPT ![w] = r]  BY <2>1, <2>3, <2>4, Parts
  <2>10. QueuesKept /\ Becomes(w, r)  BY <1>1, <2>7, <2>8, <2>9, FreeWorker
  <2>11. learner'[l].st # "unborn" /\ learner'[registered].st # "unborn"  BY <1>3, <2>2, <2>5 DEF LearnersKept, KeptAs
  <2>12. \A v \in Workers : Born(worker[v].l)' /\ Born(worker[v].win)'  BY <2>2, <2>7, <2>10, <2>11, WorkersBorn
  <2>13. Born(registered)'  BY <2>1, <2>11 DEF Born
  <2>14. Stage'  BY <1>1, <2>2, StageKept DEF NoneRevived, NotRevived
  <2>15. Known'
    <3>1. ASSUME NEW k \in Learners, learner'[k].st = "live"
          PROVE  \/ k \in {registered', own'} \cup replaced'
                 \/ \E v \in Workers : worker'[v].pc = "made" /\ worker'[v].l = k
      <4>1. learner[k].st = "live" /\ k # l  BY <2>2, <3>1 DEF NoneRevived, NotRevived
      <4>2. CASE k \in {registered, own} \cup replaced  BY <1>1, <2>1, <4>2
      <4>3. CASE \E v \in Workers : worker[v].pc = "made" /\ worker[v].l = k
        BY <1>2, <2>10, <4>1, <4>3 DEF Becomes
      <4>4. QED  BY <4>1, <4>2, <4>3, Parts DEF Known
    <3>2. QED  BY <3>1 DEF Known
  <2>16. registered' \in Learners \cup {None}  BY <2>1, <2>5
  <2>17. QED  BY <1>1, <1>4, <2>2, <2>10, <2>12, <2>13, <2>14, <2>15, <2>16, QuietStep
<1>7. QED  BY <1>5, <1>6

LEMMA PutPolicyInv == ASSUME LInv, NEW on \in BOOLEAN, NEW D \in SUBSET Domains, PutPolicy(on, D) PROVE LInv'
<1>1. registered \in Learners /\ learner[registered].st # "unborn"  BY RegisteredBorn DEF PutPolicy
<1>2. UNCHANGED <<registered, own, task, map, tap, pin, worker, adrift, replaced>>  BY DEF PutPolicy
<1>3. LearnersKept /\ NoneRevived
  <2>1. PICK l \in Learners : l = registered  BY <1>1
  <2>2. PICK x \in LearnerRec : x = learner[l]  BY Parts
  <2>3. PICK A \in SUBSET Domains : A = x.allow \cup D  BY <2>2 DEF LearnerRec
  <2>4. PICK r : r = [x EXCEPT !.on = on, !.allow = A]  OBVIOUS
  <2>5. r \in LearnerRec /\ r.tab = x.tab /\ r.total = x.total /\ r.cap = x.cap /\ r.nop = x.nop /\ r.st = x.st
    BY <2>2, <2>3, <2>4 DEF LearnerRec
  <2>6. PICK to : to = [learner EXCEPT ![l] = r]  OBVIOUS
  <2>7. learner' = [learner EXCEPT ![l].on = on, ![l].allow = @ \cup D]  BY <2>1 DEF PutPolicy
  <2>8. learner' = to  BY <2>2, <2>3, <2>4, <2>6, <2>7, Parts
  <2>9. to \in [Learners -> LearnerRec] /\ to[l] = r /\ \A k \in Learners \ {l} : to[k] = learner[k]
    BY <2>5, <2>6, Parts
  <2>10. KeptAs(to) /\ NotRevived(to)  BY <1>1, <2>1, <2>2, <2>5, <2>9, SameKept, LearnerChanges
  <2>11. QED  BY <2>8, <2>10 DEF LearnersKept, NoneRevived
<1>4. QueuesKept  BY <1>2, QueuesStay
<1>5. \A v \in Workers : Born(worker[v].l)' /\ Born(worker[v].win)'  BY <1>2, <1>3, AllStillBorn
<1>6. Born(registered)'  BY <1>1, <1>2, <1>3 DEF Born, LearnersKept, KeptAs
<1>7. Stage'  BY <1>2, <1>3, StageKept DEF NoneRevived, NotRevived
<1>8. Known'  BY <1>2, <1>3, KnownKept DEF NoneRevived, NotRevived
<1>9. QED  BY <1>2, <1>3, <1>4, <1>5, <1>6, <1>7, <1>8, QuietStep, Parts DEF LearnType

LEMMA DeletePolicyInv == ASSUME LInv, NEW w \in Workers, DeletePolicy(w) PROVE LInv'
<1>1. registered \in Learners /\ learner[registered].st # "unborn"  BY RegisteredBorn DEF DeletePolicy
<1>2. PICK l \in Learners : l = registered  BY <1>1
<1>3. /\ worker[w].pc = "idle" /\ learner' = Close(l) /\ registered' = None
      /\ UNCHANGED <<own, task, map, tap, pin, adrift, replaced>>
  BY <1>2 DEF DeletePolicy
<1>4. /\ LearnersKept /\ NoneRevived /\ learner'[l].st # "live" /\ learner'[l].st # "unborn"
  BY <1>1, <1>2, <1>3, Closes
<1>5. PICK r : r = [Idle EXCEPT !.pc = "wait", !.l = l, !.api = TRUE]  OBVIOUS
<1>6. r = [pc |-> "wait", l |-> l, d |-> "", ops |-> <<>>, h |-> None, via |-> "", api |-> TRUE, win |-> None]
  BY <1>5 DEF Idle
<1>7. r \in WorkerRec /\ Shaped(r) /\ r.ops = <<>> /\ r.via = "" /\ r.l = l /\ r.win = None  BY <1>6, StartsOK
<1>8. worker' = [worker EXCEPT ![w] = r]  BY <1>2, <1>5 DEF DeletePolicy
<1>9. QueuesKept /\ Becomes(w, r)  BY <1>3, <1>7, <1>8, FreeWorker
<1>10. \A v \in Workers : Born(worker[v].l)' /\ Born(worker[v].win)'  BY <1>4, <1>7, <1>9, WorkersBorn
<1>11. Born(registered)'  BY <1>3 DEF Born
<1>12. Stage'  BY <1>3, <1>4, StageKept DEF NoneRevived, NotRevived
<1>13. Known'
  <2>1. ASSUME NEW k \in Learners, learner'[k].st = "live"
        PROVE  \/ k \in {registered', own'} \cup replaced'
               \/ \E v \in Workers : worker'[v].pc = "made" /\ worker'[v].l = k
    <3>1. learner[k].st = "live" /\ k # registered  BY <1>2, <1>4, <2>1 DEF NoneRevived, NotRevived
    <3>2. CASE k \in {registered, own} \cup replaced  BY <1>3, <3>1, <3>2
    <3>3. CASE \E v \in Workers : worker[v].pc = "made" /\ worker[v].l = k
      BY <1>3, <1>9, <3>3 DEF Becomes
    <3>4. QED  BY <3>1, <3>2, <3>3, Parts DEF Known
  <2>2. QED  BY <2>1 DEF Known
<1>14. /\ pin' \in {pin, None} /\ registered' \in Learners \cup {None} /\ task' = task
       /\ task' \in {"down", "attached", "up", "tearing", "detach", "unpin"}
  BY <1>3, Parts DEF LearnType
<1>15. QED  BY <1>3, <1>4, <1>9, <1>10, <1>11, <1>12, <1>13, <1>14, QuietStep

LEMMA WaitedInv == ASSUME LInv, NEW w \in Workers, Waited(w) PROVE LInv'
<1>1. worker[w].pc = "wait" /\ UNCHANGED <<registered, own, task, map, tap, pin, left, adrift, replaced>>  BY DEF Waited
<1>2. PICK l \in Learners : l = worker[w].l  BY <1>1, WorkerBorn
<1>3. learner[l].st # "unborn"  BY <1>1, <1>2, WorkerBorn
<1>4. PICK ls : ls = [learner EXCEPT ![l].st = "closed"]  OBVIOUS
<1>5. KeptAs(ls) /\ NotRevived(ls)
  <2>1. PICK x \in LearnerRec : x = learner[l]  BY Parts
  <2>2. PICK r : r = [x EXCEPT !.st = "closed"]  OBVIOUS
  <2>3. r \in LearnerRec /\ r.tab = x.tab /\ r.total = x.total /\ r.cap = x.cap /\ r.nop = x.nop /\ r.st = "closed"
    BY <2>1, <2>2 DEF LearnerRec
  <2>4. ls = [learner EXCEPT ![l] = r]  BY <1>4, <2>1, <2>2, Parts
  <2>5. ls \in [Learners -> LearnerRec] /\ ls[l] = r /\ \A k \in Learners \ {l} : ls[k] = learner[k]
    BY <2>3, <2>4, Parts
  <2>6. QED  BY <1>3, <2>1, <2>3, <2>5, SameKept, LearnerChanges
<1>6. PICK d \in Domains \cup {""} : d = worker[w].d  BY Parts DEF WorkerRec
<1>7. PICK n : n = worker[w].win  OBVIOUS
<1>8. Promote(ls, w, n)  BY <1>2, <1>4, <1>7 DEF Waited
<1>9. d # "" => n \in Learners /\ learner[n].st # "unborn"
  BY <1>1, <1>6, <1>7, Parts, LearnerNumbers DEF Shaped, Named, Born
<1>10. LearnersKept /\ NoneRevived
  <2>1. CASE d = ""  BY <1>5, <1>6, <1>8, <2>1 DEF Promote, LearnersKept, NoneRevived
  <2>2. CASE d # ""
    <3>1. d \in Domains /\ learner' = [ls EXCEPT ![n].allow = @ \cup {d}]  BY <1>6, <1>8, <2>2 DEF Promote
    <3>2. QED  BY <1>5, <1>9, <2>2, <3>1, Allows
  <2>3. QED  BY <2>1, <2>2
<1>11. worker' = [worker EXCEPT ![w] = IF d = "" THEN Idle ELSE Asking(n, d)]  BY <1>6, <1>8 DEF Promote, Asking
<1>12. d # "" => n \in Learners /\ learner'[n].st # "unborn"  BY <1>9, <1>10 DEF LearnersKept, KeptAs
<1>13. QueuesKept /\ \E r \in WorkerRec : /\ Becomes(w, r) /\ (r.l # None => learner'[r.l].st # "unborn")
                                         /\ r.win = None
  BY <1>1, <1>10, <1>11, <1>12, Promotes
<1>14. PICK r \in WorkerRec : Becomes(w, r) /\ (r.l # None => learner'[r.l].st # "unborn") /\ r.win = None  BY <1>13
<1>15. \A v \in Workers : Born(worker[v].l)' /\ Born(worker[v].win)'  BY <1>10, <1>14, WorkersBorn
<1>16. Born(registered)'  BY <1>1, <1>10, RegisteredBorn DEF Born, LearnersKept, KeptAs
<1>17. Stage'  BY <1>1, <1>10, StageKept DEF NoneRevived, NotRevived
<1>18. Known'
  <2>1. \A v \in Workers : worker[v].pc = "made" => worker'[v].pc = "made" /\ worker'[v].l = worker[v].l
    BY <1>1, <1>14 DEF Becomes
  <2>2. QED  BY <1>1, <1>10, <2>1, KnownKept DEF NoneRevived, NotRevived
<1>19. /\ pin' \in {pin, None} /\ registered' \in Learners \cup {None} /\ task' = task
       /\ task' \in {"down", "attached", "up", "tearing", "detach", "unpin"}
  BY <1>1, Parts DEF LearnType
<1>20. QED  BY <1>1, <1>10, <1>13, <1>15, <1>16, <1>17, <1>18, <1>19, QuietStep

\* The task's side: its learner is closed, then the pin removed.
LEMMA TeardownInv == ASSUME LInv, dnsTeardown PROVE LInv'
<1>1. task = "up" /\ own \in Learners /\ learner[own].st # "unborn"  BY Parts, OwnBorn DEF dnsTeardown, Stage
<1>2. UNCHANGED <<own, map, tap, pin, worker, left, adrift, replaced>>  BY DEF dnsTeardown
<1>3. /\ LearnersKept /\ NoneRevived /\ learner'[own].st # "live"  BY <1>1, Closes DEF dnsTeardown
<1>4. registered' \in {registered, None} /\ (registered' # registered => registered = own)  BY DEF dnsTeardown
<1>5. task' \in {"tearing", "detach"}  BY DEF dnsTeardown
<1>6. QueuesKept  BY <1>2, QueuesStay
<1>7. \A v \in Workers : Born(worker[v].l)' /\ Born(worker[v].win)'  BY <1>2, <1>3, AllStillBorn
<1>8. Born(registered)'  BY <1>3, <1>4, RegisteredBorn DEF Born, LearnersKept, KeptAs
<1>9. Stage'  BY <1>1, <1>2, <1>3, <1>5, Parts DEF Stage
<1>10. Known'
  <2>1. ASSUME NEW k \in Learners, learner'[k].st = "live"
        PROVE  \/ k \in {registered', own'} \cup replaced'
               \/ \E v \in Workers : worker'[v].pc = "made" /\ worker'[v].l = k
    <3>1. learner[k].st = "live" /\ k # own  BY <1>3, <2>1 DEF NoneRevived, NotRevived
    <3>2. QED  BY <1>2, <1>4, <3>1, Parts DEF Known
  <2>2. QED  BY <2>1 DEF Known
<1>11. /\ pin' \in {pin, None} /\ registered' \in Learners \cup {None} /\ task' # "attached"
       /\ task' \in {"down", "attached", "up", "tearing", "detach", "unpin"}
  BY <1>2, <1>4, <1>5, Parts DEF LearnType
<1>12. QED  BY <1>2, <1>3, <1>6, <1>7, <1>8, <1>9, <1>10, <1>11, QuietStep

LEMMA TornInv == ASSUME LInv, Torn PROVE LInv'
<1>1. task = "tearing" /\ own \in Learners /\ learner[own].st # "unborn"  BY Parts, OwnBorn DEF Torn, Stage
<1>2. UNCHANGED <<registered, own, map, tap, pin, worker, left, adrift, replaced>> /\ task' = "detach"  BY DEF Torn
<1>3. LearnersKept /\ NoneRevived /\ learner'[own].st # "live"
  <2>1. PICK l \in Learners : l = own  BY <1>1
  <2>2. PICK x \in LearnerRec : x = learner[l]  BY Parts
  <2>3. PICK r : r = [x EXCEPT !.st = "closed"]  OBVIOUS
  <2>4. r \in LearnerRec /\ r.tab = x.tab /\ r.total = x.total /\ r.cap = x.cap /\ r.nop = x.nop /\ r.st = "closed"
    BY <2>2, <2>3 DEF LearnerRec
  <2>5. PICK to : to = [learner EXCEPT ![l] = r]  OBVIOUS
  <2>6. learner' = to  BY <2>1, <2>2, <2>3, <2>5, Parts DEF Torn
  <2>7. to \in [Learners -> LearnerRec] /\ to[l] = r /\ \A k \in Learners \ {l} : to[k] = learner[k]
    BY <2>4, <2>5, Parts
  <2>8. KeptAs(to) /\ NotRevived(to)  BY <1>1, <2>1, <2>2, <2>4, <2>7, SameKept, LearnerChanges
  <2>9. QED  BY <2>1, <2>4, <2>6, <2>7, <2>8 DEF LearnersKept, NoneRevived
<1>4. QueuesKept  BY <1>2, QueuesStay
<1>5. \A v \in Workers : Born(worker[v].l)' /\ Born(worker[v].win)'  BY <1>2, <1>3, AllStillBorn
<1>6. Born(registered)'  BY <1>2, <1>3, RegisteredBorn DEF Born, LearnersKept, KeptAs
<1>7. Stage'  BY <1>1, <1>2, <1>3, Parts DEF Stage
<1>8. Known'  BY <1>2, <1>3, KnownKept DEF NoneRevived, NotRevived
<1>9. QED  BY <1>2, <1>3, <1>4, <1>5, <1>6, <1>7, <1>8, QuietStep, Parts DEF LearnType

LEMMA UnpinInv == ASSUME LInv, Unpin PROVE LInv'
<1>1. task = "unpin" /\ pin' = None /\ task' = "down"
      /\ UNCHANGED <<learner, registered, own, map, tap, worker, left, adrift, replaced>>
  BY DEF Unpin
<1>2. LearnersKept /\ NoneRevived  BY <1>1, LearnersStay
<1>3. QueuesKept  BY <1>1, QueuesStay
<1>4. \A v \in Workers : Born(worker[v].l)' /\ Born(worker[v].win)'  BY <1>1, <1>2, AllStillBorn
<1>5. Born(registered)'  BY <1>1, RegisteredBorn DEF Born
<1>6. Stage'  BY <1>1, Parts DEF Stage
<1>7. Known'  BY <1>1, KnownKept
<1>8. QED  BY <1>1, <1>2, <1>3, <1>4, <1>5, <1>6, <1>7, QuietStep, Parts DEF LearnType

-----------------------------------------------------------------------------
(* The tables. *)

\* The writes of y are those of x, and what has become stale is of this kind and these addresses.
Softened(x, y, kind, ips) ==
    /\ y.pc = x.pc /\ y.l = x.l /\ y.via = x.via /\ y.h = x.h /\ y.win = x.win /\ y.d = x.d
    /\ y.ops \in Seq(Write) /\ DOMAIN y.ops = DOMAIN x.ops
    /\ \A i \in DOMAIN x.ops :
          /\ y.ops[i].op = x.ops[i].op /\ y.ops[i].ip = x.ops[i].ip
          /\ ~y.ops[i].stale => ~x.ops[i].stale /\ ~(x.ops[i].op = kind /\ x.ops[i].ip \in ips)

LEMMA OvertakeOne ==
    ASSUME LInv, NEW kind, NEW ips, NEW v \in Workers
    PROVE  /\ Overtake(kind, ips)[v] \in WorkerRec /\ Shaped(Overtake(kind, ips)[v])
           /\ Softened(worker[v], Overtake(kind, ips)[v], kind, ips)
<1>1. PICK x \in WorkerRec : x = worker[v]  BY Parts
<1>2. Shaped(x)  BY <1>1, Parts
<1>3. PICK q : q = [i \in DOMAIN x.ops |-> IF x.ops[i].op = kind /\ x.ops[i].ip \in ips
                                            THEN [x.ops[i] EXCEPT !.stale = TRUE] ELSE x.ops[i]]
  OBVIOUS
<1>4. PICK y : y = [x EXCEPT !.ops = q]  OBVIOUS
<1>5. Overtake(kind, ips)[v] = y  BY <1>1, <1>3, <1>4 DEF Overtake
<1>6. x.ops \in Seq(Write)  BY DEF WorkerRec
<1>7. ASSUME NEW i \in DOMAIN x.ops
      PROVE  /\ q[i] \in Write /\ q[i].op = x.ops[i].op /\ q[i].ip = x.ops[i].ip
             /\ ~q[i].stale => ~x.ops[i].stale /\ ~(x.ops[i].op = kind /\ x.ops[i].ip \in ips)
  <2>1. PICK o \in Write : o = x.ops[i]  BY <1>6, SeqElement
  <2>2. CASE o.op = kind /\ o.ip \in ips
    <3>1. q[i] = [o EXCEPT !.stale = TRUE]  BY <1>3, <2>1, <2>2
    <3>2. PICK p : p = [o EXCEPT !.stale = TRUE]  OBVIOUS
    <3>3. p \in Write /\ p.op = o.op /\ p.ip = o.ip /\ p.stale = TRUE  BY <2>1, <3>2 DEF Write
    <3>4. QED  BY <2>1, <3>1, <3>2, <3>3
  <2>3. CASE ~(o.op = kind /\ o.ip \in ips)
    <3>1. q[i] = o  BY <1>3, <2>1, <2>3
    <3>2. QED  BY <2>1, <2>3, <3>1
  <2>4. QED  BY <2>2, <2>3
<1>8. PICK n \in Nat : DOMAIN x.ops = 1..n  BY <1>6
<1>9. q \in [1..n -> Write]  BY <1>3, <1>7, <1>8
<1>10. q \in Seq(Write) /\ DOMAIN q = DOMAIN x.ops /\ (q = <<>> <=> x.ops = <<>>)  BY <1>6, <1>8, <1>9
<1>11. /\ y \in WorkerRec /\ y.pc = x.pc /\ y.l = x.l /\ y.via = x.via /\ y.h = x.h /\ y.win = x.win /\ y.d = x.d
       /\ y.ops = q
  BY <1>4, <1>10 DEF WorkerRec
<1>12. Shaped(y)  BY <1>2, <1>10, <1>11 DEF Shaped
<1>13. Softened(x, y, kind, ips)  BY <1>7, <1>10, <1>11 DEF Softened
<1>14. QED  BY <1>1, <1>5, <1>11, <1>12, <1>13

\* A goroutine queues its writes; those of others that it overtakes are marked.
LEMMA Overtakes ==
    ASSUME LInv, NEW w \in Workers, NEW kind, NEW ips, NEW rec \in WorkerRec, rec.ops # <<>> => Shaped(rec),
           worker' = Queue(Overtake(kind, ips), w, rec)
    PROVE  /\ worker' \in [Workers -> WorkerRec] /\ \A v \in Workers : Shaped(worker'[v])
           /\ worker'[w] = IF rec.ops = <<>> THEN Idle ELSE rec
           /\ \A v \in Workers \ {w} : Softened(worker[v], worker'[v], kind, ips)
<1>1. PICK ws : ws = Overtake(kind, ips)  OBVIOUS
<1>2. DOMAIN ws = Workers  BY <1>1 DEF Overtake
<1>3. PICK y : y = IF rec.ops = <<>> THEN Idle ELSE rec  OBVIOUS
<1>4. worker' = [ws EXCEPT ![w] = y]  BY <1>1, <1>3 DEF Queue
<1>5. \A v \in Workers : ws[v] \in WorkerRec /\ Shaped(ws[v]) /\ Softened(worker[v], ws[v], kind, ips)
  BY <1>1, OvertakeOne
<1>6. y \in WorkerRec /\ Shaped(y)  BY <1>3, IdleOK
<1>7. ws \in [Workers -> WorkerRec]
  <2>1. ws = [v \in Workers |-> ws[v]]  BY <1>1 DEF Overtake
  <2>2. QED  BY <1>5, <2>1
<1>8. worker' \in [Workers -> WorkerRec] /\ worker'[w] = y /\ \A v \in Workers \ {w} : worker'[v] = ws[v]
  BY <1>4, <1>6, <1>7
<1>9. \A v \in Workers : Shaped(worker'[v])  BY <1>5, <1>6, <1>8
<1>10. QED  BY <1>3, <1>5, <1>8, <1>9

Other(kind) == IF kind = "add" THEN "del" ELSE "add"

\* What writes of this kind and these addresses must tell the map when table x becomes table r.
Fits(x, r, kind, ips) ==
    /\ \A ip \in ips : (kind = "add" => InTable(r, ip)) /\ (kind = "del" => ~IsLive(r, ip))
    /\ \A ip \in IPs : IsLive(r, ip) => IsLive(x, ip) \/ (kind = "add" /\ ip \in ips)
    /\ \A ip \in IPs : InTable(x, ip) => InTable(r, ip) \/ (kind = "del" /\ ip \in ips)

\* The writes q are of this kind, for these addresses and no others.
Covers(q, kind, ips) ==
    /\ \A i \in DOMAIN q : q[i].op = kind /\ q[i].ip \in ips
    /\ \A ip \in ips : \E i \in DOMAIN q : q[i].op = kind /\ q[i].ip = ip

LEMMA WritesCover ==
    ASSUME NEW kind \in {"add", "del"}, NEW ips \in SUBSET (IPs \ Private), NEW q, q = Writes(kind, ips)
    PROVE  Covers(q, kind, ips) /\ (q = <<>> <=> ips = {})
BY WritesOf DEF Covers

\* The floor when the task's own learner changes its table and queues the writes.
LEMMA FloorOfOwn ==
    ASSUME LInv, UNCHANGED <<own, task, map, tap, adrift>>, own # None, NEW w \in Workers,
           NEW kind \in {"add", "del"}, NEW ips \in SUBSET IPs, NEW r, learner'[own] = r,
           worker[w].ops = <<>>, NEW y, worker'[w] = y, y.via = "",
           \A v \in Workers \ {w} : Softened(worker[v], worker'[v], Other(kind), ips),
           Covers(y.ops, kind, ips), ips # {} => y.l = own, Fits(learner[own], r, kind, ips)
    PROVE  Floor'
<1>1. worker \in [Workers -> WorkerRec] /\ tap \in Maps \cup {None}  BY DEF LInv, LearnType
<1>2. task # "attached"  BY Parts DEF Stage
<1>3. ASSUME NEW v \in Workers, worker'[v].l = own  PROVE Serves(worker'[v], r, tap)
  <2>1. CASE v = w
    <3>1. \A i \in DOMAIN y.ops : Due(r, y.ops[i])  BY DEF Due, Covers, Fits
    <3>2. QED  BY <2>1, <3>1 DEF Serves
  <2>2. CASE v # w
    <3>1. Softened(worker[v], worker'[v], Other(kind), ips)  BY <2>2
    <3>2. worker[v].l = own  BY <1>3, <3>1 DEF Softened
    <3>3. Serves(worker[v], learner[own], tap)  BY <3>2, Parts DEF Floor
    <3>4. worker'[v].via # "" => worker'[v].h = tap  BY <3>1, <3>3 DEF Softened, Serves
    <3>5. ASSUME NEW i \in DOMAIN worker'[v].ops  PROVE Due(r, worker'[v].ops[i])
      <4>1. i \in DOMAIN worker[v].ops  BY <3>1 DEF Softened
      <4>2. PICK o, p : o = worker[v].ops[i] /\ p = worker'[v].ops[i]  OBVIOUS
      <4>3. p.op = o.op /\ p.ip = o.ip /\ (~p.stale => ~o.stale /\ ~(o.op = Other(kind) /\ o.ip \in ips))
        BY <3>1, <4>1, <4>2 DEF Softened
      <4>4. Due(learner[own], o)  BY <3>3, <4>1, <4>2 DEF Serves
      <4>5. worker[v].ops \in Seq(Write)  BY <1>1 DEF WorkerRec
      <4>6. o \in Write  BY <4>1, <4>2, <4>5, SeqElement
      <4>7. o.ip \in IPs /\ o.op \in {"add", "del"}  BY <4>6 DEF Write
      <4>8. Due(r, p)  BY <4>3, <4>4, <4>7 DEF Due, Other, Fits
      <4>9. QED  BY <4>2, <4>8
    <3>6. QED  BY <3>4, <3>5 DEF Serves
  <2>3. QED  BY <2>1, <2>2
<1>4. ASSUME tap # None, NEW ip \in IPs
      PROVE  /\ IsLive(r, ip) => ip \in map[tap].ips \cup adrift \/ Queued(worker', own, "add", ip)
             /\ ip \in map[tap].ips => ip \in adrift \/ InTable(r, ip) \/ Queued(worker', own, "del", ip)
  <2>1. ASSUME NEW k, Queued(worker, own, k, ip)  PROVE Queued(worker', own, k, ip)
    <3>1. PICK v \in Workers : worker[v].l = own /\ \E i \in DOMAIN worker[v].ops :
                                  worker[v].ops[i].op = k /\ worker[v].ops[i].ip = ip
      BY <2>1 DEF Queued
    <3>2. worker[v].ops \in Seq(Write)  BY <1>1 DEF WorkerRec
    <3>3. v # w  BY <3>1, <3>2, SeqElement
    <3>4. Softened(worker[v], worker'[v], Other(kind), ips)  BY <3>3
    <3>5. PICK i \in DOMAIN worker[v].ops : worker[v].ops[i].op = k /\ worker[v].ops[i].ip = ip  BY <3>1
    <3>6. /\ worker'[v].l = own /\ i \in DOMAIN worker'[v].ops
          /\ worker'[v].ops[i].op = k /\ worker'[v].ops[i].ip = ip
      BY <3>1, <3>4, <3>5 DEF Softened
    <3>7. QED  BY <3>6 DEF Queued
  <2>2. ip \in ips => Queued(worker', own, kind, ip)  BY DEF Queued, Covers
  <2>3. /\ IsLive(learner[own], ip) => ip \in map[tap].ips \cup adrift \/ Queued(worker, own, "add", ip)
        /\ ip \in map[tap].ips => ip \in adrift \/ InTable(learner[own], ip) \/ Queued(worker, own, "del", ip)
    BY <1>4, Parts DEF Floor
  <2>4. QED  BY <2>1, <2>2, <2>3 DEF Fits
<1>5. QED  BY <1>2, <1>3, <1>4 DEF Floor

\* The floor when another learner does.
LEMMA FloorOfOthers ==
    ASSUME LInv, UNCHANGED <<own, task, map, tap, adrift>>, NEW w \in Workers, NEW kind, NEW ips,
           own # None => learner'[own] = learner[own] /\ worker'[w].l # own,
           worker[w].ops = <<>>,
           \A v \in Workers \ {w} : Softened(worker[v], worker'[v], kind, ips)
    PROVE  Floor'
<1>1. worker \in [Workers -> WorkerRec] /\ tap \in Maps \cup {None}  BY DEF LInv, LearnType
<1>2. (task' = "attached" /\ tap' # None) => map'[tap'].ips \subseteq adrift'  BY Parts DEF Floor
<1>3. ASSUME own # None, NEW v \in Workers, worker'[v].l = own  PROVE Serves(worker'[v], learner[own], tap)
  <2>1. Softened(worker[v], worker'[v], kind, ips)  BY <1>3
  <2>2. worker[v].l = own  BY <1>3, <2>1 DEF Softened
  <2>3. Serves(worker[v], learner[own], tap)  BY <1>3, <2>2, Parts DEF Floor
  <2>4. worker'[v].via # "" => worker'[v].h = tap  BY <2>1, <2>3 DEF Softened, Serves
  <2>5. ASSUME NEW i \in DOMAIN worker'[v].ops  PROVE Due(learner[own], worker'[v].ops[i])
    <3>1. i \in DOMAIN worker[v].ops  BY <2>1 DEF Softened
    <3>2. PICK o, p : o = worker[v].ops[i] /\ p = worker'[v].ops[i]  OBVIOUS
    <3>3. p.op = o.op /\ p.ip = o.ip /\ (~p.stale => ~o.stale)  BY <2>1, <3>1, <3>2 DEF Softened
    <3>4. Due(learner[own], o)  BY <2>3, <3>1, <3>2 DEF Serves
    <3>5. Due(learner[own], p)  BY <3>3, <3>4 DEF Due
    <3>6. QED  BY <3>2, <3>5
  <2>6. QED  BY <2>4, <2>5 DEF Serves
<1>4. ASSUME NEW k, NEW ip, Queued(worker, own, k, ip)  PROVE Queued(worker', own, k, ip)
  <2>1. PICK v \in Workers : worker[v].l = own /\ \E i \in DOMAIN worker[v].ops :
                                worker[v].ops[i].op = k /\ worker[v].ops[i].ip = ip
    BY <1>4 DEF Queued
  <2>2. worker[v].ops \in Seq(Write)  BY <1>1 DEF WorkerRec
  <2>3. v # w  BY <2>1, <2>2, SeqElement
  <2>4. Softened(worker[v], worker'[v], kind, ips)  BY <2>3
  <2>5. QED  BY <2>1, <2>4 DEF Softened, Queued
<1>5. ASSUME own # None, tap # None, NEW ip \in IPs
      PROVE  /\ IsLive(learner'[own], ip) => ip \in map[tap].ips \cup adrift \/ Queued(worker', own, "add", ip)
             /\ ip \in map[tap].ips => ip \in adrift \/ InTable(learner'[own], ip) \/ Queued(worker', own, "del", ip)
  <2>1. /\ IsLive(learner[own], ip) => ip \in map[tap].ips \cup adrift \/ Queued(worker, own, "add", ip)
        /\ ip \in map[tap].ips => ip \in adrift \/ InTable(learner[own], ip) \/ Queued(worker, own, "del", ip)
    BY <1>5, Parts DEF Floor
  <2>2. QED  BY <1>4, <1>5, <2>1
<1>6. QED  BY <1>2, <1>3, <1>5 DEF Floor

\* A learner changes its table and queues what its map needs.
LEMMA TableStep ==
    ASSUME LInv, NEW l \in Learners, learner[l].st # "unborn",
           NEW r \in LearnerRec, TableOK(r), r.st = learner[l].st, r.nop = learner[l].nop,
           learner' = [learner EXCEPT ![l] = r],
           NEW w \in Workers, worker[w].pc \in {"idle", "asked"}, NEW kind \in {"add", "del"},
           NEW ips \in SUBSET (IPs \ Private), NEW rec \in WorkerRec, rec.pc \in {"write", "sweep"}, rec.l = l,
           rec.via = "", Born(rec.win), ~learner[l].nop => rec.ops = Writes(kind, ips),
           NEW old, old = Other(kind), worker' = Queue(Overtake(old, ips), w, rec), Fits(learner[l], r, kind, ips),
           UNCHANGED <<registered, own, task, map, tap, pin, adrift, replaced>>
    PROVE  LInv'
<1>1. PICK y : y = IF rec.ops = <<>> THEN Idle ELSE rec  OBVIOUS
<1>2. rec.ops # <<>> => Shaped(rec)  BY LearnerNumbers DEF Shaped
<1>3. /\ worker' \in [Workers -> WorkerRec] /\ \A v \in Workers : Shaped(worker'[v])
      /\ worker'[w] = y
      /\ \A v \in Workers \ {w} : Softened(worker[v], worker'[v], old, ips)
  <2>1. /\ worker' \in [Workers -> WorkerRec] /\ \A v \in Workers : Shaped(worker'[v])
        /\ worker'[w] = IF rec.ops = <<>> THEN Idle ELSE rec
        /\ \A v \in Workers \ {w} : Softened(worker[v], worker'[v], old, ips)
    BY <1>2, Overtakes
  <2>2. worker'[w] = y  BY <1>1, <2>1
  <2>3. QED  BY <2>1, <2>2
<1>4. /\ learner' \in [Learners -> LearnerRec] /\ \A k \in Learners : TableOK(learner'[k])
      /\ learner'[l] = r /\ \A k \in Learners \ {l} : learner'[k] = learner[k]
  BY OneLearner
<1>5. y.via = "" /\ (y.ops = <<>> \/ y = rec) /\ (y.l = None \/ y.l = l) /\ Born(y.win) /\ (rec.ops = <<>> => y.ops = <<>>)
  BY <1>1 DEF Idle, Born
<1>6. worker[w].ops = <<>> /\ worker[w].via = ""  BY Parts DEF Shaped
<1>7. LearnType'  BY <1>3, <1>4, Parts DEF LearnType
<1>8. \A k \in Learners : learner'[k].st = learner[k].st /\ learner'[k].nop = learner[k].nop  BY <1>4
<1>9. Named'
  <2>1. ASSUME NEW v \in Workers  PROVE Born(worker[v].l)' /\ Born(worker[v].win)'
    <3>1. worker[v].l \in Learners \cup {None} /\ worker[v].win \in Learners \cup {None}  BY Parts DEF WorkerRec
    <3>2. Born(worker[v].l) /\ Born(worker[v].win)  BY Parts DEF Named
    <3>3. CASE v = w
      <4>1. rec.win \in Learners \cup {None}  BY DEF WorkerRec
      <4>2. y.win \in Learners \cup {None}  BY <1>1, <4>1 DEF Idle
      <4>3. (y.l # None => learner'[y.l].st # "unborn") /\ (y.win # None => learner'[y.win].st # "unborn")
        BY <1>5, <1>8, <4>2 DEF Born
      <4>4. worker'[v] = y  BY <1>3, <3>3
      <4>5. QED  BY <4>3, <4>4 DEF Born
    <3>4. CASE v # w
      <4>1. worker'[v].l = worker[v].l /\ worker'[v].win = worker[v].win  BY <1>3, <3>4 DEF Softened
      <4>2. QED  BY <1>8, <3>1, <3>2, <4>1 DEF Born
    <3>5. QED  BY <3>3, <3>4
  <2>2. Born(registered)'  BY <1>8, RegisteredBorn DEF Born
  <2>3. QED  BY <1>8, <2>1, <2>2, NamedKept
<1>10. Stage'  BY <1>8, StageKept
<1>11. Hands'
  <2>1. ASSUME NEW v \in Workers
        PROVE  worker'[v].via = worker[v].via /\ (worker[v].via # "" => worker'[v].h = worker[v].h)
    <3>1. CASE v = w  BY <1>3, <1>5, <1>6, <3>1
    <3>2. CASE v # w  BY <1>3, <3>2 DEF Softened
    <3>3. QED  BY <3>1, <3>2
  <2>2. QED  BY <2>1, HandsKept
<1>12. Known'
  <2>1. \A v \in Workers : worker[v].pc = "made" => worker'[v].pc = "made" /\ worker'[v].l = worker[v].l
    BY <1>3 DEF Softened
  <2>2. QED  BY <1>8, <2>1, KnownKept
<1>13. Floor'
  <2>1. CASE l = own
    <3>1. ~learner[l].nop /\ own # None  BY <2>1, OwnBorn, LearnerNumbers
    <3>2. Covers(rec.ops, kind, ips) /\ (rec.ops = <<>> <=> ips = {})  BY <3>1, WritesCover
    <3>3. Covers(y.ops, kind, ips)  BY <1>1, <3>2 DEF Idle
    <3>4. ips # {} => y.l = own  BY <1>1, <2>1, <3>2
    <3>5. learner'[own] = r /\ Fits(learner[own], r, kind, ips)  BY <1>4, <2>1
    <3>6. ips \in SUBSET IPs  OBVIOUS
    <3>7. \A v \in Workers \ {w} : Softened(worker[v], worker'[v], Other(kind), ips)  BY <1>3
    <3>8. QED  BY <1>3, <1>5, <1>6, <3>1, <3>3, <3>4, <3>5, <3>6, <3>7, FloorOfOwn
  <2>2. CASE l # own
    <3>1. own # None => learner'[own] = learner[own]  BY <1>4, <2>2, OwnBorn
    <3>2. own # None => worker'[w].l # own  BY <1>3, <1>5, <2>2
    <3>3. QED  BY <1>3, <1>6, <3>1, <3>2, FloorOfOthers
  <2>3. QED  BY <2>1, <2>2
<1>14. QED  BY <1>3, <1>4, <1>7, <1>9, <1>10, <1>11, <1>12, <1>13 DEF LInv

\* Without the entries gone: the table, and the addresses nobody else holds.
Without(x, gone) == [e \in DOMAIN x.tab |-> IF e \in gone THEN "none" ELSE x.tab[e]]
Unheld(x, gone) == {e[2] : e \in {y \in gone : ~ipStillReferenced(Without(x, gone), y[1], y[2])}}

LEMMA EvictFits ==
    ASSUME NEW x \in LearnerRec, NEW gone \in SUBSET Filled(x), NEW r, r.tab = Without(x, gone)
    PROVE  /\ Unheld(x, gone) \in SUBSET (IPs \ Private)
           /\ Fits(x, r, "del", Unheld(x, gone))
           /\ Filled(r) = Filled(x) \ gone
           /\ r.tab \in [Entries -> {"none", "live", "expired"}]
<1>1. x.tab \in [Entries -> {"none", "live", "expired"}] /\ gone \subseteq Entries  BY DEF LearnerRec, Filled
<1>2. r.tab \in [Entries -> {"none", "live", "expired"}]  BY <1>1 DEF Without
<1>3. \A e \in Entries : r.tab[e] = IF e \in gone THEN "none" ELSE x.tab[e]  BY <1>1 DEF Without
<1>4. Filled(r) = Filled(x) \ gone  BY <1>3 DEF Filled
<1>5. \A e \in Entries : e[2] \in IPs \ Private /\ e = <<e[1], e[2]>>  BY DEF Entries
<1>6. Unheld(x, gone) \in SUBSET (IPs \ Private)  BY <1>1, <1>5 DEF Unheld
<1>7. ASSUME NEW ip \in Unheld(x, gone)  PROVE ~IsLive(r, ip)
  <2>1. PICK e \in gone : e[2] = ip /\ ~ipStillReferenced(r.tab, e[1], e[2])  BY DEF Unheld
  <2>2. ASSUME NEW f \in Entries, f[2] = ip, r.tab[f] = "live"  PROVE FALSE
    <3>1. f \in DOMAIN r.tab  BY <1>2
    <3>2. f[1] = e[1]  BY <2>1, <2>2, <3>1 DEF ipStillReferenced
    <3>3. f = e  BY <1>1, <1>5, <2>1, <2>2, <3>2
    <3>4. QED  BY <1>3, <2>1, <2>2, <3>3
  <2>3. QED  BY <2>2 DEF IsLive
<1>8. ASSUME NEW ip \in IPs, IsLive(r, ip)  PROVE IsLive(x, ip)  BY <1>3, <1>8 DEF IsLive
<1>9. ASSUME NEW ip \in IPs, InTable(x, ip)  PROVE InTable(r, ip) \/ ip \in Unheld(x, gone)
  <2>1. PICK e \in Entries : e[2] = ip /\ x.tab[e] # "none"  BY <1>9 DEF InTable
  <2>2. CASE e \notin gone  BY <1>3, <2>1, <2>2 DEF InTable
  <2>3. CASE e \in gone /\ ipStillReferenced(r.tab, e[1], e[2])
    <3>1. PICK f \in DOMAIN r.tab : f[2] = ip /\ r.tab[f] = "live"  BY <2>1, <2>3 DEF ipStillReferenced
    <3>2. f \in Entries  BY <1>2, <3>1
    <3>3. QED  BY <3>1, <3>2 DEF InTable
  <2>4. CASE e \in gone /\ ~ipStillReferenced(r.tab, e[1], e[2])  BY <2>1, <2>4 DEF Unheld
  <2>5. QED  BY <2>2, <2>3, <2>4
<1>10. Fits(x, r, "del", Unheld(x, gone))  BY <1>7, <1>8, <1>9 DEF Fits
<1>11. QED  BY <1>2, <1>4, <1>6, <1>10

LEMMA TakeAway ==
    ASSUME NEW S, IsFiniteSet(S), NEW T \in SUBSET S
    PROVE  /\ IsFiniteSet(T) /\ IsFiniteSet(S \ T) /\ Cardinality(T) \in Nat /\ Cardinality(S) \in Nat
           /\ Cardinality(S \ T) = Cardinality(S) - Cardinality(T)
<1>1. S \cap T = T  OBVIOUS
<1>2. IsFiniteSet(T)  BY FS_Subset
<1>3. Cardinality(T) \in Nat  BY <1>2, FS_CardinalityType
<1>4. Cardinality(S) \in Nat  BY FS_CardinalityType
<1>5. IsFiniteSet(S \ T) /\ Cardinality(S \ T) = Cardinality(S) - Cardinality(S \cap T)  BY FS_Difference
<1>6. QED  BY <1>1, <1>2, <1>3, <1>4, <1>5

LEMMA EvictInv ==
    ASSUME LInv, NEW w \in Workers, worker[w].pc = "idle", NEW l \in Learners, learner[l].st # "unborn",
           NEW gone \in SUBSET Filled(learner[l]), NEW pc \in {"write", "sweep"}, Evict(w, l, gone, pc),
           UNCHANGED <<registered, own, task, map, tap, pin, adrift, replaced>>
    PROVE  LInv'
<1>1. PICK x \in LearnerRec : x = learner[l]  BY Parts
<1>2. TableOK(x) /\ gone \in SUBSET Filled(x) /\ x.st # "unborn"  BY <1>1, Parts
<1>3. PICK ips : ips = Unheld(x, gone)  OBVIOUS
<1>4. PICK n \in Int : n = x.total - Cardinality(gone)
  <2>1. IsFiniteSet(gone)  BY <1>2, FS_Subset DEF TableOK
  <2>2. Cardinality(gone) \in Nat  BY <2>1, FS_CardinalityType
  <2>3. QED  BY <1>1, <2>2 DEF LearnerRec
<1>5. PICK r : r = [x EXCEPT !.tab = Without(x, gone), !.total = n]  OBVIOUS
<1>6. r.tab = Without(x, gone) /\ r.total = n /\ r.cap = x.cap /\ r.st = x.st /\ r.nop = x.nop
  BY <1>1, <1>5 DEF LearnerRec
<1>7. /\ ips \in SUBSET (IPs \ Private) /\ Fits(x, r, "del", ips) /\ Filled(r) = Filled(x) \ gone
      /\ r.tab \in [Entries -> {"none", "live", "expired"}]
  BY <1>2, <1>3, <1>6, EvictFits
<1>8. r \in LearnerRec  BY <1>1, <1>5, <1>6, <1>7 DEF LearnerRec
<1>9. TableOK(r)
  <2>1. IsFiniteSet(Filled(x)) /\ x.total = Cardinality(Filled(x)) /\ x.total <= x.cap  BY <1>2 DEF TableOK
  <2>2. /\ IsFiniteSet(Filled(x) \ gone) /\ Cardinality(gone) \in Nat /\ Cardinality(Filled(x)) \in Nat
        /\ Cardinality(Filled(x) \ gone) = Cardinality(Filled(x)) - Cardinality(gone)
    BY <1>2, <2>1, TakeAway
  <2>3. PICK a, b \in Nat : a = Cardinality(Filled(x)) /\ b = Cardinality(gone)  BY <2>2
  <2>4. IsFiniteSet(Filled(r)) /\ Cardinality(Filled(r)) = a - b  BY <1>7, <2>2, <2>3
  <2>5. x.total \in Int /\ x.cap \in Nat  BY <1>1 DEF LearnerRec
  <2>6. r.total = a - b /\ r.total <= r.cap  BY <1>4, <1>6, <2>1, <2>3, <2>5
  <2>7. QED  BY <1>2, <1>6, <2>4, <2>6 DEF TableOK
<1>10. learner' = [learner EXCEPT ![l] = r]
  <2>1. learner' = [learner EXCEPT ![l].tab = Without(x, gone), ![l].total = @ - Cardinality(gone)]
    BY <1>1 DEF Evict, Without
  <2>2. QED  BY <1>1, <1>4, <1>5, <2>1, Parts
<1>11. PICK sent : sent = IF x.nop THEN {} ELSE ips  OBVIOUS
<1>12. sent \in SUBSET (IPs \ Private)  BY <1>7, <1>11
<1>13. PICK q : q = Writes("del", sent)  OBVIOUS
<1>14. q \in Seq(Write)  BY <1>12, <1>13, WritesOf
<1>15. PICK rec : rec = [Idle EXCEPT !.pc = pc, !.l = l, !.ops = q]  OBVIOUS
<1>16. rec = [pc |-> pc, l |-> l, d |-> "", ops |-> q, h |-> None, via |-> "", api |-> FALSE, win |-> None]
  BY <1>15 DEF Idle
<1>17. rec \in WorkerRec  BY <1>14, <1>16 DEF WorkerRec
<1>18. rec.pc \in {"write", "sweep"} /\ rec.l = l /\ rec.via = "" /\ rec.win = None /\ rec.ops = q  BY <1>16
<1>19. worker' = Queue(Overtake("add", ips), w, rec)
  BY <1>1, <1>3, <1>11, <1>13, <1>15 DEF Evict, Without, Unheld
<1>20. ~learner[l].nop => rec.ops = Writes("del", ips)  BY <1>1, <1>11, <1>13, <1>18
<1>21. PICK kind \in {"add", "del"}, old \in {"add", "del"} : kind = "del" /\ old = "add" /\ old = Other(kind)  BY DEF Other
<1>22. Born(rec.win)  BY <1>18 DEF Born
<1>23. Fits(learner[l], r, kind, ips) /\ (~learner[l].nop => rec.ops = Writes(kind, ips))
       /\ worker' = Queue(Overtake(old, ips), w, rec)
  BY <1>1, <1>7, <1>19, <1>20, <1>21
<1>24. r.st = learner[l].st /\ r.nop = learner[l].nop  BY <1>1, <1>6
<1>25. QED  BY <1>7, <1>8, <1>9, <1>10, <1>17, <1>18, <1>21, <1>22, <1>23, <1>24, TableStep

\* An unborn learner has nothing in its table.
LEMMA FilledBorn == ASSUME LInv, NEW l \in Learners, Filled(learner[l]) # {}  PROVE learner[l].st # "unborn"
<1>1. Filled(Unborn) = {}  BY DEF Filled, Unborn, Entries
<1>2. QED  BY <1>1, Parts DEF TableOK

LEMMA SweepInv == ASSUME LInv, NEW w \in Workers, NEW l \in Learners, sweep(w, l) PROVE LInv'
<1>1. PICK gone : gone = {e \in DOMAIN learner[l].tab : learner[l].tab[e] = "expired"}  OBVIOUS
<1>2. DOMAIN learner[l].tab = Entries  BY Parts DEF LearnerRec
<1>3. gone \in SUBSET Filled(learner[l])  BY <1>1, <1>2 DEF Filled
<1>4. /\ worker[w].pc = "idle" /\ learner[l].st # "unborn" /\ Evict(w, l, gone, "sweep")
      /\ UNCHANGED <<registered, own, task, map, tap, pin, adrift, replaced>>
  BY <1>1 DEF sweep
<1>5. QED  BY <1>3, <1>4, EvictInv

LEMMA DropInv == ASSUME LInv, NEW w \in Workers, NEW d \in Domains, Drop(w, d) PROVE LInv'
<1>1. registered \in Learners /\ learner[registered].st # "unborn"  BY RegisteredBorn DEF Drop
<1>2. PICK l \in Learners : l = registered  BY <1>1
<1>3. PICK gone : gone = {e \in DOMAIN learner[l].tab : e[1] = d /\ learner[l].tab[e] # "none"}  OBVIOUS
<1>4. DOMAIN learner[l].tab = Entries  BY Parts DEF LearnerRec
<1>5. gone \in SUBSET Filled(learner[l])  BY <1>3, <1>4 DEF Filled
<1>6. /\ worker[w].pc = "idle" /\ Evict(w, l, gone, "write")
      /\ UNCHANGED <<registered, own, task, map, tap, pin, adrift, replaced>>
  BY <1>2, <1>3 DEF Drop
<1>7. QED  BY <1>1, <1>2, <1>5, <1>6, EvictInv

LEMMA ExpireInv == ASSUME LInv, NEW l \in Learners, NEW e \in Domains \X (IPs \ Private), Expire(l, e) PROVE LInv'
<1>1. PICK x \in LearnerRec : x = learner[l]  BY Parts
<1>2. UNCHANGED <<registered, own, task, map, tap, pin, worker, left, adrift, replaced>> /\ x.tab[e] = "live"
  BY <1>1 DEF Expire
<1>3. e \in Entries /\ x.tab \in [Entries -> {"none", "live", "expired"}]  BY <1>1 DEF Entries, LearnerRec
<1>4. PICK tab : tab = [x.tab EXCEPT ![e] = "expired"]  OBVIOUS
<1>5. PICK r : r = [x EXCEPT !.tab = tab]  OBVIOUS
<1>6. tab \in [Entries -> {"none", "live", "expired"}] /\ tab[e] = "expired" /\ \A f \in Entries \ {e} : tab[f] = x.tab[f]
  BY <1>3, <1>4
<1>7. r \in LearnerRec /\ r.tab = tab /\ r.total = x.total /\ r.cap = x.cap /\ r.st = x.st /\ r.nop = x.nop
  BY <1>1, <1>5, <1>6 DEF LearnerRec
<1>8. learner' = [learner EXCEPT ![l] = r]
  <2>1. learner' = [learner EXCEPT ![l].tab[e] = "expired"]  BY DEF Expire
  <2>2. QED  BY <1>1, <1>4, <1>5, <2>1, Parts
<1>9. Filled(r) = Filled(x) /\ Filled(x) # {}  BY <1>2, <1>3, <1>6, <1>7 DEF Filled
<1>10. x.st # "unborn"  BY <1>1, <1>9, FilledBorn
<1>11. TableOK(r)  BY <1>1, <1>7, <1>9, <1>10, Parts DEF TableOK
<1>12. /\ learner' \in [Learners -> LearnerRec] /\ \A k \in Learners : TableOK(learner'[k])
       /\ learner'[l] = r /\ \A k \in Learners \ {l} : learner'[k] = learner[k]
  BY <1>7, <1>8, <1>11, OneLearner
<1>13. \A k \in Learners : learner'[k].st = learner[k].st /\ learner'[k].nop = learner[k].nop  BY <1>1, <1>7, <1>12
<1>14. LearnType'  BY <1>2, <1>12, Parts DEF LearnType
<1>15. Named'
  <2>1. ASSUME NEW v \in Workers  PROVE Born(worker[v].l)' /\ Born(worker[v].win)'
    <3>1. worker[v].l \in Learners \cup {None} /\ worker[v].win \in Learners \cup {None}  BY Parts DEF WorkerRec
    <3>2. Born(worker[v].l) /\ Born(worker[v].win)  BY Parts DEF Named
    <3>3. QED  BY <1>2, <1>13, <3>1, <3>2 DEF Born
  <2>2. Born(registered)'  BY <1>2, <1>13, RegisteredBorn DEF Born
  <2>3. QED  BY <1>2, <1>13, <2>1, <2>2, NamedKept
<1>16. Stage'  BY <1>2, <1>13, StageKept
<1>17. Hands'  BY <1>2, HandsKept
<1>18. Known'  BY <1>2, <1>13, KnownKept
<1>19. Floor'
  <2>1. ASSUME NEW ip \in IPs
        PROVE  (IsLive(r, ip) => IsLive(x, ip)) /\ (InTable(r, ip) <=> InTable(x, ip))
    <3>1. \A f \in Entries : (r.tab[f] = "live" => x.tab[f] = "live") /\ (r.tab[f] # "none" <=> x.tab[f] # "none")
      BY <1>2, <1>6, <1>7
    <3>2. QED  BY <3>1 DEF IsLive, InTable
  <2>2. ASSUME own # None, NEW ip \in IPs
        PROVE  /\ IsLive(learner'[own], ip) => IsLive(learner[own], ip)
               /\ InTable(learner'[own], ip) <=> InTable(learner[own], ip)
    <3>1. CASE own = l  BY <1>1, <1>12, <2>1, <3>1
    <3>2. CASE own # l  BY <1>12, <2>2, <3>2, OwnBorn
    <3>3. QED  BY <3>1, <3>2
  <2>3. ASSUME NEW v \in Workers, own # None, worker'[v].l = own, worker'[v].via # ""  PROVE worker'[v].h = tap
    BY <1>2, <2>3, Parts DEF Floor, Serves
  <2>4. QED  BY <1>2, <2>2, <2>3, FloorKept
<1>20. QED  BY <1>2, <1>12, <1>14, <1>15, <1>16, <1>17, <1>18, <1>19, Parts DEF LInv

\* With the addresses put entered for the name d.
With(x, d, put) == [e \in DOMAIN x.tab |-> IF e[1] = d /\ e[2] \in put THEN "live" ELSE x.tab[e]]

\* Of the addresses put for the name d, those of ins were not in the table.
Additions(x, d, put, ins) ==
    /\ \A ip \in ins : x.tab[<<d, ip>>] = "none"
    /\ \A ip \in put \ ins : x.tab[<<d, ip>>] # "none"

Pairs(d, ins) == {<<d, ip>> : ip \in ins}

LEMMA PutFits ==
    ASSUME NEW x \in LearnerRec, NEW d \in Domains, NEW put \in SUBSET (IPs \ Private), NEW ins \in SUBSET put,
           Additions(x, d, put, ins), NEW r, r.tab = With(x, d, put)
    PROVE  /\ Fits(x, r, "add", put)
           /\ Filled(r) = Filled(x) \cup Pairs(d, ins)
           /\ Filled(x) \cap Pairs(d, ins) = {}
           /\ r.tab \in [Entries -> {"none", "live", "expired"}]
<1>1. x.tab \in [Entries -> {"none", "live", "expired"}]  BY DEF LearnerRec
<1>2. r.tab \in [Entries -> {"none", "live", "expired"}]  BY <1>1 DEF With
<1>3. \A e \in Entries : r.tab[e] = IF e[1] = d /\ e[2] \in put THEN "live" ELSE x.tab[e]  BY <1>1 DEF With
<1>4. \A ip \in put : <<d, ip>> \in Entries  BY DEF Entries
<1>5. \A e \in Entries : e[2] \in IPs \ Private /\ e = <<e[1], e[2]>>  BY DEF Entries
<1>6. ASSUME NEW ip \in put  PROVE InTable(r, ip)
  <2>1. PICK e \in Entries : e = <<d, ip>>  BY <1>4
  <2>2. e[1] = d /\ e[2] = ip  BY <2>1
  <2>3. r.tab[e] = "live"  BY <1>3, <2>1, <2>2
  <2>4. QED  BY <2>2, <2>3 DEF InTable
<1>7. ASSUME NEW ip \in IPs, IsLive(r, ip)  PROVE IsLive(x, ip) \/ ip \in put
  <2>1. PICK e \in Entries : e[2] = ip /\ r.tab[e] = "live"  BY <1>7 DEF IsLive
  <2>2. QED  BY <1>3, <2>1 DEF IsLive
<1>8. ASSUME NEW ip \in IPs, InTable(x, ip)  PROVE InTable(r, ip)
  <2>1. PICK e \in Entries : e[2] = ip /\ x.tab[e] # "none"  BY <1>8 DEF InTable
  <2>2. r.tab[e] # "none"  BY <1>3, <2>1
  <2>3. QED  BY <2>1, <2>2 DEF InTable
<1>9. Fits(x, r, "add", put)  BY <1>6, <1>7, <1>8 DEF Fits
<1>10. ASSUME NEW e \in Entries
       PROVE  /\ e \in Filled(r) <=> e \in Filled(x) \/ (e[1] = d /\ e[2] \in ins)
              /\ e \in Pairs(d, ins) <=> e[1] = d /\ e[2] \in ins
              /\ e \in Filled(x) => ~(e[1] = d /\ e[2] \in ins)
  <2>1. e = <<e[1], e[2]>>  BY <1>5
  <2>2. e \in Pairs(d, ins) <=> e[1] = d /\ e[2] \in ins  BY <2>1 DEF Pairs
  <2>3. e \in Filled(x) <=> x.tab[e] # "none"  BY DEF Filled
  <2>4. e \in Filled(r) <=> r.tab[e] # "none"  BY DEF Filled
  <2>5. e[1] = d /\ e[2] \in put => e = <<d, e[2]>>  BY <2>1
  <2>6. e[1] = d /\ e[2] \in ins => x.tab[e] = "none"  BY <2>1, <2>5 DEF Additions
  <2>7. e[1] = d /\ e[2] \in put \ ins => x.tab[e] # "none"  BY <2>1, <2>5 DEF Additions
  <2>8. QED  BY <1>3, <2>2, <2>3, <2>4, <2>6, <2>7
<1>11. Pairs(d, ins) \subseteq Entries /\ Filled(x) \subseteq Entries /\ Filled(r) \subseteq Entries
  BY <1>4 DEF Filled, Pairs
<1>12. QED  BY <1>2, <1>9, <1>10, <1>11

\* As many entries as addresses.
LEMMA PairsCount ==
    ASSUME NEW d, NEW ins, IsFiniteSet(ins)
    PROVE  IsFiniteSet(Pairs(d, ins)) /\ Cardinality(Pairs(d, ins)) = Cardinality(ins)
<1>1. PICK T : T = Pairs(d, ins)  OBVIOUS
<1>2. PICK f : f = [ip \in ins |-> <<d, ip>>]  OBVIOUS
<1>3. f \in [ins -> T]  BY <1>1, <1>2 DEF Pairs
<1>4. \A a, b \in ins : f[a] = f[b] => a = b  BY <1>2
<1>5. \A t \in T : \E a \in ins : f[a] = t  BY <1>1, <1>2 DEF Pairs
<1>6. f \in Injection(ins, T)  BY <1>3, <1>4 DEF Injection, IsInjective
<1>7. f \in Surjection(ins, T)  BY <1>3, <1>5 DEF Surjection
<1>8. QED  BY <1>1, <1>6, <1>7, FS_Surjection

\* The cap leaves room for what is inserted.
LEMMA Inserted ==
    ASSUME NEW x \in LearnerRec, TableOK(x), NEW new, IsFiniteSet(new), NEW ins \in SUBSET new,
           Cardinality(ins) = IF x.total + Cardinality(new) <= x.cap THEN Cardinality(new) ELSE x.cap - x.total
    PROVE  IsFiniteSet(ins) /\ Cardinality(ins) \in Nat /\ x.total + Cardinality(ins) <= x.cap
<1>1. IsFiniteSet(ins)  BY FS_Subset
<1>2. Cardinality(ins) \in Nat  BY <1>1, FS_CardinalityType
<1>3. x.total \in Int /\ x.cap \in Nat  BY DEF LearnerRec
<1>4. QED  BY <1>1, <1>2, <1>3

LEMMA AnswerInv == ASSUME LInv, NEW w \in Workers, NEW S \in SUBSET IPs, Answer(w, S) PROVE LInv'
<1>1. /\ worker[w].pc = "asked" /\ ProcessResponse(w, S)
      /\ UNCHANGED <<registered, own, task, map, tap, pin, left, adrift, replaced>>
  BY DEF Answer
<1>2. PICK l \in Learners : l = worker[w].l  BY <1>1, WorkerBorn
<1>3. PICK d \in Domains : d = worker[w].d  BY <1>1, Parts DEF Shaped
<1>4. PICK x \in LearnerRec : x = learner[l]  BY Parts
<1>5. TableOK(x) /\ x.st # "unborn"  BY <1>1, <1>2, <1>4, Parts, WorkerBorn
<1>6. PICK pub : pub = IF learner[l].on /\ Allowed(l, d) THEN S \ Private ELSE {}  OBVIOUS
<1>7. PICK new : new = {ip \in pub : x.tab[<<d, ip>>] = "none"}  OBVIOUS
<1>8. PICK ins \in SUBSET {ip \in IF learner[worker[w].l].on /\ Allowed(worker[w].l, worker[w].d) THEN S \ Private ELSE {} :
                               learner[worker[w].l].tab[<<worker[w].d, ip>>] = "none"} :
        LET k  == worker[w].l
            c  == worker[w].d
            pb == IF learner[k].on /\ Allowed(k, c) THEN S \ Private ELSE {}
            nw == {ip \in pb : learner[k].tab[<<c, ip>>] = "none"}
            pt == (pb \ nw) \cup ins
        IN  /\ Cardinality(ins) = IF learner[k].total + Cardinality(nw) <= learner[k].cap
                                  THEN Cardinality(nw) ELSE learner[k].cap - learner[k].total
            /\ learner' = [learner EXCEPT
                     ![k].tab = [e \in DOMAIN @ |-> IF e[1] = c /\ e[2] \in pt THEN "live" ELSE @[e]],
                     ![k].total = @ + Cardinality(ins)]
            /\ worker' = Queue(Overtake("del", pt), w,
                      [worker[w] EXCEPT !.pc = "write",
                          !.ops = Writes("add", IF learner[k].nop THEN {} ELSE pt)])
  BY <1>1, Zenon DEF ProcessResponse
<1>9. PICK put : put = (pub \ new) \cup ins  OBVIOUS
<1>10. /\ ins \in SUBSET new
       /\ Cardinality(ins) = IF x.total + Cardinality(new) <= x.cap THEN Cardinality(new) ELSE x.cap - x.total
       /\ learner' = [learner EXCEPT ![l].tab = [e \in DOMAIN @ |-> IF e[1] = d /\ e[2] \in put THEN "live" ELSE @[e]],
                                    ![l].total = @ + Cardinality(ins)]
       /\ worker' = Queue(Overtake("del", put), w,
             [worker[w] EXCEPT !.pc = "write", !.ops = Writes("add", IF x.nop THEN {} ELSE put)])
  BY <1>2, <1>3, <1>4, <1>6, <1>7, <1>8, <1>9
<1>11. put \in SUBSET (IPs \ Private) /\ ins \in SUBSET put /\ new \in SUBSET IPs  BY <1>6, <1>7, <1>9, <1>10
<1>12. IsFiniteSet(new)  BY <1>11, LearnAssumption, FS_Subset
<1>13. IsFiniteSet(ins) /\ Cardinality(ins) \in Nat /\ x.total + Cardinality(ins) <= x.cap
  BY <1>5, <1>10, <1>12, Inserted
<1>14. PICK n \in Int : n = x.total + Cardinality(ins)  BY <1>13 DEF LearnerRec
<1>15. PICK r : r = [x EXCEPT !.tab = With(x, d, put), !.total = n]  OBVIOUS
<1>16. r.tab = With(x, d, put) /\ r.total = n /\ r.cap = x.cap /\ r.st = x.st /\ r.nop = x.nop
  BY <1>15 DEF LearnerRec
<1>17. Additions(x, d, put, ins)  BY <1>7, <1>9, <1>10 DEF Additions
<1>18. /\ Fits(x, r, "add", put) /\ Filled(r) = Filled(x) \cup Pairs(d, ins)
       /\ Filled(x) \cap Pairs(d, ins) = {}
       /\ r.tab \in [Entries -> {"none", "live", "expired"}]
  BY <1>11, <1>16, <1>17, PutFits
<1>19. r \in LearnerRec  BY <1>15, <1>16, <1>18 DEF LearnerRec
<1>20. TableOK(r)
  <2>1. IsFiniteSet(Filled(x)) /\ x.total = Cardinality(Filled(x))  BY <1>5 DEF TableOK
  <2>2. PICK T : T = Pairs(d, ins)  OBVIOUS
  <2>3. IsFiniteSet(T) /\ Cardinality(T) = Cardinality(ins)  BY <1>13, <2>2, PairsCount
  <2>4. Filled(r) = Filled(x) \cup T /\ Filled(x) \cap T = {}  BY <1>18, <2>2
  <2>5. /\ IsFiniteSet(Filled(x) \cup T)
        /\ Cardinality(Filled(x) \cup T) = Cardinality(Filled(x)) + Cardinality(T) - Cardinality(Filled(x) \cap T)
    BY <2>1, <2>3, FS_Union
  <2>6. Cardinality({}) = 0  BY FS_EmptySet
  <2>7. PICK a \in Int, b \in Nat : a = x.total /\ b = Cardinality(ins)  BY <1>13 DEF LearnerRec
  <2>8. IsFiniteSet(Filled(r)) /\ Cardinality(Filled(r)) = a + b - 0  BY <2>1, <2>3, <2>4, <2>5, <2>6, <2>7
  <2>9. r.total = a + b /\ r.total <= r.cap  BY <1>13, <1>14, <1>16, <2>7
  <2>10. r.total = Cardinality(Filled(r))  BY <2>7, <2>8, <2>9
  <2>11. QED  BY <1>5, <1>16, <2>8, <2>9, <2>10 DEF TableOK
<1>21. learner' = [learner EXCEPT ![l] = r]
  <2>1. learner' = [learner EXCEPT ![l].tab = With(x, d, put), ![l].total = @ + Cardinality(ins)]
    BY <1>4, <1>10, Parts DEF With
  <2>2. QED  BY <1>4, <1>14, <1>15, <2>1, Parts
<1>22. PICK sent : sent = IF x.nop THEN {} ELSE put  OBVIOUS
<1>23. sent \in SUBSET (IPs \ Private)  BY <1>11, <1>22
<1>24. PICK q : q = Writes("add", sent)  OBVIOUS
<1>25. q \in Seq(Write)  BY <1>23, <1>24, WritesOf
<1>26. PICK z \in WorkerRec : z = worker[w]  BY Parts
<1>27. PICK rec : rec = [z EXCEPT !.pc = "write", !.ops = q]  OBVIOUS
<1>28. /\ rec \in WorkerRec /\ rec.pc = "write" /\ rec.l = z.l /\ rec.via = z.via /\ rec.win = z.win /\ rec.ops = q
  BY <1>25, <1>26, <1>27 DEF WorkerRec
<1>29. z.l = l /\ z.via = "" /\ Born(z.win)  BY <1>1, <1>2, <1>26, Parts DEF Shaped, Named
<1>30. worker' = Queue(Overtake("del", put), w, rec)  BY <1>10, <1>22, <1>24, <1>26, <1>27
<1>31. ~x.nop => rec.ops = Writes("add", put)  BY <1>22, <1>24, <1>28
<1>32. PICK kind \in {"add", "del"}, old \in {"add", "del"} : kind = "add" /\ old = "del" /\ old = Other(kind)  BY DEF Other
<1>33. Born(rec.win) /\ rec.l = l /\ rec.via = "" /\ rec.pc \in {"write", "sweep"}  BY <1>28, <1>29
<1>34. Fits(learner[l], r, kind, put) /\ (~learner[l].nop => rec.ops = Writes(kind, put))
       /\ worker' = Queue(Overtake(old, put), w, rec)
  BY <1>4, <1>18, <1>30, <1>31, <1>32
<1>35. r.st = learner[l].st /\ r.nop = learner[l].nop /\ learner[l].st # "unborn"  BY <1>4, <1>5, <1>16
<1>36. worker[w].pc \in {"idle", "asked"}  BY <1>1
<1>37. QED  BY <1>1, <1>11, <1>19, <1>20, <1>21, <1>28, <1>32, <1>33, <1>34, <1>35, <1>36, TableStep

-----------------------------------------------------------------------------
(* The map's side. *)

\* Goroutine y is x with the first of its writes done or given up.
Trimmed(x, y) ==
    /\ y.via = "" /\ y.l \in {x.l, None} /\ y.win \in {x.win, None}
    /\ \A i \in DOMAIN y.ops : y.l = x.l /\ \E j \in DOMAIN x.ops : x.ops[j] = y.ops[i]
    /\ \A j \in DOMAIN x.ops : x.ops[j] = x.ops[1] \/ (y.l = x.l /\ \E i \in DOMAIN y.ops : y.ops[i] = x.ops[j])

LEMMA TailOf ==
    ASSUME NEW q \in Seq(Write), q # <<>>
    PROVE  /\ Tail(q) \in Seq(Write)
           /\ \A i \in DOMAIN Tail(q) : i + 1 \in DOMAIN q /\ Tail(q)[i] = q[i + 1]
           /\ \A j \in DOMAIN q : j = 1 \/ (j - 1 \in DOMAIN Tail(q) /\ Tail(q)[j - 1] = q[j])
<1>1. PICK n \in Nat : n = Len(q) /\ n >= 1 /\ DOMAIN q = 1..n  OBVIOUS
<1>2. Tail(q) \in Seq(Write) /\ Len(Tail(q)) = n - 1 /\ DOMAIN Tail(q) = 1..(n - 1)  BY <1>1
<1>3. \A i \in 1..(n - 1) : Tail(q)[i] = q[i + 1]  BY <1>1
<1>4. ASSUME NEW j \in DOMAIN q, j # 1  PROVE j - 1 \in DOMAIN Tail(q) /\ Tail(q)[j - 1] = q[j]
  <2>1. j - 1 \in 1..(n - 1) /\ (j - 1) + 1 = j  BY <1>1, <1>4
  <2>2. QED  BY <1>2, <1>3, <2>1
<1>5. ASSUME NEW i \in DOMAIN Tail(q)  PROVE i + 1 \in DOMAIN q /\ Tail(q)[i] = q[i + 1]  BY <1>1, <1>2, <1>3
<1>6. QED  BY <1>2, <1>4, <1>5

LEMMA DropsOne ==
    ASSUME LInv, NEW w \in Workers, worker[w].pc \in {"write", "writing", "sweep", "sweeping"},
           NEW rec \in WorkerRec, rec.pc \in {"write", "sweep"}, rec.ops = Tail(worker[w].ops),
           rec.l = worker[w].l, rec.win = worker[w].win, rec.via = "", worker' = Queue(worker, w, rec)
    PROVE  /\ worker' \in [Workers -> WorkerRec] /\ \A v \in Workers : Shaped(worker'[v])
           /\ Trimmed(worker[w], worker'[w]) /\ \A v \in Workers \ {w} : worker'[v] = worker[v]
<1>1. PICK x \in WorkerRec : x = worker[w]  BY Parts
<1>2. Shaped(x) /\ x.ops \in Seq(Write) /\ x.ops # <<>> /\ x.l \in Learners
  BY <1>1, Parts, WorkerBorn DEF Shaped, WorkerRec
<1>3. PICK y : y = IF rec.ops = <<>> THEN Idle ELSE rec  OBVIOUS
<1>4. rec.ops # <<>> => Shaped(rec)  BY <1>1, <1>2, LearnerNumbers DEF Shaped
<1>5. y \in WorkerRec /\ Shaped(y)  BY <1>3, <1>4, IdleOK
<1>6. worker' = [worker EXCEPT ![w] = y]  BY <1>3 DEF Queue
<1>7. /\ worker' \in [Workers -> WorkerRec] /\ \A v \in Workers : Shaped(worker'[v])
      /\ worker'[w] = y /\ \A v \in Workers \ {w} : worker'[v] = worker[v]
  BY <1>5, <1>6, OneWorker
<1>8. y.via = "" /\ y.l \in {x.l, None} /\ y.win \in {x.win, None} /\ y.ops = Tail(x.ops)
  BY <1>1, <1>3 DEF Idle
<1>9. y.ops # <<>> => y.l = x.l  BY <1>1, <1>3 DEF Idle
<1>10. y.ops \in Seq(Write)  BY <1>5 DEF WorkerRec
<1>11. ASSUME NEW i \in DOMAIN y.ops  PROVE y.l = x.l /\ \E j \in DOMAIN x.ops : x.ops[j] = y.ops[i]
  <2>1. y.l = x.l  BY <1>9, <1>10, SeqElement
  <2>2. PICK q : q = x.ops  OBVIOUS
  <2>3. q \in Seq(Write) /\ q # <<>> /\ y.ops = Tail(q)  BY <1>2, <1>8, <2>2
  <2>4. \A k \in DOMAIN Tail(q) : k + 1 \in DOMAIN q /\ Tail(q)[k] = q[k + 1]  BY <2>3, TailOf
  <2>5. PICK k \in DOMAIN q : y.ops[i] = q[k]  BY <2>3, <2>4
  <2>6. QED  BY <2>1, <2>2, <2>5
<1>12. ASSUME NEW j \in DOMAIN x.ops, x.ops[j] # x.ops[1]
       PROVE  y.l = x.l /\ \E i \in DOMAIN y.ops : y.ops[i] = x.ops[j]
  <2>1. PICK i : i = j - 1  OBVIOUS
  <2>2. i \in DOMAIN y.ops /\ y.ops[i] = x.ops[j]  BY <1>2, <1>8, <1>12, <2>1, TailOf
  <2>3. QED  BY <1>11, <2>2
<1>13. Trimmed(x, y)  BY <1>8, <1>11, <1>12 DEF Trimmed
<1>14. QED  BY <1>1, <1>7, <1>13

\* Goroutine w moves on in its writes; the learners stay.
LEMMA WriterNamed ==
    ASSUME LInv, UNCHANGED <<learner, registered, own>>, NEW w \in Workers,
           worker'[w].l \in {worker[w].l, None}, worker'[w].win \in {worker[w].win, None},
           \A v \in Workers \ {w} : worker'[v] = worker[v]
    PROVE  Named'
<1>1. ASSUME NEW v \in Workers  PROVE Born(worker[v].l)' /\ Born(worker[v].win)'
  <2>1. Born(worker[v].l) /\ Born(worker[v].win)  BY Parts DEF Named
  <2>2. worker'[v].l \in {worker[v].l, None} /\ worker'[v].win \in {worker[v].win, None}  OBVIOUS
  <2>3. QED  BY <2>1, <2>2 DEF Born
<1>2. Born(registered)'  BY RegisteredBorn DEF Born
<1>3. QED  BY <1>1, <1>2, NamedKept

\* The holders of map k, when w alone takes or returns a handle.
LEMMA HoldersOf ==
    ASSUME NEW w \in Workers, NEW k, \A v \in Workers \ {w} : worker'[v] = worker[v]
    PROVE  /\ (worker'[w].via = "tap" /\ worker'[w].h = k) => Holders(k)' = Holders(k) \cup {w}
           /\ ~(worker'[w].via = "tap" /\ worker'[w].h = k) => Holders(k)' = Holders(k) \ {w}
BY DEF Holders

\* What is left of a goroutine's writes is still due.
LEMMA TrimmedServes ==
    ASSUME LInv, own # None, NEW w \in Workers, Trimmed(worker[w], worker'[w]), worker'[w].l = own
    PROVE  Serves(worker'[w], learner[own], tap)
<1>1. PICK x, y : x = worker[w] /\ y = worker'[w]  OBVIOUS
<1>2. Trimmed(x, y) /\ y.l = own  BY <1>1
<1>3. ASSUME NEW i \in DOMAIN y.ops  PROVE Due(learner[own], y.ops[i])
  <2>1. x.l = own  BY <1>2 DEF Trimmed
  <2>2. Serves(x, learner[own], tap)  BY <1>1, <2>1, Parts DEF Floor
  <2>3. PICK j \in DOMAIN x.ops : x.ops[j] = y.ops[i]  BY <1>2 DEF Trimmed
  <2>4. QED  BY <2>2, <2>3 DEF Serves
<1>4. y.via = ""  BY <1>2 DEF Trimmed
<1>5. QED  BY <1>1, <1>3, <1>4 DEF Serves

LEMMA TakeHandleInv == ASSUME LInv, NEW w \in Workers, TakeHandle(w) PROVE LInv'
<1>1. worker[w].pc \in {"write", "sweep"} /\ UNCHANGED <<learner, registered, own, task, tap, pin, left, adrift, replaced>>
  BY DEF TakeHandle
<1>2. PICK x \in WorkerRec : x = worker[w]  BY Parts
<1>3. Shaped(x) /\ x.ops \in Seq(Write) /\ x.ops # <<>> /\ x.via = "" /\ x.l \in Learners
  BY <1>1, <1>2, Parts, WorkerBorn DEF Shaped, WorkerRec
<1>4. tap \in Maps \cup {None} /\ pin \in Maps \cup {None}  BY Parts DEF LearnType
<1>5. Stage'  BY <1>1, StageKept
<1>6. CASE tap # None \/ pin # None
  <2>1. PICK m \in Maps : m = IF tap # None THEN tap ELSE pin  BY <1>4, <1>6
  <2>2. PICK via \in {"tap", "pin"} : via = IF tap # None THEN "tap" ELSE "pin"  OBVIOUS
  <2>3. PICK pc \in {"writing", "sweeping"} : pc = IF x.pc = "sweep" THEN "sweeping" ELSE "writing"  OBVIOUS
  <2>4. PICK r : r = [x EXCEPT !.h = m, !.via = via, !.pc = pc]  OBVIOUS
  <2>5. /\ r \in WorkerRec /\ r.h = m /\ r.via = via /\ r.pc = pc /\ r.l = x.l /\ r.win = x.win /\ r.ops = x.ops
        /\ r.d = x.d
    BY <2>4 DEF WorkerRec
  <2>6. Shaped(r)  BY <1>1, <1>2, <1>3, <2>5, LearnerNumbers DEF Shaped
  <2>7. worker' = [worker EXCEPT ![w] = r]
    <3>1. m # None  BY LearnerNumbers
    <3>2. worker' = [worker EXCEPT ![w].h = m, ![w].via = via, ![w].pc = IF @ = "sweep" THEN "sweeping" ELSE "writing"]
      BY <2>1, <2>2, <3>1 DEF TakeHandle
    <3>3. QED  BY <1>2, <2>3, <2>4, <3>2, Parts
  <2>8. map' = IF tap # None THEN WhitelistMapFor(map, m) ELSE map
    <3>1. m # None  BY LearnerNumbers
    <3>2. QED  BY <2>1, <3>1 DEF TakeHandle
  <2>9. /\ worker' \in [Workers -> WorkerRec] /\ \A v \in Workers : Shaped(worker'[v])
        /\ worker'[w] = r /\ \A v \in Workers \ {w} : worker'[v] = worker[v]
    BY <2>5, <2>6, <2>7, OneWorker
  <2>10. PICK a \in MapRec : a = map[m]  BY Parts
  <2>11. PICK b \in MapRec : b = IF tap # None THEN [a EXCEPT !.refs = a.refs + 1] ELSE a
    <3>1. PICK n \in Nat : n = a.refs + 1  BY DEF MapRec
    <3>2. [a EXCEPT !.refs = n] \in MapRec  BY DEF MapRec
    <3>3. QED  BY <3>1, <3>2
  <2>12. b.ips = a.ips /\ b.st = a.st /\ b.refs = IF tap # None THEN a.refs + 1 ELSE a.refs  BY <2>11 DEF MapRec
  <2>13. map' = [map EXCEPT ![m] = b]  BY <2>8, <2>10, <2>11, Parts DEF WhitelistMapFor
  <2>14. map' \in [Maps -> MapRec] /\ map'[m] = b /\ \A k \in Maps \ {m} : map'[k] = map[k]  BY <2>13, Parts
  <2>15. LearnType'  BY <1>1, <2>9, <2>14, Parts DEF LearnType
  <2>16. Named'  BY <1>1, <1>2, <2>5, <2>9, WriterNamed
  <2>17. a.st # "unloaded"
    <3>1. CASE tap # None
      <4>1. MapOK(m) /\ tap = m  BY <2>1, <3>1, Parts DEF Hands
      <4>2. QED  BY <2>10, <4>1 DEF MapOK
    <3>2. CASE tap = None  BY <1>6, <2>1, <2>10, <3>2, Parts DEF Hands
    <3>3. QED  BY <3>1, <3>2
  <2>18. Hands'
    <3>1. ASSUME NEW k \in Maps  PROVE MapOK(k)'
      <4>1. MapOK(k)  BY Parts DEF Hands
      <4>2. w \notin Holders(k)  BY <1>2, <1>3 DEF Holders
      <4>3. CASE via = "tap" /\ k = m
        <5>1. Holders(k)' = Holders(k) \cup {w}  BY <2>5, <2>9, <4>3, HoldersOf
        <5>2. /\ IsFiniteSet(Holders(k) \cup {w})
              /\ Cardinality(Holders(k) \cup {w}) = Cardinality(Holders(k)) + 1
          BY <4>1, <4>2, FS_AddElement DEF MapOK
        <5>3. tap = m /\ tap # None  BY <2>1, <2>2, <4>3
        <5>4. a.st = "tap" /\ map'[k] = b /\ map[k] = a  BY <2>10, <2>14, <4>1, <4>3, <5>3 DEF MapOK
        <5>5. QED  BY <1>1, <2>12, <4>1, <4>3, <5>1, <5>2, <5>3, <5>4 DEF MapOK
      <4>4. CASE ~(via = "tap" /\ k = m)
        <5>1. Holders(k)' = Holders(k) \ {w}  BY <2>5, <2>9, <4>4, HoldersOf
        <5>2. Holders(k)' = Holders(k)  BY <4>2, <5>1
        <5>3. map'[k] = map[k]  BY <2>2, <2>10, <2>11, <2>14, <4>4
        <5>4. QED  BY <1>1, <4>1, <5>2, <5>3 DEF MapOK
      <4>5. QED  BY <4>3, <4>4
    <3>2. \A k \in Maps : map'[k].st = map[k].st  BY <2>10, <2>12, <2>14
    <3>3. pin' # None => map'[pin'].st # "unloaded"  BY <1>1, <1>4, <3>2, Parts DEF Hands
    <3>4. ASSUME NEW v \in Workers, worker'[v].via # ""  PROVE map'[worker'[v].h].st # "unloaded"
      <4>1. CASE v = w  BY <2>5, <2>9, <2>12, <2>14, <2>17, <4>1
      <4>2. CASE v # w
        <5>1. worker'[v] = worker[v] /\ worker[v].h \in Maps  BY <2>9, <3>4, <4>2, Parts DEF Shaped
        <5>2. QED  BY <3>2, <3>4, <5>1, Parts DEF Hands
      <4>3. QED  BY <4>1, <4>2
    <3>5. QED  BY <3>1, <3>3, <3>4 DEF Hands
  <2>19. Known'
    <3>1. \A v \in Workers : worker[v].pc = "made" => worker'[v].pc = "made" /\ worker'[v].l = worker[v].l
      BY <1>1, <2>9
    <3>2. QED  BY <1>1, <3>1, KnownKept
  <2>20. Floor'
    <3>1. \A k \in Maps : map'[k].ips = map[k].ips  BY <2>10, <2>12, <2>14
    <3>2. \A v \in Workers : worker'[v].ops = worker[v].ops /\ worker'[v].l = worker[v].l  BY <1>2, <2>5, <2>9
    <3>3. ASSUME NEW v \in Workers, own # None, worker'[v].l = own, worker'[v].via # ""  PROVE worker'[v].h = tap
      <4>1. CASE v = w
        <5>1. pin = tap  BY <3>3, Parts DEF Stage
        <5>2. tap = m  BY <1>6, <2>1, <5>1
        <5>3. QED  BY <2>5, <2>9, <4>1, <5>2
      <4>2. CASE v # w
        <5>1. worker'[v] = worker[v]  BY <2>9, <4>2
        <5>2. Serves(worker[v], learner[own], tap)  BY <3>3, <5>1, Parts DEF Floor
        <5>3. QED  BY <3>3, <5>1, <5>2 DEF Serves
      <4>3. QED  BY <4>1, <4>2
    <3>4. QED  BY <1>1, <3>1, <3>2, <3>3, FloorKept
  <2>21. QED  BY <1>1, <1>5, <2>9, <2>15, <2>16, <2>18, <2>19, <2>20, Parts DEF LInv
<1>7. CASE tap = None /\ pin = None
  <2>1. map' = map /\ worker' = Queue(worker, w, [worker[w] EXCEPT !.ops = Tail(@)])  BY <1>7 DEF TakeHandle
  <2>2. PICK rec : rec = [x EXCEPT !.ops = Tail(x.ops)]  OBVIOUS
  <2>3. Tail(x.ops) \in Seq(Write)  BY <1>3, TailOf
  <2>4. /\ rec \in WorkerRec /\ rec.pc = x.pc /\ rec.ops = Tail(x.ops) /\ rec.l = x.l /\ rec.win = x.win
        /\ rec.via = ""
    BY <1>3, <2>2, <2>3 DEF WorkerRec
  <2>5. worker' = Queue(worker, w, rec)  BY <1>2, <2>1, <2>2
  <2>6. /\ worker' \in [Workers -> WorkerRec] /\ \A v \in Workers : Shaped(worker'[v])
        /\ Trimmed(worker[w], worker'[w]) /\ \A v \in Workers \ {w} : worker'[v] = worker[v]
    BY <1>1, <1>2, <2>4, <2>5, DropsOne
  <2>7. LearnType'  BY <1>1, <2>1, <2>6, Parts DEF LearnType
  <2>8. Named'  BY <1>1, <2>6, WriterNamed DEF Trimmed
  <2>9. Hands'
    <3>1. worker'[w].via = worker[w].via  BY <1>2, <1>3, <2>6 DEF Trimmed
    <3>2. \A v \in Workers : worker'[v].via = worker[v].via /\ (worker[v].via # "" => worker'[v].h = worker[v].h)
      BY <1>2, <1>3, <2>6, <3>1
    <3>3. QED  BY <1>1, <2>1, <3>2, HandsKept
  <2>10. Known'
    <3>1. \A v \in Workers : worker[v].pc = "made" => worker'[v].pc = "made" /\ worker'[v].l = worker[v].l
      BY <1>1, <2>6
    <3>2. QED  BY <1>1, <3>1, KnownKept
  <2>11. ASSUME own # None, NEW v \in Workers, worker'[v].l = own  PROVE Serves(worker'[v], learner[own], tap)
    <3>1. CASE v = w  BY <2>6, <2>11, <3>1, TrimmedServes
    <3>2. CASE v # w  BY <2>6, <2>11, <3>2, Parts DEF Floor
    <3>3. QED  BY <3>1, <3>2
  <2>12. Floor'  BY <1>1, <1>7, <2>11 DEF Floor
  <2>13. QED  BY <1>1, <1>5, <2>6, <2>7, <2>8, <2>9, <2>10, <2>12, Parts DEF LInv
<1>8. QED  BY <1>6, <1>7

\* Map a is b, with the addresses I and without the reference if it was the tap's.
Written(a, b, I, via) ==
    /\ b.ips = I
    /\ via = "pin" => b.refs = a.refs /\ b.st = a.st
    /\ via = "tap" => /\ b.refs = a.refs - 1
                      /\ b.st = IF a.st = "retired" /\ b.refs = 0 THEN "closed" ELSE a.st

LEMMA MapWritten ==
    ASSUME LInv, NEW w \in Workers, NEW m \in Maps, NEW I \in SUBSET IPs, m = worker[w].h,
           Wrote(w, [map EXCEPT ![m].ips = I]), worker[w].via \in {"tap", "pin"}
    PROVE  \E b \in MapRec : Written(map[m], b, I, worker[w].via) /\ map' = [map EXCEPT ![m] = b]
<1>1. PICK a \in MapRec : a = map[m]  BY Parts
<1>4. PICK c : c = [a EXCEPT !.ips = I]  OBVIOUS
<1>5. c \in MapRec /\ c.ips = I /\ c.refs = a.refs /\ c.st = a.st  BY <1>4 DEF MapRec
<1>6. PICK ms : ms = [map EXCEPT ![m] = c]  OBVIOUS
<1>7. ms = [map EXCEPT ![m].ips = I]  BY <1>1, <1>4, <1>6, Parts
<1>8. map' = IF worker[w].via = "tap" THEN ReleaseWhitelistMap(ms, m) ELSE ms  BY <1>7 DEF Wrote
<1>9. ms \in [Maps -> MapRec] /\ ms[m] = c /\ \A k \in Maps \ {m} : ms[k] = map[k]  BY <1>5, <1>6, Parts
<1>10. CASE worker[w].via = "pin"
  <2>1. map' = [map EXCEPT ![m] = c]  BY <1>6, <1>8, <1>10
  <2>2. Written(map[m], c, I, worker[w].via)  BY <1>1, <1>5, <1>10 DEF Written
  <2>3. QED  BY <1>5, <2>1, <2>2
<1>11. CASE worker[w].via = "tap"
  <2>1. w \in Holders(m) /\ MapOK(m)  BY <1>11, Parts DEF Holders, Hands
  <2>2. IsFiniteSet(Holders(m)) /\ Cardinality(Holders(m)) = a.refs  BY <1>1, <2>1 DEF MapOK
  <2>3. a.refs # 0  BY <2>1, <2>2, FS_EmptySet
  <2>4. PICK n \in Nat : n = a.refs - 1  BY <2>3 DEF MapRec
  <2>5. PICK s : s = IF a.st = "retired" /\ n = 0 THEN "closed" ELSE a.st  OBVIOUS
  <2>6. s \in {"unloaded", "tap", "retired", "closed"}  BY <2>5 DEF MapRec
  <2>7. PICK b : b = [c EXCEPT !.refs = n, !.st = s]  OBVIOUS
  <2>8. b \in MapRec /\ b.ips = I /\ b.refs = n /\ b.st = s  BY <1>5, <2>6, <2>7 DEF MapRec
  <2>9. ReleaseWhitelistMap(ms, m) = [ms EXCEPT ![m] = b]
    BY <1>5, <1>9, <2>4, <2>5, <2>7 DEF ReleaseWhitelistMap
  <2>10. map' = [map EXCEPT ![m] = b]  BY <1>6, <1>8, <1>11, <2>9, Parts
  <2>11. Written(map[m], b, I, worker[w].via)  BY <1>1, <1>11, <2>4, <2>5, <2>8 DEF Written
  <2>12. QED  BY <2>8, <2>10, <2>11
<1>12. QED  BY <1>10, <1>11

\* What may become of goroutine w's write of o to a map of addresses A: the
\* map has I then, and o's address is adrift unless the write is right.
Outcome(w, o, A, I) ==
    /\ adrift' \in {adrift \cup {o.ip}, adrift \ {o.ip}}
    /\ \A ip \in IPs \ {o.ip} : ip \in I <=> ip \in A
    /\ o.ip \in adrift' \/ (/\ ~o.stale /\ worker[w].l = own
                            /\ o.op = "add" => o.ip \in I
                            /\ o.op = "del" => o.ip \notin I)

LEMMA WroteInv ==
    ASSUME LInv, NEW w \in Workers, worker[w].pc \in {"writing", "sweeping"}, NEW I \in SUBSET IPs,
           Wrote(w, [map EXCEPT ![worker[w].h].ips = I]),
           Outcome(w, worker[w].ops[1], map[worker[w].h].ips, I)
    PROVE  LInv'
<1>1. worker[w].pc \in {"writing", "sweeping"} /\ UNCHANGED <<learner, registered, own, task, tap, pin, left, replaced>>
  BY DEF Wrote
<1>2. PICK x \in WorkerRec : x = worker[w]  BY Parts
<1>3. /\ Shaped(x) /\ x.ops \in Seq(Write) /\ x.ops # <<>> /\ x.via \in {"tap", "pin"} /\ x.l \in Learners
      /\ x.h \in Maps
  BY <1>1, <1>2, Parts, WorkerBorn DEF Shaped, WorkerRec
<1>4. PICK m \in Maps : m = x.h  BY <1>3
<1>5. PICK o \in Write : o = x.ops[1]  BY <1>3
<1>6. PICK b \in MapRec : Written(map[m], b, I, x.via) /\ map' = [map EXCEPT ![m] = b]
  BY <1>2, <1>3, <1>4, MapWritten
<1>7. /\ b.ips = I
      /\ x.via = "pin" => b.refs = map[m].refs /\ b.st = map[m].st
      /\ x.via = "tap" => /\ b.refs = map[m].refs - 1
                          /\ b.st = IF map[m].st = "retired" /\ b.refs = 0 THEN "closed" ELSE map[m].st
  BY <1>6 DEF Written
<1>8. map' \in [Maps -> MapRec] /\ map'[m] = b /\ \A k \in Maps \ {m} : map'[k] = map[k]  BY <1>6, Parts
<1>9. o.ip \in IPs /\ o.op \in {"add", "del"}  BY DEF Write
<1>10. /\ adrift' \in {adrift \cup {o.ip}, adrift \ {o.ip}}
       /\ \A ip \in IPs \ {o.ip} : ip \in I <=> ip \in map[m].ips
       /\ o.ip \in adrift' \/ (/\ ~o.stale /\ x.l = own
                               /\ o.op = "add" => o.ip \in I
                               /\ o.op = "del" => o.ip \notin I)
  BY <1>2, <1>4, <1>5 DEF Outcome
<1>11. /\ worker' \in [Workers -> WorkerRec] /\ \A v \in Workers : Shaped(worker'[v])
       /\ Trimmed(x, worker'[w]) /\ \A v \in Workers \ {w} : worker'[v] = worker[v]
  <2>1. PICK pc \in {"write", "sweep"} : pc = IF x.pc = "sweeping" THEN "sweep" ELSE "write"  OBVIOUS
  <2>2. PICK rec : rec = [x EXCEPT !.ops = Tail(x.ops), !.h = None, !.via = "", !.pc = pc]  OBVIOUS
  <2>3. Tail(x.ops) \in Seq(Write)  BY <1>3, TailOf
  <2>4. /\ rec \in WorkerRec /\ rec.pc = pc /\ rec.ops = Tail(x.ops) /\ rec.l = x.l /\ rec.win = x.win
        /\ rec.via = ""
    BY <2>2, <2>3 DEF WorkerRec
  <2>5. worker' = Queue(worker, w, rec)
    <3>1. worker' = Queue(worker, w, [worker[w] EXCEPT
                  !.ops = Tail(@), !.h = None, !.via = "",
                  !.pc = IF @ = "sweeping" THEN "sweep" ELSE "write"])
      BY DEF Wrote
    <3>2. [worker[w] EXCEPT !.ops = Tail(@), !.h = None, !.via = "",
                            !.pc = IF @ = "sweeping" THEN "sweep" ELSE "write"] = rec
      BY <1>2, <2>1, <2>2 DEF WorkerRec
    <3>3. QED  BY <3>1, <3>2
  <2>6. QED  BY <1>1, <1>2, <2>4, <2>5, DropsOne
<1>12. LearnType'
  <2>1. adrift' \subseteq IPs  BY <1>9, <1>10, Parts DEF LearnType
  <2>2. QED  BY <1>1, <1>8, <1>11, <2>1, Parts DEF LearnType
<1>13. Named'  BY <1>1, <1>2, <1>11, WriterNamed DEF Trimmed
<1>14. Stage'  BY <1>1, StageKept
<1>15. Known'
  <2>1. \A v \in Workers : worker[v].pc = "made" => worker'[v].pc = "made" /\ worker'[v].l = worker[v].l
    BY <1>1, <1>11
  <2>2. QED  BY <1>1, <2>1, KnownKept
<1>16. map[m].st # "unloaded"  BY <1>2, <1>3, <1>4, Parts DEF Hands
<1>17. \A k \in Maps : map[k].st # "unloaded" => map'[k].st # "unloaded"  BY <1>3, <1>7, <1>8
<1>18. Hands'
  <2>1. ASSUME NEW k \in Maps  PROVE MapOK(k)'
    <3>1. MapOK(k)  BY Parts DEF Hands
    <3>2. worker'[w].via = ""  BY <1>11 DEF Trimmed
    <3>3. Holders(k)' = Holders(k) \ {w}  BY <1>11, <3>2, HoldersOf
    <3>4. CASE k = m /\ x.via = "tap"
      <4>1. w \in Holders(k)  BY <1>2, <1>4, <3>4 DEF Holders
      <4>2. /\ IsFiniteSet(Holders(k) \ {w})
            /\ Cardinality(Holders(k) \ {w}) = Cardinality(Holders(k)) - 1
        BY <3>1, <4>1, FS_RemoveElement DEF MapOK
      <4>3. IsFiniteSet(Holders(k)') /\ Cardinality(Holders(k)') = map[k].refs - 1  BY <3>1, <3>3, <4>2 DEF MapOK
      <4>4. map[k].refs # 0  BY <3>1, <4>1, FS_EmptySet DEF MapOK
      <4>5. PICK n \in Nat : n = map[k].refs  BY Parts DEF MapRec
      <4>6. map'[k].refs = n - 1 /\ map'[k].refs \in Nat  BY <1>7, <1>8, <3>4, <4>5 DEF MapRec
      <4>7. map'[k].st = IF map[k].st = "retired" /\ n - 1 = 0 THEN "closed" ELSE map[k].st
        BY <1>7, <1>8, <3>4, <4>5, <4>6
      <4>8. map[k].st # "closed" /\ map[k].st # "unloaded"  BY <1>16, <3>1, <3>4, <4>4 DEF MapOK
      <4>9. QED  BY <1>1, <3>1, <4>3, <4>5, <4>6, <4>7, <4>8 DEF MapOK
    <3>5. CASE ~(k = m /\ x.via = "tap")
      <4>1. w \notin Holders(k)  BY <1>2, <1>4, <3>5 DEF Holders
      <4>2. Holders(k)' = Holders(k)  BY <3>3, <4>1
      <4>3. map'[k].refs = map[k].refs /\ map'[k].st = map[k].st  BY <1>3, <1>7, <1>8, <3>5
      <4>4. map'[k].st = "unloaded" => map'[k].ips = {}  BY <1>8, <1>16, <3>1, <4>3 DEF MapOK
      <4>5. QED  BY <1>1, <3>1, <4>2, <4>3, <4>4 DEF MapOK
    <3>6. QED  BY <3>4, <3>5
  <2>2. pin' # None => map'[pin'].st # "unloaded"  BY <1>1, <1>17, Parts DEF Hands, LearnType
  <2>3. ASSUME NEW v \in Workers, worker'[v].via # ""  PROVE map'[worker'[v].h].st # "unloaded"
    <3>1. v # w  BY <1>11, <2>3 DEF Trimmed
    <3>2. worker'[v] = worker[v] /\ worker[v].h \in Maps  BY <1>11, <2>3, <3>1, Parts DEF Shaped
    <3>3. QED  BY <1>17, <2>3, <3>2, Parts DEF Hands
  <2>4. QED  BY <2>1, <2>2, <2>3 DEF Hands
<1>19. Floor'
  <2>1. (task' = "attached" /\ tap' # None) => map'[tap'].ips \subseteq adrift'
    <3>1. ASSUME task = "attached", tap # None  PROVE map'[tap].ips \subseteq adrift'
      <4>1. own = None /\ tap \in Maps /\ map[tap].ips \subseteq adrift  BY <3>1, Parts DEF Stage, LearnType, Floor
      <4>2. adrift' = adrift \cup {o.ip}
        <5>1. o.ip \in adrift'  BY <1>3, <1>10, <4>1, LearnerNumbers
        <5>2. QED  BY <1>10, <5>1
      <4>3. CASE tap = m  BY <1>7, <1>8, <1>10, <4>1, <4>2, <4>3
      <4>4. CASE tap # m  BY <1>8, <4>1, <4>2, <4>4
      <4>5. QED  BY <4>3, <4>4
    <3>2. QED  BY <1>1, <3>1
  <2>2. ASSUME own # None, NEW v \in Workers, worker'[v].l = own  PROVE Serves(worker'[v], learner[own], tap)
    <3>1. CASE v = w  BY <1>2, <1>11, <2>2, <3>1, TrimmedServes
    <3>2. CASE v # w  BY <1>11, <2>2, <3>2, Parts DEF Floor
    <3>3. QED  BY <3>1, <3>2
  <2>3. ASSUME own # None, tap # None, NEW ip \in IPs
        PROVE  /\ IsLive(learner[own], ip) => ip \in map'[tap].ips \cup adrift' \/ Queued(worker', own, "add", ip)
               /\ ip \in map'[tap].ips => ip \in adrift' \/ InTable(learner[own], ip) \/ Queued(worker', own, "del", ip)
    <3>1. tap \in Maps  BY <2>3, Parts DEF LearnType
    <3>2. CASE ip = o.ip /\ o.ip \in adrift'  BY <3>2
    <3>3. CASE ip = o.ip /\ o.ip \notin adrift'
      <4>0. /\ ~o.stale /\ x.l = own
            /\ o.op = "add" => o.ip \in I
            /\ o.op = "del" => o.ip \notin I
        BY <1>10, <3>3
      <4>1. Serves(x, learner[own], tap)  BY <1>2, <2>3, <4>0, Parts DEF Floor
      <4>2. 1 \in DOMAIN x.ops  BY <1>3
      <4>3. tap = m /\ Due(learner[own], o)  BY <1>3, <1>4, <1>5, <4>1, <4>2 DEF Serves
      <4>4. CASE o.op = "add"
        <5>1. ip \in map'[tap].ips /\ InTable(learner[own], ip)  BY <1>7, <1>8, <3>3, <4>0, <4>3, <4>4 DEF Due
        <5>2. QED  BY <5>1
      <4>5. CASE o.op = "del"
        <5>1. ip \notin map'[tap].ips /\ ~IsLive(learner[own], ip)  BY <1>7, <1>8, <3>3, <4>0, <4>3, <4>5 DEF Due
        <5>2. QED  BY <5>1
      <4>6. QED  BY <1>9, <4>4, <4>5
    <3>4. CASE ip # o.ip
      <4>1. ip \in map'[tap].ips <=> ip \in map[tap].ips  BY <1>7, <1>8, <1>10, <3>1, <3>4
      <4>2. ip \in adrift' <=> ip \in adrift  BY <1>10, <3>4
      <4>3. ASSUME NEW kind, Queued(worker, own, kind, ip)  PROVE Queued(worker', own, kind, ip)
        <5>1. PICK v \in Workers : worker[v].l = own /\ \E i \in DOMAIN worker[v].ops :
                                      worker[v].ops[i].op = kind /\ worker[v].ops[i].ip = ip
          BY <4>3 DEF Queued
        <5>2. PICK j \in DOMAIN worker[v].ops : worker[v].ops[j].op = kind /\ worker[v].ops[j].ip = ip  BY <5>1
        <5>3. CASE v = w
          <6>1. x.ops[j] # x.ops[1]  BY <1>2, <1>5, <3>4, <5>2, <5>3
          <6>2. worker'[w].l = x.l /\ \E i \in DOMAIN worker'[w].ops : worker'[w].ops[i] = x.ops[j]
            BY <1>2, <1>11, <5>2, <5>3, <6>1 DEF Trimmed
          <6>3. QED  BY <1>2, <5>1, <5>2, <5>3, <6>2 DEF Queued
        <5>4. CASE v # w
          <6>1. worker'[v] = worker[v]  BY <1>11, <5>4
          <6>2. QED  BY <5>1, <6>1 DEF Queued
        <5>5. QED  BY <5>3, <5>4
      <4>4. /\ IsLive(learner[own], ip) => ip \in map[tap].ips \cup adrift \/ Queued(worker, own, "add", ip)
            /\ ip \in map[tap].ips => ip \in adrift \/ InTable(learner[own], ip) \/ Queued(worker, own, "del", ip)
        BY <2>3, Parts DEF Floor
      <4>5. QED  BY <4>1, <4>2, <4>3, <4>4
    <3>5. QED  BY <3>2, <3>3, <3>4
  <2>4. QED  BY <1>1, <2>1, <2>2, <2>3 DEF Floor
<1>20. QED  BY <1>1, <1>11, <1>12, <1>13, <1>14, <1>15, <1>18, <1>19, Parts DEF LInv

LEMMA WriterHolds ==
    ASSUME LInv, NEW w \in Workers, worker[w].pc \in {"writing", "sweeping"}
    PROVE  worker[w].h \in Maps /\ worker[w].ops[1] \in Write
<1>1. worker[w] \in WorkerRec /\ Shaped(worker[w])  BY Parts
<1>2. worker[w].ops \in Seq(Write) /\ worker[w].ops # <<>> /\ worker[w].h \in Maps  BY <1>1 DEF Shaped, WorkerRec
<1>3. QED  BY <1>2

LEMMA WriteMapInv == ASSUME LInv, NEW w \in Workers, WriteMap(w) PROVE LInv'
<1>1. worker[w].pc \in {"writing", "sweeping"}  BY DEF WriteMap
<1>2. PICK m \in Maps, o \in Write : m = worker[w].h /\ o = worker[w].ops[1]  BY <1>1, WriterHolds
<1>3. map[m] \in MapRec /\ o.ip \in IPs /\ o.op \in {"add", "del"}  BY Parts DEF Write
<1>4. PICK I \in SUBSET IPs : I = IF o.op = "add" THEN map[m].ips \cup {o.ip} ELSE map[m].ips \ {o.ip}
  BY <1>3 DEF MapRec
<1>5. Wrote(w, [map EXCEPT ![m].ips = I])
  <2>1. [map EXCEPT ![m].ips = IF o.op = "add" THEN @ \cup {o.ip} ELSE @ \ {o.ip}] = [map EXCEPT ![m].ips = I]
    BY <1>4, Parts
  <2>2. Wrote(w, [map EXCEPT ![m].ips = IF o.op = "add" THEN @ \cup {o.ip} ELSE @ \ {o.ip}])
    BY <1>2 DEF WriteMap
  <2>3. QED  BY <2>1, <2>2
<1>6. adrift' = IF o.stale \/ worker[w].l # own THEN adrift \cup {o.ip} ELSE adrift \ {o.ip}  BY <1>2 DEF WriteMap
<1>7. Outcome(w, o, map[m].ips, I)  BY <1>3, <1>4, <1>6 DEF Outcome
<1>8. QED  BY <1>1, <1>2, <1>5, <1>7, WroteInv

\* A write that fails leaves the map as it was and its address adrift.
LEMMA WriteFailsInv == ASSUME LInv, NEW w \in Workers, WriteFails(w) PROVE LInv'
<1>1. worker[w].pc \in {"writing", "sweeping"}  BY DEF WriteFails
<1>2. PICK m \in Maps, o \in Write : m = worker[w].h /\ o = worker[w].ops[1]  BY <1>1, WriterHolds
<1>3. PICK I \in SUBSET IPs : I = map[m].ips  BY Parts DEF MapRec
<1>4. [map EXCEPT ![m].ips = I] = map
  <2>1. map \in [Maps -> MapRec]  BY Parts
  <2>2. PICK a \in MapRec : a = map[m]  BY <2>1
  <2>3. [a EXCEPT !.ips = I] = a  BY <1>3, <2>2 DEF MapRec
  <2>4. QED  BY <2>1, <2>2, <2>3
<1>5. Wrote(w, [map EXCEPT ![m].ips = I])  BY <1>4 DEF WriteFails
<1>6. Outcome(w, o, map[m].ips, I)  BY <1>2, <1>3 DEF WriteFails, Outcome
<1>7. QED  BY <1>1, <1>2, <1>5, <1>6, WroteInv

\* An address that the command line writes is adrift from the start.
LEMMA WhitelistAddInv == ASSUME LInv, NEW i \in IPs, whitelistAdd(i) PROVE LInv'
<1>1. /\ pin # None /\ left' = left - 1 /\ adrift' = adrift \cup {i}
      /\ UNCHANGED <<learner, registered, own, task, tap, pin, worker, replaced>>
  BY DEF whitelistAdd, Spend
<1>2. PICK m \in Maps : m = pin  BY <1>1, Parts DEF LearnType
<1>3. PICK a \in MapRec : a = map[m]  BY Parts
<1>4. PICK I \in SUBSET IPs : I = a.ips \cup {i}  BY DEF MapRec
<1>5. PICK b : b = [a EXCEPT !.ips = I]  OBVIOUS
<1>6. b \in MapRec /\ b.ips = I /\ b.refs = a.refs /\ b.st = a.st  BY <1>5 DEF MapRec
<1>7. map' = [map EXCEPT ![m] = b]  BY <1>2, <1>3, <1>4, <1>5, Parts DEF whitelistAdd
<1>8. map' \in [Maps -> MapRec] /\ map'[m] = b /\ \A k \in Maps \ {m} : map'[k] = map[k]  BY <1>6, <1>7, Parts
<1>9. \A k \in Maps : /\ map'[k].refs = map[k].refs /\ map'[k].st = map[k].st
                      /\ map'[k].ips \subseteq map[k].ips \cup {i} /\ map[k].ips \subseteq map'[k].ips
  BY <1>3, <1>4, <1>6, <1>8
<1>10. LearnType'  BY <1>1, <1>8, Parts DEF LearnType, Spend
<1>11. Named' /\ Stage' /\ Known'
  <2>1. Named'  BY <1>1, Parts DEF Named, Born
  <2>2. Stage'  BY <1>1, StageKept
  <2>3. Known'  BY <1>1, KnownKept
  <2>4. QED  BY <2>1, <2>2, <2>3
<1>12. Hands'
  <2>1. ASSUME NEW k \in Maps  PROVE MapOK(k)'
    <3>1. MapOK(k)  BY Parts DEF Hands
    <3>2. Holders(k)' = Holders(k)  BY <1>1 DEF Holders
    <3>3. map'[k].st = "unloaded" => map'[k].ips = {}
      <4>1. CASE k = m  BY <1>1, <1>2, <1>9, <4>1, Parts DEF Hands
      <4>2. CASE k # m  BY <1>8, <3>1, <4>2 DEF MapOK
      <4>3. QED  BY <4>1, <4>2
    <3>4. QED  BY <1>1, <1>9, <3>1, <3>2, <3>3 DEF MapOK
  <2>2. pin' # None => map'[pin'].st # "unloaded"  BY <1>1, <1>2, <1>9, Parts DEF Hands
  <2>3. \A v \in Workers : worker'[v].via # "" => map'[worker'[v].h].st # "unloaded"
    <3>1. \A v \in Workers : worker[v].via # "" => worker[v].h \in Maps  BY Parts DEF Shaped
    <3>2. QED  BY <1>1, <1>9, <3>1, Parts DEF Hands
  <2>4. QED  BY <2>1, <2>2, <2>3 DEF Hands
<1>13. Floor'
  <2>1. tap # None => tap \in Maps  BY Parts DEF LearnType
  <2>2. (task' = "attached" /\ tap' # None) => map'[tap'].ips \subseteq adrift'
    BY <1>1, <1>9, <2>1, Parts DEF Floor
  <2>3. own # None => \A w \in Workers : worker[w].l = own => Serves(worker[w], learner[own], tap)
    BY Parts DEF Floor
  <2>4. ASSUME own # None, tap # None, NEW ip \in IPs
        PROVE  /\ IsLive(learner[own], ip) => ip \in map'[tap].ips \cup adrift' \/ Queued(worker, own, "add", ip)
               /\ ip \in map'[tap].ips => ip \in adrift' \/ InTable(learner[own], ip) \/ Queued(worker, own, "del", ip)
    <3>1. /\ IsLive(learner[own], ip) => ip \in map[tap].ips \cup adrift \/ Queued(worker, own, "add", ip)
          /\ ip \in map[tap].ips => ip \in adrift \/ InTable(learner[own], ip) \/ Queued(worker, own, "del", ip)
      BY <2>4, Parts DEF Floor
    <3>2. map'[tap].ips \subseteq map[tap].ips \cup {i} /\ map[tap].ips \subseteq map'[tap].ips  BY <1>9, <2>1, <2>4
    <3>3. QED  BY <1>1, <3>1, <3>2
  <2>5. QED  BY <1>1, <2>2, <2>3, <2>4 DEF Floor
<1>14. QED  BY <1>1, <1>10, <1>11, <1>12, <1>13, Parts DEF LInv

LEMMA AttachFailsInv == ASSUME LInv, AttachFails PROVE LInv'
<1>1. task = "down" /\ task' = "attached" /\ adrift' = {} /\ UNCHANGED <<learner, registered, own, map, tap, pin, worker, replaced>>
  BY DEF AttachFails
<1>2. own = None /\ tap = None /\ pin = None  BY <1>1, Parts DEF Stage
<1>3. LearnType'  BY <1>1, Parts DEF LearnType
<1>4. Named'  BY <1>1, Parts DEF Named, Born
<1>5. Stage'  BY <1>1, <1>2 DEF Stage
<1>6. Hands'  BY <1>1, HandsKept
<1>7. Known'  BY <1>1, KnownKept
<1>8. Floor'  BY <1>1, <1>2 DEF Floor
<1>9. QED  BY <1>1, <1>3, <1>4, <1>5, <1>6, <1>7, <1>8, Parts DEF LInv

LEMMA AttachInv == ASSUME LInv, Attach PROVE LInv'
<1>1. task = "down" /\ FreshMap # {} /\ task' = "attached" /\ adrift' = {} /\ UNCHANGED <<learner, registered, own, worker, replaced>>
  BY DEF Attach
<1>2. own = None /\ tap = None  BY <1>1, Parts DEF Stage
<1>3. FreshMap \in SUBSET Nat  BY LearnerNumbers DEF FreshMap
<1>4. PICK m : m = Least(FreshMap)  OBVIOUS
<1>5. m \in Maps /\ map[m].st = "unloaded" /\ m # None
  <2>1. m \in FreshMap  BY <1>1, <1>3, <1>4, LeastMember
  <2>2. QED  BY <2>1, LearnerNumbers DEF FreshMap
<1>6. map' = [map EXCEPT ![m].st = "tap"] /\ tap' = m /\ pin' = m  BY <1>2, <1>4 DEF Attach, Unregister
<1>7. PICK a \in MapRec : a = map[m]  BY <1>5, Parts
<1>8. PICK b : b = [a EXCEPT !.st = "tap"]  OBVIOUS
<1>9. b \in MapRec /\ b.st = "tap" /\ b.ips = a.ips /\ b.refs = a.refs  BY <1>8 DEF MapRec
<1>10. map' = [map EXCEPT ![m] = b]  BY <1>5, <1>6, <1>7, <1>8, Parts
<1>11. map' \in [Maps -> MapRec] /\ map'[m] = b /\ \A k \in Maps \ {m} : map'[k] = map[k]
  BY <1>5, <1>9, <1>10, Parts
<1>12. LearnType'  BY <1>1, <1>5, <1>6, <1>11, Parts DEF LearnType
<1>13. Named'  BY <1>1, Parts DEF Named, Born
<1>14. Stage'  BY <1>1, <1>2, <1>6 DEF Stage
<1>15. Known'  BY <1>1, KnownKept
<1>16. Hands'
  <2>1. ASSUME NEW k \in Maps  PROVE MapOK(k)'
    <3>1. MapOK(k)  BY Parts DEF Hands
    <3>2. Holders(k)' = Holders(k)  BY <1>1 DEF Holders
    <3>3. CASE k = m  BY <1>6, <1>7, <1>9, <1>11, <3>1, <3>2, <3>3 DEF MapOK
    <3>4. CASE k # m
      <4>1. map'[k] = map[k] /\ map[k].st # "tap" /\ tap' # k  BY <1>2, <1>6, <1>11, <3>1, <3>4, LearnerNumbers DEF MapOK
      <4>2. QED  BY <3>1, <3>2, <4>1 DEF MapOK
    <3>5. QED  BY <3>3, <3>4
  <2>2. pin' # None => map'[pin'].st # "unloaded"  BY <1>6, <1>9, <1>11
  <2>3. ASSUME NEW v \in Workers, worker'[v].via # ""  PROVE map'[worker'[v].h].st # "unloaded"
    <3>1. worker'[v] = worker[v] /\ worker[v].h \in Maps  BY <1>1, <2>3, Parts DEF Shaped
    <3>2. QED  BY <1>9, <1>11, <2>3, <3>1, Parts DEF Hands
  <2>4. QED  BY <2>1, <2>2, <2>3 DEF Hands
<1>17. Floor'
  <2>1. map'[m].ips = {}
    <3>1. MapOK(m)  BY <1>5, Parts DEF Hands
    <3>2. QED  BY <1>5, <1>7, <1>9, <1>11, <3>1 DEF MapOK
  <2>2. QED  BY <1>1, <1>2, <1>6, <2>1 DEF Floor
<1>18. QED  BY <1>1, <1>12, <1>13, <1>14, <1>15, <1>16, <1>17, Parts DEF LInv

LEMMA PublishInv == ASSUME LInv, Publish PROVE LInv'
<1>1. /\ task = "attached" /\ FreshLearner # {} /\ task' = "up" /\ replaced' = replaced \cup ({registered} \ {None})
      /\ UNCHANGED <<map, tap, pin, worker, left, adrift>>
  BY DEF Publish
<1>2. own = None /\ pin = tap  BY <1>1, Parts DEF Stage
<1>3. PICK l : l = Least(FreshLearner)  OBVIOUS
<1>4. l \in FreshLearner
  <2>1. FreshLearner \in SUBSET Nat  BY LearnerNumbers DEF FreshLearner
  <2>2. QED  BY <1>1, <1>3, <2>1, LeastMember
<1>5. l \in Learners /\ learner[l].st = "unborn" /\ l # None  BY <1>4, LearnerNumbers DEF FreshLearner
<1>6. registered' = l /\ own' = l  BY <1>3 DEF Publish
<1>7. PICK cap \in Caps : learner' = [learner EXCEPT ![l].st = "live", ![l].allow = AllowDomains, ![l].cap = cap]
  BY <1>3 DEF Publish
<1>8. PICK nop \in BOOLEAN, allow \in SUBSET Domains : nop = FALSE /\ allow = AllowDomains  BY LearnAssumption
<1>9. learner' = [learner EXCEPT ![l] = [@ EXCEPT !.st = "live", !.nop = nop, !.allow = allow, !.cap = cap]]
  <2>1. learner[l] = Unborn  BY <1>5, Parts DEF TableOK
  <2>2. [Unborn EXCEPT !.st = "live", !.nop = nop, !.allow = allow, !.cap = cap]
          = [Unborn EXCEPT !.st = "live", !.allow = AllowDomains, !.cap = cap]
    <3>1. PICK r : r = [Unborn EXCEPT !.st = "live", !.allow = AllowDomains, !.cap = cap]  OBVIOUS
    <3>2. PICK s : s = [Unborn EXCEPT !.st = "live", !.nop = FALSE, !.allow = AllowDomains, !.cap = cap]  OBVIOUS
    <3>3. r = [st |-> "live", nop |-> FALSE, on |-> TRUE, allow |-> AllowDomains, cap |-> cap,
               tab |-> [e \in Entries |-> "none"], total |-> 0]
      BY <3>1 DEF Unborn, Entries
    <3>4. s = [st |-> "live", nop |-> FALSE, on |-> TRUE, allow |-> AllowDomains, cap |-> cap,
               tab |-> [e \in Entries |-> "none"], total |-> 0]
      BY <3>2 DEF Unborn, Entries
    <3>5. QED  BY <1>8, <3>1, <3>2, <3>3, <3>4
  <2>3. learner' = [learner EXCEPT ![l] = [Unborn EXCEPT !.st = "live", !.allow = AllowDomains, !.cap = cap]]
    BY <1>5, <1>7, <2>1, Parts
  <2>4. QED  BY <2>1, <2>2, <2>3
<1>10. /\ LearnersKept /\ learner'[l].st = "live" /\ learner'[l].nop = nop
       /\ \A ip \in IPs : ~InTable(learner'[l], ip)
       /\ \A k \in Learners \ {l} : learner'[k] = learner[k]
  BY <1>4, <1>9, LearnerMade
<1>11. \A v \in Workers : Born(worker[v].l)' /\ Born(worker[v].win)'  BY <1>1, <1>10, AllStillBorn
<1>12. Named'  BY <1>5, <1>6, <1>8, <1>10, <1>11 DEF Named, Born
<1>13. LearnType'
  <2>1. registered \in Learners \cup {None} /\ replaced \subseteq Learners  BY Parts DEF LearnType
  <2>2. replaced' \subseteq Learners  BY <1>1, <2>1
  <2>3. QED  BY <1>1, <1>5, <1>6, <1>10, <2>2, Parts DEF LearnType, LearnersKept, KeptAs
<1>14. Stage'  BY <1>1, <1>2, <1>5, <1>6 DEF Stage
<1>15. Hands'  BY <1>1, HandsKept
<1>16. Known'
  <2>1. ASSUME NEW k \in Learners, learner'[k].st = "live", k # l
        PROVE  \/ k \in {registered', own'} \cup replaced'
               \/ \E v \in Workers : worker'[v].pc = "made" /\ worker'[v].l = k
    <3>1. learner[k].st = "live" /\ k # None  BY <1>10, <2>1, LearnerNumbers
    <3>2. \/ k \in {registered, own} \cup replaced
          \/ \E v \in Workers : worker[v].pc = "made" /\ worker[v].l = k
      BY <3>1, Parts DEF Known
    <3>3. QED  BY <1>1, <1>2, <3>1, <3>2
  <2>2. QED  BY <1>6, <2>1 DEF Known
<1>17. Floor'
  <2>1. ASSUME NEW v \in Workers  PROVE worker'[v].l # l
    <3>1. Born(worker[v].l)  BY Parts DEF Named
    <3>2. QED  BY <1>1, <1>5, <3>1 DEF Born
  <2>2. ASSUME tap # None, NEW ip \in IPs  PROVE ~IsLive(learner'[l], ip) /\ (ip \in map[tap].ips => ip \in adrift)
    <3>1. ~IsLive(learner'[l], ip)  BY <1>10 DEF IsLive, InTable
    <3>2. QED  BY <1>1, <2>2, <3>1, Parts DEF Floor
  <2>3. QED  BY <1>1, <1>6, <2>1, <2>2 DEF Floor
<1>18. \A k \in Learners : TableOK(learner'[k])  BY <1>10 DEF LearnersKept, KeptAs
<1>19. QED  BY <1>1, <1>12, <1>13, <1>14, <1>15, <1>16, <1>17, <1>18, Parts DEF LInv

LEMMA DetachMapInv == ASSUME LInv, DetachMap PROVE LInv'
<1>1. /\ task = "detach" /\ map' = Unregister(map) /\ tap' = None /\ own' = None /\ task' = "unpin"
      /\ UNCHANGED <<learner, registered, pin, worker, left, adrift, replaced>>
  BY DEF DetachMap
<1>2. own # None /\ pin = tap /\ learner[own].st # "live"  BY <1>1, Parts DEF Stage
<1>3. tap \in Maps \cup {None}  BY Parts DEF LearnType
<1>4. /\ map' \in [Maps -> MapRec] /\ \A k \in Maps \ {tap} : map'[k] = map[k]
      /\ tap # None => /\ map'[tap].refs = map[tap].refs /\ map'[tap].ips = map[tap].ips
                       /\ map'[tap].st = IF map[tap].refs > 0 THEN "retired" ELSE "closed"
  <2>1. CASE tap = None  BY <1>1, <2>1, Parts DEF Unregister
  <2>2. CASE tap # None
    <3>1. PICK m \in Maps : m = tap  BY <1>3, <2>2
    <3>2. PICK a \in MapRec : a = map[m]  BY Parts
    <3>3. PICK s \in {"retired", "closed"} : s = IF a.refs > 0 THEN "retired" ELSE "closed"  OBVIOUS
    <3>4. PICK b : b = [a EXCEPT !.st = s]  OBVIOUS
    <3>5. b \in MapRec /\ b.st = s /\ b.ips = a.ips /\ b.refs = a.refs  BY <3>4 DEF MapRec
    <3>6. map' = [map EXCEPT ![m] = b]  BY <1>1, <2>2, <3>1, <3>2, <3>3, <3>4, Parts DEF Unregister, retireLocked
    <3>7. map' \in [Maps -> MapRec] /\ map'[m] = b /\ \A k \in Maps \ {m} : map'[k] = map[k]  BY <3>5, <3>6, Parts
    <3>8. QED  BY <3>1, <3>2, <3>3, <3>5, <3>7
  <2>3. QED  BY <2>1, <2>2
<1>5. LearnType'  BY <1>1, <1>4, Parts DEF LearnType
<1>6. Named'  BY <1>1, Parts DEF Named, Born
<1>7. Stage'  BY <1>1 DEF Stage
<1>8. Floor'  BY <1>1 DEF Floor
<1>9. Known'
  <2>1. ASSUME NEW k \in Learners, learner'[k].st = "live"
        PROVE  \/ k \in {registered', own'} \cup replaced'
               \/ \E v \in Workers : worker'[v].pc = "made" /\ worker'[v].l = k
    BY <1>1, <1>2, <2>1, Parts DEF Known
  <2>2. QED  BY <2>1 DEF Known
<1>10. \A k \in Maps : map[k].st # "unloaded" => map'[k].st # "unloaded"  BY <1>3, <1>4, LearnerNumbers
<1>11. Hands'
  <2>1. ASSUME NEW k \in Maps  PROVE MapOK(k)'
    <3>1. MapOK(k)  BY Parts DEF Hands
    <3>2. Holders(k)' = Holders(k)  BY <1>1 DEF Holders
    <3>3. map[k].refs \in Nat /\ k # None  BY Parts, LearnerNumbers DEF MapRec
    <3>4. CASE k = tap  BY <1>1, <1>4, <3>1, <3>2, <3>3, <3>4 DEF MapOK
    <3>5. CASE k # tap
      <4>1. map'[k] = map[k]  BY <1>4, <3>5
      <4>2. QED  BY <1>1, <3>1, <3>2, <3>3, <3>5, <4>1 DEF MapOK
    <3>6. QED  BY <3>4, <3>5
  <2>2. pin' # None => map'[pin'].st # "unloaded"  BY <1>1, <1>2, <1>3, <1>4
  <2>3. ASSUME NEW v \in Workers, worker'[v].via # ""  PROVE map'[worker'[v].h].st # "unloaded"
    <3>1. worker'[v] = worker[v] /\ worker[v].h \in Maps  BY <1>1, <2>3, Parts DEF Shaped
    <3>2. QED  BY <1>10, <2>3, <3>1, Parts DEF Hands
  <2>4. QED  BY <2>1, <2>2, <2>3 DEF Hands
<1>12. QED  BY <1>1, <1>5, <1>6, <1>7, <1>8, <1>9, <1>11, Parts DEF LInv

-----------------------------------------------------------------------------
LEMMA LearnInitInv == ASSUME LearnInit PROVE LInv
<1>1. Unborn \in LearnerRec  BY DEF Unborn, LearnerRec, Entries
<1>2. Filled(Unborn) = {}  BY DEF Filled, Unborn, Entries
<1>3. TableOK(Unborn)
  <2>1. Unborn.total = 0 /\ Unborn.cap = 0  BY DEF Unborn
  <2>2. QED  BY <1>2, <2>1, FS_EmptySet DEF TableOK
<1>4. \A l \in Learners : learner[l] = Unborn  BY DEF LearnInit
<1>5. \A w \in Workers : worker[w] = Idle  BY DEF LearnInit
<1>6. Idle.l = None /\ Idle.win = None /\ Idle.via = "" /\ Idle.ops = <<>>  BY DEF Idle
<1>7. PICK z : z = [ips |-> {}, refs |-> 0, st |-> "unloaded"]  OBVIOUS
<1>8. z \in MapRec /\ z.ips = {} /\ z.refs = 0 /\ z.st = "unloaded"  BY <1>7 DEF MapRec
<1>9. map \in [Maps -> MapRec] /\ \A m \in Maps : map[m] = z  BY <1>7, <1>8 DEF LearnInit
<1>10. LearnType
  <2>1. learner \in [Learners -> LearnerRec] /\ worker \in [Workers -> WorkerRec]  BY <1>1, IdleOK DEF LearnInit
  <2>2. QED  BY <1>9, <2>1 DEF LearnType, LearnInit
<1>11. Named  BY <1>5, <1>6 DEF Named, Born, LearnInit
<1>12. Stage  BY DEF Stage, LearnInit
<1>13. ASSUME NEW m \in Maps  PROVE MapOK(m)
  <2>1. Holders(m) = {}  BY <1>5, <1>6 DEF Holders
  <2>2. m # None  BY LearnerNumbers
  <2>3. QED  BY <1>8, <1>9, <2>1, <2>2, FS_EmptySet DEF MapOK, LearnInit
<1>14. Hands  BY <1>5, <1>6, <1>13 DEF Hands, LearnInit
<1>15. Floor  BY DEF Floor, LearnInit
<1>16. Known
  <2>1. Unborn.st = "unborn"  BY DEF Unborn
  <2>2. QED  BY <1>4, <2>1 DEF Known
<1>17. QED  BY <1>3, <1>4, <1>5, <1>10, <1>11, <1>12, <1>14, <1>15, <1>16, IdleOK DEF LInv

\* Every step of the learners, their handlers and the task's filter keeps the invariant.
LEMMA LearnNextInv == ASSUME LInv, LearnNext PROVE LInv'
<1>1. CASE \E w \in Workers, l \in Learners, d \in Domains : Query(w, l, d)  BY <1>1, QueryInv
<1>2. CASE \E w \in Workers, S \in SUBSET IPs \ {{}} : Answer(w, S)  BY <1>2, AnswerInv
<1>3. CASE \E w \in Workers : NoAnswer(w) \/ TakeHandle(w) \/ WriteMap(w) \/ WriteFails(w)
  BY <1>3, NoAnswerInv, TakeHandleInv, WriteMapInv, WriteFailsInv
<1>14. CASE \E ip \in IPs : whitelistAdd(ip)  BY <1>14, WhitelistAddInv
<1>4. CASE \E l \in Learners : \E e \in Domains \X (IPs \ Private) : Expire(l, e)  BY <1>4, ExpireInv
<1>5. CASE \E w \in Workers, l \in Learners : sweep(w, l)  BY <1>5, SweepInv
<1>6. CASE Attach \/ AttachFails \/ Publish  BY <1>6, AttachInv, AttachFailsInv, PublishInv
<1>7. CASE dnsTeardown \/ Torn \/ DetachMap \/ Unpin  BY <1>7, TeardownInv, TornInv, DetachMapInv, UnpinInv
<1>8. CASE \E w \in Workers, d \in Domains : PostAllow(w, d) \/ Drop(w, d)  BY <1>8, PostAllowInv, DropInv
<1>9. CASE \E w \in Workers, d \in Domains : ensureDNSLearner(w, d, {})
  <2>1. PICK w \in Workers, d \in Domains \cup {""}, D \in SUBSET Domains : ensureDNSLearner(w, d, D)  BY <1>9
  <2>2. QED  BY <2>1, EnsureInv
<1>10. CASE \E w \in Workers : ensureDNSLearner(w, "", AllowDomains)
  <2>1. AllowDomains \in SUBSET Domains  BY LearnAssumption
  <2>2. PICK w \in Workers, d \in Domains \cup {""}, D \in SUBSET Domains : ensureDNSLearner(w, d, D)  BY <1>10, <2>1
  <2>3. QED  BY <2>2, EnsureInv
<1>11. CASE \E w \in Workers : GetOrCreate(w) \/ DeletePolicy(w) \/ Waited(w)
  BY <1>11, GetOrCreateInv, DeletePolicyInv, WaitedInv
<1>12. CASE \E on \in BOOLEAN, D \in {{}} \cup {{d} : d \in Domains} : PutPolicy(on, D)
  <2>1. PICK on \in BOOLEAN, D \in SUBSET Domains : PutPolicy(on, D)  BY <1>12
  <2>2. QED  BY <2>1, PutPolicyInv
<1>13. QED
  BY <1>1, <1>2, <1>3, <1>4, <1>5, <1>6, <1>7, <1>8, <1>9, <1>10, <1>11, <1>12, <1>14 DEF LearnNext

\* Steps of the rest of the system leave the learners alone.
LEMMA ElsewhereInv ==
    ASSUME LInv, UNCHANGED <<learner, registered, own, task, map, tap, pin, worker, adrift, replaced>>  PROVE LInv'
<1>1. LearnersKept /\ NoneRevived /\ QueuesKept  BY LearnersStay, QueuesStay
<1>2. \A v \in Workers : Born(worker[v].l)' /\ Born(worker[v].win)'  BY <1>1, AllStillBorn
<1>3. Born(registered)'  BY RegisteredBorn DEF Born
<1>4. Stage'  BY StageKept
<1>5. Known'  BY KnownKept
<1>6. QED  BY <1>1, <1>2, <1>3, <1>4, <1>5, QuietStep, Parts DEF LearnType

\* The invariant says what the learners promise.
LEMMA LearnerFollows == ASSUME LInv PROVE LearnerSound
<1>1. ASSUME NEW l \in Learners  PROVE Counted(l)
  <2>1. DOMAIN learner[l].tab = Entries  BY Parts DEF LearnerRec
  <2>2. TableOK(learner[l])  BY Parts
  <2>3. QED  BY <2>1, <2>2 DEF Counted, TableOK, Filled
<1>2. ASSUME task = "up", tap # None
      PROVE  /\ Live(own) \subseteq map[tap].ips \cup Pending(own, "add") \cup adrift
             /\ map[tap].ips \subseteq Tabled(own) \cup Pending(own, "del") \cup adrift
  <2>1. own # None /\ own \in Learners  BY <1>2, Parts, OwnBorn DEF Stage
  <2>2. PICK r : r = learner[own]  OBVIOUS
  <2>3. DOMAIN r.tab = Entries  BY <2>1, <2>2, Parts DEF LearnerRec
  <2>4. map[tap].ips \subseteq IPs  BY <1>2, Parts DEF LearnType, MapRec
  <2>5. ASSUME NEW kind, NEW ip, Queued(worker, own, kind, ip)  PROVE ip \in Pending(own, kind)
    <3>1. PICK w \in Workers : worker[w].l = own /\ \E i \in DOMAIN worker[w].ops :
                                  worker[w].ops[i].op = kind /\ worker[w].ops[i].ip = ip
      BY <2>5 DEF Queued
    <3>2. PICK i \in DOMAIN worker[w].ops : worker[w].ops[i].op = kind /\ worker[w].ops[i].ip = ip  BY <3>1
    <3>3. w \in {v \in Workers : worker[v].l = own /\ \E j \in DOMAIN worker[v].ops : worker[v].ops[j].op = kind}
      BY <3>1
    <3>4. ip \in {o.ip : o \in {worker[w].ops[j] : j \in DOMAIN worker[w].ops}}  BY <3>2
    <3>5. QED  BY <3>3, <3>4 DEF Pending
  <2>6. ASSUME NEW ip \in Live(own)  PROVE ip \in IPs /\ IsLive(r, ip)
    <3>1. PICK e \in Entries : e[2] = ip /\ r.tab[e] = "live"  BY <2>2, <2>3 DEF Live
    <3>2. QED  BY <3>1 DEF IsLive, Entries
  <2>7. ASSUME NEW ip, InTable(r, ip)  PROVE ip \in Tabled(own)
    <3>1. PICK e \in Entries : e[2] = ip /\ r.tab[e] # "none"  BY <2>7 DEF InTable
    <3>2. QED  BY <2>2, <2>3, <3>1 DEF Tabled
  <2>8. ASSUME NEW ip \in IPs
        PROVE  /\ IsLive(r, ip) => ip \in map[tap].ips \cup adrift \/ Queued(worker, own, "add", ip)
               /\ ip \in map[tap].ips => ip \in adrift \/ InTable(r, ip) \/ Queued(worker, own, "del", ip)
    BY <1>2, <2>1, <2>2, Parts DEF Floor
  <2>9. Live(own) \subseteq map[tap].ips \cup Pending(own, "add") \cup adrift  BY <2>5, <2>6, <2>8
  <2>10. map[tap].ips \subseteq Tabled(own) \cup Pending(own, "del") \cup adrift  BY <2>4, <2>5, <2>7, <2>8
  <2>11. QED  BY <2>9, <2>10
<1>3. FloorMatchesTable  BY <1>1, <1>2 DEF FloorMatchesTable
<1>4. ASSUME NEW w \in Workers, worker[w].via = "tap"  PROVE map[worker[w].h].st # "closed"
  <2>1. PICK m \in Maps : m = worker[w].h  BY <1>4, Parts DEF Shaped
  <2>2. MapOK(m) /\ w \in Holders(m)  BY <1>4, <2>1, Parts DEF Hands, Holders
  <2>3. map[m].refs # 0  BY <2>2, FS_EmptySet DEF MapOK
  <2>4. QED  BY <2>1, <2>2, <2>3 DEF MapOK
<1>5. NothingLeaked
  <2>1. \A m \in Maps : MapOK(m)  BY Parts DEF Hands
  <2>2. QED  BY <1>4, <2>1, Parts DEF NothingLeaked, MapOK, Known
<1>6. QED  BY <1>3, <1>5 DEF LearnerSound

\* The rest of the system leaves the learners alone.
LEMMA FloorNext == LInv /\ [Next]_<<lvars, gvars>> => LInv'
<1> SUFFICES ASSUME LInv, [Next]_<<lvars, gvars>> PROVE LInv'  OBVIOUS
<1>1. CASE LearnNext  BY <1>1, LearnNextInv
<1>2. CASE UNCHANGED lvars  BY <1>2, ElsewhereInv DEF lvars
<1>3. CASE \E p \in Policies : SetPolicy(p)  BY <1>3, ElsewhereInv DEF SetPolicy
<1>4. ASSUME NEW c \in Conns, FlowNext(c)  PROVE LInv'
  <2>1. CASE \E k \in {"connect", "splice", "http"}, h \in Domains, p \in {"web", "other"}, op \in Ops :
                Accept(c, k, h, p, op)
    BY <2>1, ElsewhereInv DEF Accept
  <2>2. CASE UNCHANGED lvars  BY <1>2, <2>2
  <2>3. CASE \E ip \in IPs : Dial(c, ip)  BY <2>2, <2>3 DEF Dial, Step
  <2>4. CASE \E op \in Ops, ch \in BOOLEAN, lv \in BOOLEAN : MitmRequest(c, op, ch, lv)
    BY <2>2, <2>4 DEF MitmRequest, Step
  <2>5. CASE Guard(c) \/ DialFails(c) \/ Track(c)  BY <2>2, <2>5 DEF Guard, DialFails, Track, Step
  <2>6. CASE \E n \in 0 .. MaxSent : Reply(c, n) \/ ReplyFails(c, n)  BY <2>2, <2>6 DEF Reply, ReplyFails, Step
  <2>7. CASE PipeEnds(c) \/ HttpEnds(c) \/ SpliceEnds(c) \/ MitmEnds(c)
    BY <2>2, <2>7 DEF PipeEnds, HttpEnds, SpliceEnds, MitmEnds, Step
  <2>8. CASE Upload(c) \/ ClientCloses(c) \/ UpstreamCloses(c) \/ SendBody(c)
    BY <2>2, <2>8 DEF Upload, ClientCloses, UpstreamCloses, SendBody, Step
  <2>9. CASE CloseSwept(c)  BY <2>2, <2>9 DEF CloseSwept
  <2>10. QED  BY <1>4, <2>1, <2>3, <2>4, <2>5, <2>6, <2>7, <2>8, <2>9 DEF FlowNext
<1>5. QED  BY <1>1, <1>2, <1>3, <1>4 DEF Next

(***************************************************************************)
(* While a task with a filter runs with its learner, every address of a    *)
(* live table entry is in the whitelist map or about to be written, and    *)
(* every address in the map stands in the table or is about to be deleted, *)
(* save the addresses whose write lost a race or failed, or that the       *)
(* command line wrote (dnslearn.go ProcessResponse, Drop, sweep;           *)
(* cmd/agentpvm/main.go); no table outgrows its cap; no map is     *)
(* closed under a goroutine that holds it or kept when nobody can reach it *)
(* (network/filter.go); and no learner runs that nobody knows              *)
(* (api/dns_egress.go): for any number of names, addresses, goroutines,    *)
(* learners and maps.                                                      *)
(***************************************************************************)
THEOREM FloorSound == Spec => []LearnerSound
<1>1. Init => LInv  BY LearnInitInv DEF Init
<1>2. LInv => LearnerSound  BY LearnerFollows
<1>3. QED  BY <1>1, <1>2, FloorNext, PTL DEF Spec
=============================================================================
