------------------------------- MODULE Egress -------------------------------
(***************************************************************************)
(* The egress gateway of one task (internal/network/egress), over the      *)
(* DNS-learned floor of DnsLearn.                                          *)
(*                                                                         *)
(* A flow of the guest is a CONNECT tunnel, a plain request through the    *)
(* proxy or a redirected TLS connection (a splice).  It is judged once, by *)
(* the policy and generation read when it arrives; the dial, the address   *)
(* floor, the rebinding guard and the registration follow as steps of      *)
(* their own, and SetPolicy may come between any two of them.              *)
(*                                                                         *)
(* Hosts are the names of DnsLearn.  Of a request the policy tells apart   *)
(* its host, scheme, port and operation (the method and path of a request  *)
(* the gateway can read).                                                  *)
(***************************************************************************)
EXTENDS DnsLearn

CONSTANTS
    Conns,      \* flows of the guest
    Policies,   \* policies the controller installs, by name
    Terms,      \* what each of them says: block list, allow list, rules, body cap
    Ops,        \* operations a readable request can carry
    MaxSent     \* bound: chunks a flow uploads

NoPolicy == ""

ASSUME EgressAssumption ==
    /\ MaxSent \in Nat \ {0} /\ DOMAIN Terms = Policies /\ NoPolicy \notin Policies
    /\ 0 \notin IPs  \* no address

VARIABLES
    policy,   \* the task's policy, NoPolicy before the first SetPolicy
    gen,      \* its generation
    tunnels,  \* the flows registered as live tunnels
    closing,  \* those a SetPolicy has taken off and is about to close
    conn      \* the flows

gvars == <<policy, gen, tunnels, closing, conn>>

Fresh == [pc |-> "idle", kind |-> "", host |-> "", port |-> "", op |-> "", ip |-> 0,
          gen |-> 0, pol |-> NoPolicy, cl |-> "open", up |-> "none",
          sent |-> 0, early |-> 0, billed |-> 0, mitm |-> FALSE, chunked |-> FALSE]

Init ==
    /\ LearnInit
    /\ policy = NoPolicy /\ gen = 0
    /\ tunnels = {} /\ closing = {}
    /\ conn = [c \in Conns |-> Fresh]

-----------------------------------------------------------------------------
(* The verdict.                                                            *)

\* StartTask: the hosts of every rule also join one of the two flat lists.
policyOf(allow, block, rules, body) ==
    LET hosts(ok) == UNION {rules[i].hosts : i \in {j \in DOMAIN rules : rules[j].allow = ok}}
    IN  [allow |-> allow \cup hosts(TRUE), block |-> block \cup hosts(FALSE),
         rules |-> rules, body |-> body]

\* A rule matches when every constraint it carries does; unset ones are wildcards.
ruleMatches(r, v) ==
    /\ v.host \in r.hosts
    /\ r.ops = {} \/ v.op \in r.ops
    /\ r.scheme \in {"", v.scheme}
    /\ r.port \in {"", v.port}

\* The block list first, then the first rule that fully matches, else the allow list.
decideDomain(v, p) ==
    IF v.host \in p.block THEN "block"
    ELSE IF p.rules = <<>> THEN (IF v.host \in p.allow THEN "allow" ELSE "block")
    ELSE LET hits == {i \in DOMAIN p.rules : ruleMatches(p.rules[i], v)}
         IN  IF hits = {} THEN "block"
             ELSE IF p.rules[Least(hits)].allow THEN "allow" ELSE "block"

\* ruleMITM: some rule for the host asks for interception.
ruleMITM(host, p) == \E i \in DOMAIN p.rules : p.rules[i].mitm /\ host \in p.rules[i].hosts

\* viewFromConnect, viewFromHTTP, and the view serveTransparentTLS makes.
View(c) ==
    [host |-> c.host, port |-> c.port,
     scheme |-> IF c.kind = "http" THEN "http" ELSE "https",
     op |-> CASE c.kind = "connect" -> "CONNECT" [] c.kind = "http" -> c.op [] OTHER -> ""]

\* The ports a flat allowlist leaves to a CONNECT.
PortAllowed(c, p) == (c.kind = "connect" /\ p.rules = <<>>) => c.port = "web"

\* handle, handleConnect, handleHTTP, serveTransparent up to the dial.
Verdict(c, p) == p # NoPolicy /\ decideDomain(View(c), Terms[p]) = "allow" /\ PortAllowed(c, Terms[p])

-----------------------------------------------------------------------------
SetPolicy(p) ==
    /\ Spend
    /\ policy' = p /\ gen' = gen + 1
    /\ closing' = closing \cup tunnels
    /\ tunnels' = {}
    /\ UNCHANGED <<conn, learner, registered, own, task, map, tap, pin, worker, adrift, replaced>>

\* The sweep closes outside the lock, one connection at a time.
CloseSwept(c) ==
    /\ c \in closing
    /\ closing' = closing \ {c}
    /\ conn' = [conn EXCEPT ![c].cl = "closed"]
    /\ UNCHANGED <<policy, gen, tunnels, lvars>>

Step(c, r) == conn' = [conn EXCEPT ![c] = r] /\ UNCHANGED <<policy, gen, closing, lvars>>

\* Both connections are closed; of the flow only its account is left, with b billed.
Ended(r, b) ==
    [pc |-> "done", kind |-> r.kind, host |-> "", port |-> "", op |-> "", ip |-> 0, gen |-> 0, pol |-> NoPolicy,
     cl |-> "closed", up |-> "closed", sent |-> r.sent, early |-> r.early, billed |-> b,
     mitm |-> r.mitm, chunked |-> r.chunked]
Done(c) == Ended(conn[c], conn[c].billed)

\* policyWithGen, the verdict, and where the flow goes.
Accept(c, kind, host, port, op) ==
    /\ conn[c].pc = "idle" /\ Spend
    /\ LET r == [conn[c] EXCEPT !.kind = kind, !.host = host, !.port = port, !.op = op,
                                !.gen = gen, !.pol = policy]
       IN  conn' = [conn EXCEPT ![c] =
               IF ~Verdict(r, policy) THEN Ended(r, 0)
               ELSE IF kind # "http" /\ ruleMITM(host, Terms[policy]) THEN [r EXCEPT !.pc = "intercept", !.mitm = TRUE]
               ELSE [r EXCEPT !.pc = "dial"]]
    /\ UNCHANGED <<policy, gen, tunnels, closing,
                   learner, registered, own, task, map, tap, pin, worker, adrift, replaced>>

\* The dial lands somewhere, or fails; private addresses are refused after it.
Dial(c, ip) ==
    /\ conn[c].pc = "dial"
    /\ Step(c, IF ip \in Private THEN Done(c)
               ELSE [conn[c] EXCEPT !.pc = "guard", !.ip = ip, !.up = "open"])
    /\ UNCHANGED tunnels

DialFails(c) == conn[c].pc = "dial" /\ Step(c, Done(c)) /\ UNCHANGED tunnels

\* learnedDialSet, sniGuardActive: the address must be one the guest was told.
Guard(c) ==
    /\ conn[c].pc = "guard"
    /\ LET set  == IF registered = None THEN {} ELSE LearnedIPs(registered, conn[c].host)
           open == set = {} /\ ~(conn[c].kind = "splice" /\ registered # None)
       IN  Step(c, IF ~(open \/ conn[c].ip \in set) THEN Done(c)
                   ELSE [conn[c] EXCEPT !.pc = IF conn[c].kind = "http" THEN "body" ELSE "track"])
    /\ UNCHANGED tunnels

(* Mutant: the tunnel is registered whatever happened since the verdict. *)
trackTunnelIfFresh_Always(c) == TRUE

\* trackTunnelIfFresh: registered only under the generation of the verdict.
trackTunnelIfFresh(c) == conn[c].gen = gen

Track(c) ==
    /\ conn[c].pc \in {"track", "intercept"}
    /\ IF trackTunnelIfFresh(c)
       THEN /\ tunnels' = tunnels \cup {c}
            /\ Step(c, [conn[c] EXCEPT !.pc =
                   IF @ = "intercept" THEN "mitm" ELSE IF conn[c].kind = "splice" THEN "splice" ELSE "reply"])
       ELSE Step(c, Done(c)) /\ UNCHANGED tunnels

-----------------------------------------------------------------------------
(* CONNECT: the handler returns once its two pipes run, and untracks.      *)

\* What the guest wrote behind its CONNECT is in the reader the handler took
\* over: n chunks go upstream before the pipes start, and nobody counts them.
Reply(c, n) ==
    /\ conn[c].pc = "reply" /\ conn[c].cl = "open"
    /\ Step(c, [conn[c] EXCEPT !.pc = "pipe", !.sent = n, !.early = n])
    /\ tunnels' = tunnels \ {c}

\* The answer cannot be written, or the upstream fails after n of those chunks.
ReplyFails(c, n) ==
    /\ conn[c].pc = "reply"
    /\ Step(c, Ended([conn[c] EXCEPT !.sent = n, !.early = n], 0))
    /\ tunnels' = tunnels \ {c}

(* Mutant: only the download copy is accounted. *)
PipeEnds_Unbilled(c) ==
    /\ conn[c].pc = "pipe" /\ "closed" \in {conn[c].cl, conn[c].up}
    /\ Step(c, Done(c))
    /\ UNCHANGED tunnels

\* Either copy ends when one side is closed; both ends close, and what the
\* upload copy carried is billed.
PipeEnds(c) ==
    /\ conn[c].pc = "pipe" /\ "closed" \in {conn[c].cl, conn[c].up}
    /\ Step(c, Ended(conn[c], conn[c].sent - conn[c].early))
    /\ UNCHANGED tunnels

Upload(c) ==
    /\ conn[c].pc \in {"pipe", "splice"} /\ conn[c].sent < MaxSent
    /\ conn[c].cl = "open" /\ conn[c].up = "open"
    /\ Step(c, [conn[c] EXCEPT !.sent = @ + 1])
    /\ UNCHANGED tunnels

ClientCloses(c) ==
    /\ conn[c].pc \in {"pipe", "splice", "mitm"} /\ conn[c].cl = "open"
    /\ Step(c, [conn[c] EXCEPT !.cl = "closed"])
    /\ UNCHANGED tunnels

UpstreamCloses(c) ==
    /\ conn[c].pc \in {"pipe", "splice"} /\ conn[c].up = "open"
    /\ Step(c, [conn[c] EXCEPT !.up = "closed"])
    /\ UNCHANGED tunnels

\* serveTransparentTLS waits for both copies; the other one ends when its side
\* closes or sends into the closed connection.
SpliceEnds(c) ==
    /\ conn[c].pc = "splice" /\ "closed" \in {conn[c].cl, conn[c].up}
    /\ Step(c, Done(c))
    /\ tunnels' = tunnels \ {c}

-----------------------------------------------------------------------------
(* Interception: the inner requests are judged by the policy of the tunnel.*)

Inner(c, op) == decideDomain([View(conn[c]) EXCEPT !.op = op], Terms[conn[c].pol]) = "allow"

\* A declared length is billed before the request is forwarded, a chunked body never.
MitmRequest(c, op, chunked, leaves) ==
    /\ conn[c].pc = "mitm" /\ conn[c].cl = "open" /\ conn[c].sent < MaxSent
    /\ Inner(c, op)
    /\ Step(c, [conn[c] EXCEPT !.sent = IF leaves THEN @ + 1 ELSE @,
                               !.billed = IF chunked THEN @ ELSE @ + 1,
                               !.chunked = @ \/ chunked])
    /\ conn'[c].billed <= MaxSent
    /\ UNCHANGED tunnels

\* The client left, the handshake failed, no CA is armed or a body broke the cap.
MitmEnds(c) ==
    /\ conn[c].pc = "mitm"
    /\ Step(c, Done(c))
    /\ tunnels' = tunnels \ {c}

-----------------------------------------------------------------------------
(* A plain request: its body is limited, and billed however it ends.       *)

SendBody(c) ==
    /\ conn[c].pc = "body" /\ conn[c].sent < MaxSent
    /\ Terms[conn[c].pol].body = 0 \/ conn[c].sent <= Terms[conn[c].pol].body
    /\ Step(c, [conn[c] EXCEPT !.sent = @ + 1])
    /\ UNCHANGED tunnels

\* An upstream error, a body over the cap, or the relayed response.
HttpEnds(c) ==
    /\ conn[c].pc = "body"
    /\ Step(c, Ended(conn[c], conn[c].sent))
    /\ UNCHANGED tunnels

-----------------------------------------------------------------------------
FlowNext(c) ==
    \/ \E k \in {"connect", "splice", "http"}, h \in Domains, p \in {"web", "other"}, op \in Ops :
          /\ k # "http" => op = CHOOSE o \in Ops : TRUE
          /\ k = "connect" \/ p = "web"
          /\ Accept(c, k, h, p, op)
    \/ \E ip \in IPs : Dial(c, ip)
    \/ DialFails(c) \/ Guard(c) \/ Track(c) \/ PipeEnds(c)
    \/ \E n \in 0 .. MaxSent : Reply(c, n) \/ ReplyFails(c, n)
    \/ Upload(c) \/ ClientCloses(c) \/ UpstreamCloses(c) \/ SpliceEnds(c)
    \/ \E op \in Ops, ch \in BOOLEAN, lv \in BOOLEAN : MitmRequest(c, op, ch, lv)
    \/ MitmEnds(c) \/ SendBody(c) \/ HttpEnds(c) \/ CloseSwept(c)

Next ==
    \/ LearnNext /\ UNCHANGED gvars
    \/ \E p \in Policies : SetPolicy(p)
    \/ \E c \in Conns : FlowNext(c)

Spec == Init /\ [][Next]_<<lvars, gvars>>

-----------------------------------------------------------------------------
(***************************************************************************)
(* A tunnel that carries the guest's bytes is one the policy in force      *)
(* allows, unless a SetPolicy is about to close it (gateway.go SetPolicy,  *)
(* trackTunnelIfFresh): it holds across updates that land between the      *)
(* verdict, the dial and the registration.  Raw CONNECT tunnels are held   *)
(* to it only until their handler returns, because it untracks them then.  *)
(***************************************************************************)
TunnelsObeyPolicy ==
    \A c \in Conns :
        (conn[c].pc \in {"reply", "splice", "mitm"} /\ conn[c].cl = "open" /\ c \notin closing) =>
            /\ Verdict(conn[c], policy)
            /\ c \in tunnels
            /\ conn[c].ip \notin Private

(***************************************************************************)
(* When a flow has ended, what it uploaded is billed to the task           *)
(* (gateway.go pipe, handleHTTP; mitm.go serveMITM): exactly for plain     *)
(* requests and for CONNECT tunnels but for the bytes that the guest wrote *)
(* before it had its answer (early), which handleConnect forwards on its   *)
(* own; at least for intercepted ones.  Spliced flows and chunked bodies   *)
(* inside an interception are never billed.                                *)
(***************************************************************************)
UploadBilled ==
    \A c \in Conns :
        (conn[c].pc = "done" /\ conn[c].kind # "splice" /\ ~conn[c].chunked) =>
            /\ conn[c].billed + conn[c].early >= conn[c].sent
            /\ conn[c].mitm \/ conn[c].billed + conn[c].early = conn[c].sent
            /\ conn[c].early > 0 => conn[c].kind = "connect"
=============================================================================
