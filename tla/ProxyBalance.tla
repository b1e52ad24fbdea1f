----------------------------- MODULE ProxyBalance -----------------------------
(***************************************************************************)
(* The reverse proxy of one zone in one server process: the choice of an   *)
(* upstream, the attempt and its retry, the connections kept for reuse,    *)
(* the WebSocket tunnels, the health of the upstreams (passive, by probes, *)
(* set by hand) and the limit of concurrent requests.  The event loop runs *)
(* one handler at a time; a step is what a handler does between two awaits.*)
(*                                                                         *)
(* Routing rules, the sticky cookie and every strategy choose among the    *)
(* same candidates: the choice is nondeterministic.                        *)
(***************************************************************************)
EXTENDS Naturals, FiniteSets

CONSTANTS
    Upstream,
    Request,
    NoUpstream,
    Limit,          \* max_concurrent_requests of each upstream
    UnhealthyAfter, \* consecutive failures that make an upstream DOWN
    HealthyAfter,   \* consecutive successes that bring it back
    MaxIdle,        \* connections kept per upstream
    MaxProbes,      \* bound: results of the probes
    MaxByHand       \* bound: changes made by the administrator

ASSUME BalanceAssumption ==
    /\ IsFiniteSet(Request)
    /\ NoUpstream \notin Upstream
    /\ Limit \in [Upstream -> Nat]
    /\ {UnhealthyAfter, HealthyAfter, MaxIdle, MaxProbes, MaxByHand} \subseteq Nat

VARIABLES
    method,     \* of each request: "safe" (GET, HEAD, OPTIONS), "effect", "websocket"
    phase,      \* where its handler is
    at,         \* the upstream it occupies
    reused,     \* it was sent on a connection kept from before
    first,      \* the upstream of its first attempt, once that has failed
    active,     \* _active_connections
    failures, successes, down,   \* ProxyHealthState
    manual,     \* states set by hand
    idle,       \* connections kept
    \* history variables and bounds
    forced,     \* the request was let in although no upstream was up
    reached,    \* the upstreams it was sent to
    fresh,      \* times it was sent on a connection opened for it
    probes, byHand

healthVars  == <<failures, successes, down>>
balanceVars == <<method, phase, at, reused, first, active, healthVars, manual, idle,
                 forced, reached, fresh, probes, byHand>>

Waiting   == {"connecting", "sent"}
AtWork(r) == phase[r] \in Waiting \cup {"tunnel"}

BalanceInit ==
    /\ method = [r \in Request |-> "safe"] /\ phase = [r \in Request |-> "new"]
    /\ at = [r \in Request |-> NoUpstream] /\ first = [r \in Request |-> NoUpstream]
    /\ reused = [r \in Request |-> FALSE]
    /\ active = [u \in Upstream |-> 0]
    /\ failures = [u \in Upstream |-> 0] /\ successes = [u \in Upstream |-> 0] /\ down = {}
    /\ manual = [u \in Upstream |-> "none"]
    /\ idle = [u \in Upstream |-> 0]
    /\ forced = [r \in Request |-> FALSE] /\ reached = [r \in Request |-> {}]
    /\ fresh = [r \in Request |-> 0]
    /\ probes = 0 /\ byHand = 0

(***************************************************************************)
(* resolve_upstream.                                                       *)
(***************************************************************************)
IsEligible(u, dn) == manual[u] = "none" /\ u \notin dn

\* Mutant of IsAtCapacity: one request too many.
IsAtCapacityPast(u, count) == count[u] > Limit[u]

IsAtCapacity(u, count) == count[u] >= Limit[u]

Healthy(exclude, dn) == {u \in Upstream \ exclude : IsEligible(u, dn)}

\* Nothing is up: the least bad one is tried, full or not.  Everything up is full: none, a 503.
Candidates(exclude, count, dn) ==
    IF Healthy(exclude, dn) = {} THEN Upstream \ exclude
    ELSE {u \in Healthy(exclude, dn) : ~IsAtCapacity(u, count)}

(***************************************************************************)
(* An attempt: it takes its place, then uses a kept connection or opens    *)
(* one.  Kept connections that are closing are thrown away on the way.     *)
(***************************************************************************)
Attempt(r, m, u, exclude, count, dn) ==
    /\ at' = [at EXCEPT ![r] = u]
    /\ active' = [count EXCEPT ![u] = @ + 1]
    /\ forced' = [forced EXCEPT ![r] = Healthy(exclude, dn) = {}]
    /\ \/ /\ m # "websocket"
          /\ \E n \in 1..idle[u] : idle' = [idle EXCEPT ![u] = n - 1]
          /\ phase' = [phase EXCEPT ![r] = "sent"] /\ reused' = [reused EXCEPT ![r] = TRUE]
          /\ reached' = [reached EXCEPT ![r] = @ \cup {u}]
       \/ /\ idle' = IF m = "websocket" THEN idle ELSE [idle EXCEPT ![u] = 0]
          /\ phase' = [phase EXCEPT ![r] = "connecting"] /\ reused' = [reused EXCEPT ![r] = FALSE]
          /\ UNCHANGED reached
    /\ UNCHANGED fresh

Leave(r, answer) ==
    /\ phase' = [phase EXCEPT ![r] = answer]
    /\ at' = [at EXCEPT ![r] = NoUpstream]
    /\ reused' = [reused EXCEPT ![r] = FALSE] /\ forced' = [forced EXCEPT ![r] = FALSE]

Released(u) == [active EXCEPT ![u] = IF @ = 0 THEN 0 ELSE @ - 1]

Serve(r) ==
    /\ phase[r] = "new"
    /\ \E m \in {"safe", "effect", "websocket"} : method' = [method EXCEPT ![r] = m]
    /\ IF Candidates({}, active, down) = {}
       THEN Leave(r, "503") /\ UNCHANGED <<active, idle, reached, fresh>>
       ELSE \E u \in Candidates({}, active, down) : Attempt(r, method'[r], u, {}, active, down)
    /\ UNCHANGED <<first, healthVars, manual, probes, byHand>>

\* The connection is open and the request written.
Send(r) ==
    /\ phase[r] = "connecting" /\ phase' = [phase EXCEPT ![r] = "sent"]
    /\ reached' = [reached EXCEPT ![r] = @ \cup {at[r]}]
    /\ fresh' = [fresh EXCEPT ![r] = @ + 1]
    /\ UNCHANGED <<method, at, reused, first, active, healthVars, manual, idle, forced, probes, byHand>>

\* No answer on a kept connection, closed by the upstream or too slow: sent again on a new one.
SendAgain(r) ==
    /\ phase[r] = "sent" /\ reused[r]
    /\ phase' = [phase EXCEPT ![r] = "connecting"] /\ reused' = [reused EXCEPT ![r] = FALSE]
    /\ UNCHANGED <<method, at, first, active, healthVars, manual, idle, forced, reached, fresh, probes, byHand>>

(***************************************************************************)
(* ProxyHealthState, fed by the requests and by the probes alike.          *)
(***************************************************************************)
RecordSuccess(u) ==
    /\ failures' = [failures EXCEPT ![u] = 0]
    /\ successes' = [successes EXCEPT ![u] = IF @ < HealthyAfter THEN @ + 1 ELSE @]
    /\ down' = IF successes[u] + 1 >= HealthyAfter THEN down \ {u} ELSE down

RecordFailure(u) ==
    /\ successes' = [successes EXCEPT ![u] = 0]
    /\ failures' = [failures EXCEPT ![u] = IF @ < UnhealthyAfter THEN @ + 1 ELSE @]
    /\ down' = IF failures[u] + 1 >= UnhealthyAfter THEN down \cup {u} ELSE down

\* An answer, whatever its status.  Its connection is kept when its length was known.
Answered(r) ==
    /\ phase[r] = "sent" /\ method[r] # "websocket"
    /\ RecordSuccess(at[r])
    /\ active' = Released(at[r])
    /\ Leave(r, "answered")
    /\ \/ UNCHANGED idle
       \/ idle[at[r]] < MaxIdle /\ idle' = [idle EXCEPT ![at[r]] = @ + 1]
    /\ UNCHANGED <<method, first, manual, reached, fresh, probes, byHand>>

\* The handshake is answered: a tunnel that keeps its place, or a refusal.
Handshake(r) ==
    /\ phase[r] = "sent" /\ method[r] = "websocket"
    /\ RecordSuccess(at[r])
    /\ \/ phase' = [phase EXCEPT ![r] = "tunnel"] /\ UNCHANGED <<at, active, reused, forced>>
       \/ Leave(r, "answered") /\ active' = Released(at[r])
    /\ UNCHANGED <<method, first, manual, idle, reached, fresh, probes, byHand>>

\* One side closes the tunnel.
TunnelEnds(r) ==
    /\ phase[r] = "tunnel"
    /\ active' = Released(at[r]) /\ Leave(r, "answered")
    /\ UNCHANGED <<method, first, healthVars, manual, idle, reached, fresh, probes, byHand>>

\* Mutant of MayRetry: a request that has effects is tried again.
MayRetryAny(r) == method[r] # "websocket" /\ first[r] = NoUpstream /\ Upstream # {at[r]}

MayRetry(r) == method[r] = "safe" /\ first[r] = NoUpstream /\ Upstream # {at[r]}

\* HttpProxyConnectionError: a failure is recorded and the place released, then a safe request is
\* tried on another upstream, once.
AttemptFails(r) ==
    /\ phase[r] \in Waiting /\ ~reused[r]
    /\ RecordFailure(at[r])
    /\ first' = [first EXCEPT ![r] = at[r]]
    /\ LET others == IF MayRetry(r) THEN Candidates({at[r]}, Released(at[r]), down') ELSE {} IN
       IF others = {}
       THEN Leave(r, "502") /\ active' = Released(at[r]) /\ UNCHANGED <<idle, reached, fresh>>
       ELSE \E u \in others : Attempt(r, method[r], u, {at[r]}, Released(at[r]), down')
    /\ UNCHANGED <<method, manual, probes, byHand>>

\* Mutant of Cancel: the place is not given back.
CancelKeepsPlace(r) ==
    /\ AtWork(r)
    /\ Leave(r, "cancelled")
    /\ UNCHANGED <<method, first, active, healthVars, manual, idle, reached, fresh, probes, byHand>>

\* The task is cancelled (timeout of the server, shutdown): nothing is recorded.
Cancel(r) ==
    /\ AtWork(r)
    /\ active' = Released(at[r]) /\ Leave(r, "cancelled")
    /\ UNCHANGED <<method, first, healthVars, manual, idle, reached, fresh, probes, byHand>>

\* The result of a probe, which uses the kept connections too.
Probe(u) ==
    /\ probes < MaxProbes /\ probes' = probes + 1
    /\ RecordSuccess(u) \/ RecordFailure(u)
    /\ \E n \in 0..MaxIdle : n <= idle[u] + 1 /\ idle' = [idle EXCEPT ![u] = n]
    /\ UNCHANGED <<method, phase, at, reused, first, active, manual, forced, reached, fresh, byHand>>

SetByHand(u) ==
    /\ byHand < MaxByHand /\ byHand' = byHand + 1
    /\ \E s \in {"none", "draining", "maintenance"} \ {manual[u]} : manual' = [manual EXCEPT ![u] = s]
    /\ UNCHANGED <<method, phase, at, reused, first, active, healthVars, idle, forced, reached, fresh, probes>>

Handler(r) ==
    \/ Serve(r) \/ Send(r) \/ SendAgain(r) \/ Answered(r) \/ AttemptFails(r) \/ Cancel(r)
    \/ Handshake(r) \/ TunnelEnds(r)

BalanceNext == (\E r \in Request : Handler(r)) \/ (\E u \in Upstream : Probe(u) \/ SetByHand(u))

BalanceSpec == BalanceInit /\ [][BalanceNext]_balanceVars
-----------------------------------------------------------------------------
Phases == {"new", "connecting", "sent", "tunnel", "answered", "502", "503", "cancelled"}

BalanceTypeOK ==
    /\ method \in [Request -> {"safe", "effect", "websocket"}]
    /\ phase \in [Request -> Phases]
    /\ at \in [Request -> Upstream \cup {NoUpstream}] /\ first \in [Request -> Upstream \cup {NoUpstream}]
    /\ reused \in [Request -> BOOLEAN] /\ forced \in [Request -> BOOLEAN]
    /\ active \in [Upstream -> Nat]
    /\ failures \in [Upstream -> Nat] /\ successes \in [Upstream -> Nat] /\ down \subseteq Upstream
    /\ manual \in [Upstream -> {"none", "draining", "maintenance"}]
    /\ idle \in [Upstream -> 0..MaxIdle]
    /\ reached \in [Request -> SUBSET Upstream] /\ fresh \in [Request -> Nat]
    /\ probes \in 0..MaxProbes /\ byHand \in 0..MaxByHand

InFlight(u) == {r \in Request : at[r] = u}

\* The count of active requests of an upstream, which the limit and two strategies rely on, is the
\* number of requests and tunnels that occupy it: every way out, also the retry and the cancellation
\* of the task, gives back exactly one place.
ActiveIsInFlight == \A u \in Upstream : active[u] = Cardinality(InFlight(u))

\* An upstream never has more requests than its limit, those put aside that were let in because no
\* upstream was up: also when an upstream comes back while such requests still occupy it.
LimitHolds == \A u \in Upstream : Cardinality({r \in InFlight(u) : ~forced[r]}) <= Limit[u]

\* A request that may have effects reaches one upstream and is written once on a connection opened
\* for it (a kept connection that gives no answer makes it written again, to the same upstream); a
\* safe one reaches two upstreams at most, once each on a new connection.
EffectsOnce ==
    \A r \in Request :
        LET most == IF method[r] = "safe" THEN 2 ELSE 1 IN
        fresh[r] <= most /\ Cardinality(reached[r]) <= most
=============================================================================
