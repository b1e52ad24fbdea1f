----------------------------- MODULE ProxyProofs -----------------------------
(***************************************************************************)
(* Proofs about the reverse proxy: the places, the limits and the retries  *)
(* of ProxyBalance, for every set of upstreams and of requests and every   *)
(* limit; the fetches and the files of ProxyCache, for every set of        *)
(* workers, handlers and files.                                            *)
(***************************************************************************)
EXTENDS ProxyBalance, ProxyCache, FiniteSetTheorems, TLAPS

-----------------------------------------------------------------------------
(* The inductive invariant, one conjunct per idea.                          *)

\* A request occupies an upstream exactly while it is at work, and one sent on a kept connection has
\* not been answered and is not a handshake.
PlaceInv ==
    \A r \in Request :
        /\ AtWork(r) <=> at[r] # NoUpstream
        /\ reused[r] => phase[r] = "sent" /\ method[r] # "websocket"

\* Where a request has been: what it may still reach is left of what it may reach.
Most(r) == IF method[r] = "safe" THEN 2 ELSE 1

Trace(r) ==
    /\ phase[r] = "new" => fresh[r] = 0 /\ reached[r] = {} /\ first[r] = NoUpstream
    /\ AtWork(r) /\ first[r] = NoUpstream =>
          /\ fresh[r] <= 1 /\ (phase[r] = "connecting" \/ reused[r] => fresh[r] = 0)
          /\ reached[r] \subseteq {at[r]}
    /\ AtWork(r) /\ first[r] # NoUpstream =>
          /\ method[r] = "safe"
          /\ fresh[r] <= 2 /\ (phase[r] = "connecting" \/ reused[r] => fresh[r] <= 1)
          /\ reached[r] \subseteq {first[r], at[r]}
    /\ fresh[r] <= Most(r) /\ Cardinality(reached[r]) <= Most(r)

TraceInv == \A r \in Request : Trace(r)

BalanceInv == BalanceTypeOK /\ PlaceInv /\ ActiveIsInFlight /\ LimitHolds /\ TraceInv

-----------------------------------------------------------------------------
(* Types.                                                                   *)

LEMMA Bounds ==
    /\ UnhealthyAfter \in Nat /\ HealthyAfter \in Nat /\ MaxIdle \in Nat /\ MaxProbes \in Nat /\ MaxByHand \in Nat
    /\ Limit \in [Upstream -> Nat] /\ NoUpstream \notin Upstream /\ IsFiniteSet(Request)
BY BalanceAssumption

LEMMA BalanceTypeInit == BalanceInit => BalanceTypeOK
<1> SUFFICES ASSUME BalanceInit PROVE BalanceTypeOK
    OBVIOUS
<1>1. reused \in [Request -> BOOLEAN] /\ forced \in [Request -> BOOLEAN]
    BY Zenon DEF BalanceInit
<1> QED
    BY <1>1, Bounds DEF BalanceInit, BalanceTypeOK, Phases

\* The counters of the health keep their types.
LEMMA HealthType ==
    ASSUME BalanceTypeOK, NEW u \in Upstream, RecordSuccess(u) \/ RecordFailure(u)
    PROVE  failures' \in [Upstream -> Nat] /\ successes' \in [Upstream -> Nat] /\ down' \subseteq Upstream
BY Bounds DEF BalanceTypeOK, RecordSuccess, RecordFailure

LEMMA ReleasedType ==
    ASSUME BalanceTypeOK, NEW u \in Upstream
    PROVE  Released(u) \in [Upstream -> Nat]
BY DEF BalanceTypeOK, Released

LEMMA LeaveType ==
    ASSUME BalanceTypeOK, NEW r \in Request, NEW a \in {"answered", "502", "503", "cancelled"}, Leave(r, a)
    PROVE  /\ phase' \in [Request -> Phases] /\ at' \in [Request -> Upstream \cup {NoUpstream}]
           /\ reused' \in [Request -> BOOLEAN] /\ forced' \in [Request -> BOOLEAN]
BY DEF BalanceTypeOK, Leave, Phases

LEMMA AttemptType ==
    ASSUME BalanceTypeOK, NEW r \in Request, NEW m, NEW u \in Upstream, NEW exclude, NEW dn,
           NEW count \in [Upstream -> Nat], Attempt(r, m, u, exclude, count, dn)
    PROVE  /\ phase' \in [Request -> Phases] /\ at' \in [Request -> Upstream \cup {NoUpstream}]
           /\ reused' \in [Request -> BOOLEAN] /\ forced' \in [Request -> BOOLEAN]
           /\ active' \in [Upstream -> Nat] /\ idle' \in [Upstream -> 0..MaxIdle]
           /\ reached' \in [Request -> SUBSET Upstream] /\ fresh' \in [Request -> Nat]
<1>1. active' \in [Upstream -> Nat] /\ at' \in [Request -> Upstream \cup {NoUpstream}]
    BY DEF BalanceTypeOK, Attempt
<1>2. forced' \in [Request -> BOOLEAN] /\ fresh' \in [Request -> Nat]
    BY DEF BalanceTypeOK, Attempt
<1>3. CASE m # "websocket" /\ \E n \in 1..idle[u] :
               /\ idle' = [idle EXCEPT ![u] = n - 1]
               /\ phase' = [phase EXCEPT ![r] = "sent"] /\ reused' = [reused EXCEPT ![r] = TRUE]
               /\ reached' = [reached EXCEPT ![r] = @ \cup {u}]
    BY <1>1, <1>2, <1>3, Bounds DEF BalanceTypeOK, Phases
<1>4. CASE /\ idle' = IF m = "websocket" THEN idle ELSE [idle EXCEPT ![u] = 0]
           /\ phase' = [phase EXCEPT ![r] = "connecting"] /\ reused' = [reused EXCEPT ![r] = FALSE]
           /\ UNCHANGED reached
    BY <1>1, <1>2, <1>4, Bounds DEF BalanceTypeOK, Phases
<1> QED
    BY <1>3, <1>4 DEF Attempt

LEMMA CandidatesType ==
    ASSUME NEW exclude, NEW count, NEW dn
    PROVE  Candidates(exclude, count, dn) \subseteq Upstream \ exclude
BY DEF Candidates, Healthy

\* A request that has failed either leaves or is tried on another upstream.
LEMMA FailsOrRetries ==
    ASSUME BalanceTypeOK, NEW r \in Request, AttemptFails(r), at[r] \in Upstream
    PROVE  \/ Leave(r, "502") /\ active' = Released(at[r]) /\ UNCHANGED <<idle, reached, fresh>>
           \/ /\ MayRetry(r)
              /\ \E u \in Candidates({at[r]}, Released(at[r]), down') :
                    Attempt(r, method[r], u, {at[r]}, Released(at[r]), down')
<1> DEFINE others == IF MayRetry(r) THEN Candidates({at[r]}, Released(at[r]), down') ELSE {}
<1>1. IF others = {}
      THEN Leave(r, "502") /\ active' = Released(at[r]) /\ UNCHANGED <<idle, reached, fresh>>
      ELSE \E u \in others : Attempt(r, method[r], u, {at[r]}, Released(at[r]), down')
    BY DEF AttemptFails
<1> QED
    BY <1>1

LEMMA BalanceTypeStep ==
    ASSUME BalanceTypeOK, PlaceInv, [BalanceNext]_balanceVars
    PROVE  BalanceTypeOK'
<1> USE Bounds
<1>a. \A r \in Request : AtWork(r) => at[r] \in Upstream
    BY DEF PlaceInv, BalanceTypeOK
<1>1. ASSUME NEW r \in Request, Serve(r) PROVE BalanceTypeOK'
  <2>1. method' \in [Request -> {"safe", "effect", "websocket"}]
      BY <1>1 DEF Serve, BalanceTypeOK
  <2>2. UNCHANGED <<first, failures, successes, down, manual, probes, byHand>>
      BY <1>1 DEF Serve, healthVars
  <2>3. CASE Leave(r, "503") /\ UNCHANGED <<active, idle, reached, fresh>>
      BY <2>1, <2>2, <2>3, LeaveType DEF BalanceTypeOK
  <2>4. CASE \E u \in Candidates({}, active, down) : Attempt(r, method'[r], u, {}, active, down)
    <3>1. PICK u \in Upstream : Attempt(r, method'[r], u, {}, active, down)
        BY <2>4, CandidatesType
    <3>2. active \in [Upstream -> Nat]
        BY DEF BalanceTypeOK
    <3> QED
        BY <2>1, <2>2, <3>1, <3>2, AttemptType DEF BalanceTypeOK
  <2> QED
      BY <1>1, <2>3, <2>4 DEF Serve
<1>2. ASSUME NEW r \in Request, Send(r) PROVE BalanceTypeOK'
  <2>1. at[r] \in Upstream
      BY <1>a, <1>2 DEF Send, AtWork, Waiting
  <2>2. reached' \in [Request -> SUBSET Upstream] /\ fresh' \in [Request -> Nat] /\ phase' \in [Request -> Phases]
      BY <1>2, <2>1 DEF Send, BalanceTypeOK, Phases
  <2> QED
      BY <1>2, <2>2 DEF Send, BalanceTypeOK, healthVars
<1>3. ASSUME NEW r \in Request, SendAgain(r) PROVE BalanceTypeOK'
    BY <1>3 DEF SendAgain, BalanceTypeOK, healthVars, Phases
<1>4. ASSUME NEW r \in Request, Answered(r) PROVE BalanceTypeOK'
  <2>1. at[r] \in Upstream
      BY <1>a, <1>4 DEF Answered, AtWork, Waiting
  <2>2. idle' \in [Upstream -> 0..MaxIdle]
      BY <1>4, <2>1 DEF Answered, BalanceTypeOK
  <2>3. /\ failures' \in [Upstream -> Nat] /\ successes' \in [Upstream -> Nat] /\ down' \subseteq Upstream
        /\ active' \in [Upstream -> Nat]
      BY <1>4, <2>1, HealthType, ReleasedType DEF Answered
  <2>4. /\ phase' \in [Request -> Phases] /\ at' \in [Request -> Upstream \cup {NoUpstream}]
        /\ reused' \in [Request -> BOOLEAN] /\ forced' \in [Request -> BOOLEAN]
      BY <1>4, LeaveType DEF Answered
  <2> QED
      BY <1>4, <2>2, <2>3, <2>4 DEF Answered, BalanceTypeOK
<1>5. ASSUME NEW r \in Request, Handshake(r) PROVE BalanceTypeOK'
  <2>1. at[r] \in Upstream
      BY <1>a, <1>5 DEF Handshake, AtWork, Waiting
  <2>2. failures' \in [Upstream -> Nat] /\ successes' \in [Upstream -> Nat] /\ down' \subseteq Upstream
      BY <1>5, <2>1, HealthType DEF Handshake
  <2>3. UNCHANGED <<method, first, manual, idle, reached, fresh, probes, byHand>>
      BY <1>5 DEF Handshake
  <2>4. CASE phase' = [phase EXCEPT ![r] = "tunnel"] /\ UNCHANGED <<at, active, reused, forced>>
      BY <2>2, <2>3, <2>4 DEF BalanceTypeOK, Phases
  <2>5. CASE Leave(r, "answered") /\ active' = Released(at[r])
      BY <2>1, <2>2, <2>3, <2>5, LeaveType, ReleasedType DEF BalanceTypeOK
  <2> QED
      BY <1>5, <2>4, <2>5 DEF Handshake
<1>6. ASSUME NEW r \in Request, TunnelEnds(r) \/ Cancel(r) PROVE BalanceTypeOK'
  <2>1. at[r] \in Upstream
      BY <1>a, <1>6 DEF TunnelEnds, Cancel, AtWork
  <2>2. active' = Released(at[r]) /\ (Leave(r, "answered") \/ Leave(r, "cancelled"))
      BY <1>6 DEF TunnelEnds, Cancel
  <2>3. UNCHANGED <<method, first, healthVars, manual, idle, reached, fresh, probes, byHand>>
      BY <1>6 DEF TunnelEnds, Cancel
  <2> QED
      BY <2>1, <2>2, <2>3, LeaveType, ReleasedType DEF BalanceTypeOK, healthVars
<1>7. ASSUME NEW r \in Request, AttemptFails(r) PROVE BalanceTypeOK'
  <2>1. at[r] \in Upstream
      BY <1>a, <1>7 DEF AttemptFails, AtWork, Waiting
  <2>2. failures' \in [Upstream -> Nat] /\ successes' \in [Upstream -> Nat] /\ down' \subseteq Upstream
      BY <1>7, <2>1, HealthType DEF AttemptFails
  <2>3. first' \in [Request -> Upstream \cup {NoUpstream}] /\ UNCHANGED <<method, manual, probes, byHand>>
      BY <1>7, <2>1 DEF AttemptFails, BalanceTypeOK
  <2>4. Released(at[r]) \in [Upstream -> Nat]
      BY <2>1, ReleasedType
  <2>5. CASE Leave(r, "502") /\ active' = Released(at[r]) /\ UNCHANGED <<idle, reached, fresh>>
      BY <2>2, <2>3, <2>4, <2>5, LeaveType DEF BalanceTypeOK
  <2>6. CASE \E u \in Candidates({at[r]}, Released(at[r]), down') :
                 Attempt(r, method[r], u, {at[r]}, Released(at[r]), down')
    <3>1. PICK u \in Upstream : Attempt(r, method[r], u, {at[r]}, Released(at[r]), down')
        BY <2>6, CandidatesType
    <3> QED
        BY <2>2, <2>3, <2>4, <3>1, AttemptType DEF BalanceTypeOK
  <2> QED
      BY <1>7, <2>1, <2>5, <2>6, FailsOrRetries
<1>8. ASSUME NEW u \in Upstream, Probe(u) PROVE BalanceTypeOK'
  <2>1. failures' \in [Upstream -> Nat] /\ successes' \in [Upstream -> Nat] /\ down' \subseteq Upstream
      BY <1>8, HealthType DEF Probe
  <2>2. idle' \in [Upstream -> 0..MaxIdle] /\ probes' \in 0..MaxProbes
      BY <1>8 DEF Probe, BalanceTypeOK
  <2> QED
      BY <1>8, <2>1, <2>2 DEF Probe, BalanceTypeOK
<1>9. ASSUME NEW u \in Upstream, SetByHand(u) PROVE BalanceTypeOK'
    BY <1>9 DEF SetByHand, BalanceTypeOK, healthVars
<1>10. ASSUME UNCHANGED balanceVars PROVE BalanceTypeOK'
    BY <1>10 DEF balanceVars, healthVars, BalanceTypeOK
<1> QED
    BY <1>1, <1>2, <1>3, <1>4, <1>5, <1>6, <1>7, <1>8, <1>9, <1>10 DEF BalanceNext, Handler

-----------------------------------------------------------------------------
(* Places.                                                                  *)

LEMMA InFlightFinite == \A u : IsFiniteSet(InFlight(u)) /\ Cardinality(InFlight(u)) \in Nat
<1> TAKE u
<1>1. IsFiniteSet(InFlight(u))
    BY Bounds, FS_Subset DEF InFlight
<1> QED
    BY <1>1, FS_CardinalityType

\* Giving back the place of a request counts the others.
LEMMA ReleasedCounts ==
    ASSUME BalanceTypeOK, ActiveIsInFlight, NEW r \in Request, at[r] \in Upstream
    PROVE  \A w \in Upstream : Released(at[r])[w] = Cardinality(InFlight(w) \ {r})
<1> TAKE w \in Upstream
<1>1. active[w] = Cardinality(InFlight(w)) /\ active \in [Upstream -> Nat]
    BY DEF ActiveIsInFlight, BalanceTypeOK
<1>2. CASE w = at[r]
  <2>1. r \in InFlight(w)
      BY <1>2 DEF InFlight
  <2>2. Cardinality(InFlight(w) \ {r}) = Cardinality(InFlight(w)) - 1
      BY <2>1, InFlightFinite, FS_RemoveElement
  <2>3. Cardinality(InFlight(w)) # 0
      BY <2>1, InFlightFinite, FS_EmptySet
  <2> QED
      BY <1>1, <1>2, <2>2, <2>3 DEF Released
<1>3. CASE w # at[r]
  <2>1. InFlight(w) \ {r} = InFlight(w)
      BY <1>3 DEF InFlight
  <2> QED
      BY <1>1, <1>3, <2>1 DEF Released
<1> QED
    BY <1>2, <1>3

\* A request that leaves gives back exactly its place.
LEMMA LeaveCounts ==
    ASSUME BalanceTypeOK, ActiveIsInFlight, LimitHolds, NEW r \in Request, at[r] \in Upstream,
           NEW a, Leave(r, a), active' = Released(at[r])
    PROVE  ActiveIsInFlight' /\ LimitHolds'
<1>1. \A w \in Upstream : InFlight(w)' = InFlight(w) \ {r}
    BY Bounds DEF InFlight, Leave, BalanceTypeOK
<1>2. ActiveIsInFlight'
    BY <1>1, ReleasedCounts DEF ActiveIsInFlight
<1>3. ASSUME NEW w \in Upstream
      PROVE  Cardinality({q \in InFlight(w)' : ~forced'[q]}) <= Limit[w]
  <2> DEFINE Now  == {q \in InFlight(w) : ~forced[q]}
             Then == {q \in InFlight(w)' : ~forced'[q]}
  <2>1. Then \subseteq Now
      BY <1>1 DEF Leave, BalanceTypeOK, InFlight
  <2>2. IsFiniteSet(Now)
      BY InFlightFinite, FS_Subset
  <2>3. Cardinality(Then) <= Cardinality(Now) /\ Cardinality(Now) <= Limit[w]
      BY <2>1, <2>2, FS_Subset DEF LimitHolds
  <2>4. Cardinality(Then) \in Nat /\ Cardinality(Now) \in Nat
      BY <2>1, <2>2, FS_Subset, FS_CardinalityType
  <2> HIDE DEF Now, Then
  <2>5. Cardinality(Then) <= Limit[w]
      BY <2>3, <2>4, Bounds
  <2> QED
      BY <2>5 DEF Then
<1> QED
    BY <1>2, <1>3 DEF LimitHolds

\* An attempt takes one place, and one more than the limit only when no upstream is up.
LEMMA AttemptCounts ==
    ASSUME BalanceTypeOK, LimitHolds, NEW r \in Request, NEW m, NEW exclude, NEW dn,
           NEW count \in [Upstream -> Nat], \A w \in Upstream : count[w] = Cardinality(InFlight(w) \ {r}),
           NEW u \in Candidates(exclude, count, dn), Attempt(r, m, u, exclude, count, dn)
    PROVE  ActiveIsInFlight' /\ LimitHolds'
<1>0. u \in Upstream
    BY CandidatesType
<1>1. /\ InFlight(u)' = InFlight(u) \cup {r}
      /\ \A w \in Upstream \ {u} : InFlight(w)' = InFlight(w) \ {r}
    BY <1>0 DEF InFlight, Attempt, BalanceTypeOK
<1>2. Cardinality(InFlight(u)') = count[u] + 1
  <2>1. InFlight(u)' = (InFlight(u) \ {r}) \cup {r}
      BY <1>1
  <2>2. IsFiniteSet(InFlight(u) \ {r}) /\ r \notin InFlight(u) \ {r}
      BY InFlightFinite, FS_RemoveElement
  <2>3. Cardinality((InFlight(u) \ {r}) \cup {r}) = Cardinality(InFlight(u) \ {r}) + 1
      BY <2>2, FS_AddElement
  <2> QED
      BY <1>0, <2>1, <2>3
<1>3. ActiveIsInFlight'
    BY <1>0, <1>1, <1>2 DEF ActiveIsInFlight, Attempt
<1>4. ASSUME NEW w \in Upstream
      PROVE  Cardinality({q \in InFlight(w)' : ~forced'[q]}) <= Limit[w]
  <2> DEFINE Now  == {q \in InFlight(w) : ~forced[q]}
             Then == {q \in InFlight(w)' : ~forced'[q]}
  <2>1. IsFiniteSet(Now) /\ IsFiniteSet(InFlight(w)') /\ Cardinality(InFlight(w)') \in Nat
    <3>1. InFlight(w)' \subseteq Request
        BY DEF InFlight
    <3> QED
        BY <3>1, Bounds, InFlightFinite, FS_Subset, FS_CardinalityType
  <2>2. Cardinality(Now) \in Nat /\ Cardinality(Now) <= Limit[w] /\ Limit[w] \in Nat
      BY <2>1, FS_CardinalityType, Bounds DEF LimitHolds
  <2>3. Cardinality(Then) \in Nat /\ Cardinality(Then) <= Cardinality(InFlight(w)')
      BY <2>1, FS_Subset, FS_CardinalityType
  <2>4. \A q \in Request \ {r} : forced'[q] = forced[q]
      BY DEF Attempt, BalanceTypeOK
  <2>5. CASE w # u \/ Healthy(exclude, dn) = {}
    <3>1. Then \subseteq Now
      <4>1. CASE w # u
          BY <1>1, <2>4, <4>1 DEF InFlight
      <4>2. CASE w = u /\ Healthy(exclude, dn) = {}
        <5>1. forced'[r]
            BY <4>2 DEF Attempt, BalanceTypeOK
        <5> QED
            BY <1>1, <2>4, <4>2, <5>1 DEF InFlight
      <4> QED
          BY <2>5, <4>1, <4>2
    <3>2. Cardinality(Then) <= Cardinality(Now)
        BY <2>1, <3>1, FS_Subset
    <3> HIDE DEF Now, Then
    <3>3. Cardinality(Then) <= Limit[w]
        BY <2>2, <2>3, <3>2
    <3> QED
        BY <3>3 DEF Then
  <2>6. CASE w = u /\ Healthy(exclude, dn) # {}
    <3>1. ~IsAtCapacity(u, count)
        BY <2>6 DEF Candidates
    <3>2. count[u] + 1 <= Limit[u]
        BY <1>0, <3>1, Bounds DEF IsAtCapacity
    <3> HIDE DEF Now, Then
    <3>3. Cardinality(Then) <= Limit[w]
        BY <1>0, <1>2, <2>2, <2>3, <2>6, <3>2
    <3> QED
        BY <3>3 DEF Then
  <2> QED
      BY <2>5, <2>6
<1> QED
    BY <1>3, <1>4 DEF LimitHolds

\* What an attempt and a departure make of the place of a request.
LEMMA AttemptPlace ==
    ASSUME BalanceTypeOK, PlaceInv, NEW r \in Request, NEW m, NEW exclude, NEW dn, NEW count,
           NEW u \in Upstream, Attempt(r, m, u, exclude, count, dn),
           method'[r] = m, \A q \in Request \ {r} : method'[q] = method[q]
    PROVE  PlaceInv'
<1>1. /\ at'[r] = u /\ phase'[r] \in {"sent", "connecting"}
      /\ reused'[r] => phase'[r] = "sent" /\ m # "websocket"
      /\ \A q \in Request \ {r} : at'[q] = at[q] /\ phase'[q] = phase[q] /\ reused'[q] = reused[q]
    BY DEF Attempt, BalanceTypeOK
<1> QED
    BY <1>1, Bounds DEF PlaceInv, AtWork, Waiting

LEMMA LeavePlace ==
    ASSUME BalanceTypeOK, PlaceInv, NEW r \in Request, NEW a \in {"answered", "502", "503", "cancelled"},
           Leave(r, a), \A q \in Request \ {r} : method'[q] = method[q]
    PROVE  PlaceInv'
<1>1. /\ at'[r] = NoUpstream /\ phase'[r] = a /\ ~reused'[r]
      /\ \A q \in Request \ {r} : at'[q] = at[q] /\ phase'[q] = phase[q] /\ reused'[q] = reused[q]
    BY DEF Leave, BalanceTypeOK
<1> QED
    BY <1>1 DEF PlaceInv, AtWork, Waiting

\* The places, their count and the limits, together.
CountedInv == PlaceInv /\ ActiveIsInFlight /\ LimitHolds

LEMMA PlacesInit == BalanceInit => CountedInv
<1> SUFFICES ASSUME BalanceInit PROVE CountedInv
    OBVIOUS
<1>1. PlaceInv
    BY DEF BalanceInit, PlaceInv, AtWork, Waiting
<1>2. \A u \in Upstream : InFlight(u) = {} /\ {q \in InFlight(u) : ~forced[q]} = {}
    BY Bounds DEF BalanceInit, InFlight
<1>3. ActiveIsInFlight
    BY <1>2, FS_EmptySet DEF BalanceInit, ActiveIsInFlight
<1>4. LimitHolds
  <2> SUFFICES ASSUME NEW u \in Upstream PROVE Cardinality({q \in InFlight(u) : ~forced[q]}) <= Limit[u]
      BY DEF LimitHolds
  <2>1. Cardinality({q \in InFlight(u) : ~forced[q]}) = 0
      BY <1>2, FS_EmptySet
  <2> QED
      BY <2>1, Bounds
<1> QED
    BY <1>1, <1>3, <1>4 DEF CountedInv

LEMMA PlacesStep ==
    ASSUME BalanceTypeOK, CountedInv, [BalanceNext]_balanceVars
    PROVE  CountedInv'
<1> USE DEF CountedInv
<1>a. \A r \in Request : AtWork(r) => at[r] \in Upstream
    BY DEF PlaceInv, BalanceTypeOK
<1>b. ASSUME UNCHANGED <<at, active, forced>> PROVE ActiveIsInFlight' /\ LimitHolds'
    BY <1>b DEF ActiveIsInFlight, LimitHolds, InFlight
<1>1. ASSUME NEW r \in Request, Serve(r) PROVE CountedInv'
  <2>1. /\ ~AtWork(r) /\ at[r] = NoUpstream
        /\ \A q \in Request \ {r} : method'[q] = method[q]
      BY <1>1 DEF Serve, AtWork, Waiting, PlaceInv, BalanceTypeOK
  <2>2. CASE Leave(r, "503") /\ UNCHANGED <<active, idle, reached, fresh>>
    <3>1. at' = at
        BY <2>1, <2>2 DEF Leave, BalanceTypeOK
    <3>2. ActiveIsInFlight'
        BY <2>2, <3>1 DEF ActiveIsInFlight, InFlight
    <3>3. \A u \in Upstream : {q \in InFlight(u)' : ~forced'[q]} = {q \in InFlight(u) : ~forced[q]}
        BY <2>1, <2>2, <3>1, Bounds DEF InFlight, Leave, BalanceTypeOK
    <3> QED
        BY <2>1, <2>2, <3>2, <3>3, LeavePlace DEF LimitHolds
  <2>3. CASE \E u \in Candidates({}, active, down) : Attempt(r, method'[r], u, {}, active, down)
    <3>1. PICK u \in Candidates({}, active, down) : Attempt(r, method'[r], u, {}, active, down)
        BY <2>3
    <3>2. u \in Upstream /\ active \in [Upstream -> Nat]
        BY CandidatesType DEF BalanceTypeOK
    <3>3. \A w \in Upstream : active[w] = Cardinality(InFlight(w) \ {r})
      <4>1. \A w \in Upstream : InFlight(w) \ {r} = InFlight(w)
          BY <2>1, Bounds DEF InFlight
      <4> QED
          BY <4>1 DEF ActiveIsInFlight
    <3> QED
        BY <2>1, <3>1, <3>2, <3>3, AttemptPlace, AttemptCounts
  <2> QED
      BY <1>1, <2>2, <2>3 DEF Serve
<1>2. ASSUME NEW r \in Request, Send(r) \/ SendAgain(r) PROVE CountedInv'
  <2>1. UNCHANGED <<at, active, forced>>
      BY <1>2 DEF Send, SendAgain
  <2>2. PlaceInv'
      BY <1>2 DEF Send, SendAgain, PlaceInv, AtWork, Waiting, BalanceTypeOK
  <2> QED
      BY <1>b, <2>1, <2>2
<1>3. ASSUME NEW r \in Request, NEW a \in {"answered", "502", "503", "cancelled"}, AtWork(r),
             Leave(r, a), active' = Released(at[r]), method' = method
      PROVE  CountedInv'
    BY <1>a, <1>3, LeavePlace, LeaveCounts
<1>4. ASSUME NEW r \in Request, Answered(r) \/ TunnelEnds(r) \/ Cancel(r) PROVE CountedInv'
  <2>1. AtWork(r) /\ active' = Released(at[r]) /\ method' = method /\ (Leave(r, "answered") \/ Leave(r, "cancelled"))
      BY <1>4 DEF Answered, TunnelEnds, Cancel, AtWork, Waiting
  <2> QED
      BY <1>3, <2>1
<1>5. ASSUME NEW r \in Request, Handshake(r) PROVE CountedInv'
  <2>1. AtWork(r) /\ method' = method
      BY <1>5 DEF Handshake, AtWork, Waiting
  <2>2. CASE phase' = [phase EXCEPT ![r] = "tunnel"] /\ UNCHANGED <<at, active, reused, forced>>
    <3>1. ~reused[r]
        BY <1>5 DEF Handshake, PlaceInv
    <3>2. PlaceInv'
        BY <2>1, <2>2, <3>1 DEF PlaceInv, AtWork, Waiting, BalanceTypeOK
    <3> QED
        BY <1>b, <2>2, <3>2
  <2>3. CASE Leave(r, "answered") /\ active' = Released(at[r])
      BY <1>3, <2>1, <2>3
  <2> QED
      BY <1>5, <2>2, <2>3 DEF Handshake
<1>6. ASSUME NEW r \in Request, AttemptFails(r) PROVE CountedInv'
  <2>1. AtWork(r) /\ at[r] \in Upstream /\ method' = method
      BY <1>a, <1>6 DEF AttemptFails, AtWork, Waiting
  <2>2. CASE Leave(r, "502") /\ active' = Released(at[r]) /\ UNCHANGED <<idle, reached, fresh>>
      BY <1>3, <2>1, <2>2
  <2>3. CASE \E u \in Candidates({at[r]}, Released(at[r]), down') :
                 Attempt(r, method[r], u, {at[r]}, Released(at[r]), down')
    <3>1. PICK u \in Candidates({at[r]}, Released(at[r]), down') :
                   Attempt(r, method[r], u, {at[r]}, Released(at[r]), down')
        BY <2>3
    <3>2. u \in Upstream /\ Released(at[r]) \in [Upstream -> Nat]
        BY <2>1, CandidatesType, ReleasedType
    <3>3. \A w \in Upstream : Released(at[r])[w] = Cardinality(InFlight(w) \ {r})
        BY <2>1, ReleasedCounts
    <3> QED
        BY <2>1, <3>1, <3>2, <3>3, AttemptPlace, AttemptCounts
  <2> QED
      BY <1>6, <2>1, <2>2, <2>3, FailsOrRetries
<1>7. ASSUME NEW u \in Upstream, Probe(u) \/ SetByHand(u) PROVE CountedInv'
  <2>1. UNCHANGED <<at, active, forced, phase, reused, method>>
      BY <1>7 DEF Probe, SetByHand
  <2> QED
      BY <1>b, <2>1 DEF PlaceInv, AtWork
<1>8. ASSUME UNCHANGED balanceVars PROVE CountedInv'
    BY <1>b, <1>8 DEF balanceVars, PlaceInv, AtWork
<1> QED
    BY <1>1, <1>2, <1>4, <1>5, <1>6, <1>7, <1>8 DEF BalanceNext, Handler

-----------------------------------------------------------------------------
(* Effects.                                                                 *)

LEMMA SmallSets ==
    /\ \A a, S : S \subseteq {a} => Cardinality(S) <= 1
    /\ \A a, b, S : S \subseteq {a, b} => Cardinality(S) <= 2
<1>1. ASSUME NEW a, NEW S, S \subseteq {a} PROVE Cardinality(S) <= 1
  <2>1. IsFiniteSet({a}) /\ Cardinality({a}) = 1
      BY FS_Singleton
  <2>2. Cardinality(S) <= Cardinality({a})
      BY <1>1, <2>1, FS_Subset
  <2> QED
      BY <2>1, <2>2
<1>2. ASSUME NEW a, NEW b, NEW S, S \subseteq {a, b} PROVE Cardinality(S) <= 2
  <2>1. IsFiniteSet({a}) /\ Cardinality({a}) = 1
      BY FS_Singleton
  <2>2. /\ IsFiniteSet({a} \cup {b})
        /\ Cardinality({a} \cup {b}) = IF b \in {a} THEN Cardinality({a}) ELSE Cardinality({a}) + 1
      BY <2>1, FS_AddElement
  <2>3. S \subseteq {a} \cup {b}
      BY <1>2
  <2>4. /\ Cardinality(S) <= Cardinality({a} \cup {b}) /\ IsFiniteSet(S)
      BY <2>2, <2>3, FS_Subset
  <2>5. Cardinality(S) \in Nat /\ Cardinality({a} \cup {b}) \in Nat
      BY <2>2, <2>4, FS_CardinalityType
  <2> QED
      BY <2>1, <2>2, <2>4, <2>5
<1> QED
    BY <1>1, <1>2

LEMMA OtherTrace ==
    ASSUME NEW q \in Request, Trace(q), method'[q] = method[q], phase'[q] = phase[q], at'[q] = at[q],
           reused'[q] = reused[q], first'[q] = first[q], fresh'[q] = fresh[q], reached'[q] = reached[q]
    PROVE  Trace(q)'
BY DEF Trace, AtWork, Waiting, Most

\* A request that leaves keeps its past.
LEMMA LeaveTrace ==
    ASSUME BalanceTypeOK, TraceInv, NEW r \in Request, NEW a \in {"answered", "502", "503", "cancelled"},
           Leave(r, a), UNCHANGED <<fresh, reached>>, method'[r] = method[r] \/ phase[r] = "new",
           \A q \in Request \ {r} : method'[q] = method[q] /\ first'[q] = first[q]
    PROVE  TraceInv'
<1>1. \A q \in Request \ {r} : /\ phase'[q] = phase[q] /\ at'[q] = at[q] /\ reused'[q] = reused[q]
                               /\ fresh'[q] = fresh[q] /\ reached'[q] = reached[q]
    BY DEF Leave, BalanceTypeOK
<1>2. phase'[r] = a /\ fresh'[r] = fresh[r] /\ reached'[r] = reached[r]
    BY DEF Leave, BalanceTypeOK
<1>3. fresh'[r] <= Most(r)' /\ Cardinality(reached'[r]) <= Most(r)'
  <2>1. CASE method'[r] = method[r]
      BY <1>2, <2>1 DEF TraceInv, Trace, Most
  <2>2. CASE phase[r] = "new"
    <3>1. fresh'[r] = 0 /\ reached'[r] = {}
        BY <1>2, <2>2 DEF TraceInv, Trace
    <3> QED
        BY <3>1, FS_EmptySet DEF Most
  <2> QED
      BY <2>1, <2>2
<1>4. Trace(r)'
    BY <1>2, <1>3 DEF Trace, AtWork, Waiting
<1> QED
    BY <1>1, <1>4, OtherTrace DEF TraceInv

\* A first attempt reaches nobody or its upstream.
LEMMA FirstTrace ==
    ASSUME BalanceTypeOK, TraceInv, NEW r \in Request, phase[r] = "new", NEW m, NEW exclude, NEW dn, NEW count,
           NEW u \in Upstream, Attempt(r, m, u, exclude, count, dn), first' = first,
           \A q \in Request \ {r} : method'[q] = method[q]
    PROVE  TraceInv'
<1>1. \A q \in Request \ {r} : /\ phase'[q] = phase[q] /\ at'[q] = at[q] /\ reused'[q] = reused[q]
                               /\ fresh'[q] = fresh[q] /\ reached'[q] = reached[q]
    BY DEF Attempt, BalanceTypeOK
<1>2. fresh[r] = 0 /\ reached[r] = {} /\ first[r] = NoUpstream
    BY DEF TraceInv, Trace
<1>3. /\ phase'[r] \in {"sent", "connecting"} /\ at'[r] = u /\ fresh'[r] = 0
      /\ reached'[r] \subseteq {u} /\ first'[r] = NoUpstream
    BY <1>2 DEF Attempt, BalanceTypeOK
<1>4. Cardinality(reached'[r]) <= 1
    BY <1>3, SmallSets
<1>5. Cardinality(reached'[r]) \in Nat
    BY <1>3, FS_Singleton, FS_Subset, FS_CardinalityType
<1>6. Trace(r)'
    BY <1>3, <1>4, <1>5 DEF Trace, AtWork, Most
<1> QED
    BY <1>1, <1>6, OtherTrace DEF TraceInv

\* The second attempt is that of a safe request whose first upstream has failed.
LEMMA RetryTrace ==
    ASSUME BalanceTypeOK, PlaceInv, TraceInv, NEW r \in Request, phase[r] \in Waiting, ~reused[r], MayRetry(r),
           NEW exclude, NEW dn, NEW count, NEW u \in Upstream, Attempt(r, method[r], u, exclude, count, dn),
           first' = [first EXCEPT ![r] = at[r]], method' = method
    PROVE  TraceInv'
<1>1. \A q \in Request \ {r} : /\ phase'[q] = phase[q] /\ at'[q] = at[q] /\ reused'[q] = reused[q]
                               /\ fresh'[q] = fresh[q] /\ reached'[q] = reached[q] /\ first'[q] = first[q]
    BY DEF Attempt, BalanceTypeOK
<1>2. fresh[r] <= 1 /\ reached[r] \subseteq {at[r]} /\ method[r] = "safe" /\ at[r] # NoUpstream
    BY DEF TraceInv, Trace, AtWork, MayRetry, PlaceInv
<1>3. /\ phase'[r] \in {"sent", "connecting"} /\ at'[r] = u /\ fresh'[r] = fresh[r]
      /\ reached'[r] \subseteq {at[r], u} /\ first'[r] = at[r] /\ method'[r] = "safe"
    BY <1>2 DEF Attempt, BalanceTypeOK
<1>4. Cardinality(reached'[r]) <= 2
    BY <1>3, SmallSets
<1>5. fresh[r] \in Nat
    BY DEF BalanceTypeOK
<1>6. Trace(r)'
    BY <1>2, <1>3, <1>4, <1>5 DEF Trace, AtWork, Most
<1> QED
    BY <1>1, <1>6, OtherTrace DEF TraceInv

\* A request written on a new connection.
LEMMA SendTrace ==
    ASSUME BalanceTypeOK, PlaceInv, TraceInv, NEW r \in Request, Send(r)
    PROVE  TraceInv'
<1>1. \A q \in Request \ {r} : /\ phase'[q] = phase[q] /\ at'[q] = at[q] /\ reused'[q] = reused[q]
                               /\ fresh'[q] = fresh[q] /\ reached'[q] = reached[q] /\ first'[q] = first[q]
                               /\ method'[q] = method[q]
    BY DEF Send, BalanceTypeOK
<1>2. phase[r] = "connecting" /\ ~reused[r] /\ AtWork(r) /\ fresh[r] \in Nat
    BY DEF Send, PlaceInv, AtWork, Waiting, BalanceTypeOK
<1>3. /\ phase'[r] = "sent" /\ ~reused'[r] /\ fresh'[r] = fresh[r] + 1 /\ reached'[r] = reached[r] \cup {at[r]}
      /\ at'[r] = at[r] /\ first'[r] = first[r] /\ method'[r] = method[r]
    BY <1>2 DEF Send, BalanceTypeOK
<1>4. CASE first[r] = NoUpstream
  <2>1. fresh[r] = 0 /\ reached'[r] \subseteq {at[r]}
      BY <1>2, <1>3, <1>4 DEF TraceInv, Trace
  <2>2. Cardinality(reached'[r]) <= 1
      BY <2>1, SmallSets
  <2>3. Cardinality(reached'[r]) \in Nat
      BY <2>1, FS_Singleton, FS_Subset, FS_CardinalityType
  <2>4. Trace(r)'
      BY <1>2, <1>3, <1>4, <2>1, <2>2, <2>3 DEF Trace, AtWork, Most
  <2> QED
      BY <1>1, <2>4, OtherTrace DEF TraceInv
<1>5. CASE first[r] # NoUpstream
  <2>1. fresh[r] <= 1 /\ reached'[r] \subseteq {first[r], at[r]} /\ method[r] = "safe"
      BY <1>2, <1>3, <1>5 DEF TraceInv, Trace
  <2>2. Cardinality(reached'[r]) <= 2
      BY <2>1, SmallSets
  <2>3. Trace(r)'
      BY <1>2, <1>3, <1>5, <2>1, <2>2 DEF Trace, AtWork, Most
  <2> QED
      BY <1>1, <2>3, OtherTrace DEF TraceInv
<1> QED
    BY <1>4, <1>5

LEMMA TraceStep ==
    ASSUME BalanceTypeOK, PlaceInv, TraceInv, [BalanceNext]_balanceVars
    PROVE  TraceInv'
<1>1. ASSUME NEW r \in Request, Serve(r) PROVE TraceInv'
  <2>1. phase[r] = "new" /\ first' = first /\ \A q \in Request \ {r} : method'[q] = method[q]
      BY <1>1 DEF Serve, BalanceTypeOK
  <2>2. CASE Leave(r, "503") /\ UNCHANGED <<active, idle, reached, fresh>>
      BY <2>1, <2>2, LeaveTrace
  <2>3. CASE \E u \in Candidates({}, active, down) : Attempt(r, method'[r], u, {}, active, down)
    <3>1. PICK u \in Upstream : Attempt(r, method'[r], u, {}, active, down)
        BY <2>3, CandidatesType
    <3> QED
        BY <2>1, <3>1, FirstTrace
  <2> QED
      BY <1>1, <2>2, <2>3 DEF Serve
<1>2. ASSUME NEW r \in Request, SendAgain(r) PROVE TraceInv'
  <2>1. \A q \in Request \ {r} : phase'[q] = phase[q] /\ reused'[q] = reused[q]
      BY <1>2 DEF SendAgain, BalanceTypeOK
  <2>2. phase[r] = "sent" /\ reused[r] /\ phase'[r] = "connecting" /\ UNCHANGED <<method, at, first, fresh, reached>>
      BY <1>2 DEF SendAgain, BalanceTypeOK
  <2>3. Trace(r)'
      BY <2>2 DEF TraceInv, Trace, AtWork, Waiting, Most
  <2> QED
      BY <2>1, <2>2, <2>3, OtherTrace DEF TraceInv
<1>3. ASSUME NEW r \in Request, Answered(r) \/ TunnelEnds(r) \/ Cancel(r) PROVE TraceInv'
  <2>1. UNCHANGED <<fresh, reached, method, first>> /\ (Leave(r, "answered") \/ Leave(r, "cancelled"))
      BY <1>3 DEF Answered, TunnelEnds, Cancel
  <2> QED
      BY <2>1, LeaveTrace
<1>4. ASSUME NEW r \in Request, Handshake(r) PROVE TraceInv'
  <2>1. UNCHANGED <<fresh, reached, method, first>> /\ phase[r] = "sent"
      BY <1>4 DEF Handshake
  <2>2. CASE phase' = [phase EXCEPT ![r] = "tunnel"] /\ UNCHANGED <<at, active, reused, forced>>
    <3>1. phase'[r] = "tunnel" /\ \A q \in Request \ {r} : phase'[q] = phase[q]
        BY <2>2 DEF BalanceTypeOK
    <3>2. ~reused[r]
        BY <1>4 DEF Handshake, PlaceInv
    <3>3. Trace(r)'
        BY <2>1, <2>2, <3>1, <3>2 DEF TraceInv, Trace, AtWork, Waiting, Most
    <3> QED
        BY <2>1, <2>2, <3>1, <3>3, OtherTrace DEF TraceInv
  <2>3. CASE Leave(r, "answered") /\ active' = Released(at[r])
      BY <2>1, <2>3, LeaveTrace
  <2> QED
      BY <1>4, <2>2, <2>3 DEF Handshake
<1>5. ASSUME NEW r \in Request, AttemptFails(r) PROVE TraceInv'
  <2>1. /\ phase[r] \in Waiting /\ ~reused[r] /\ first' = [first EXCEPT ![r] = at[r]] /\ method' = method
        /\ at[r] \in Upstream
      BY <1>5 DEF AttemptFails, PlaceInv, AtWork, BalanceTypeOK
  <2>2. CASE Leave(r, "502") /\ active' = Released(at[r]) /\ UNCHANGED <<idle, reached, fresh>>
    <3>1. \A q \in Request \ {r} : method'[q] = method[q] /\ first'[q] = first[q]
        BY <2>1 DEF BalanceTypeOK
    <3> QED
        BY <2>1, <2>2, <3>1, LeaveTrace
  <2>3. CASE MayRetry(r) /\ \E u \in Candidates({at[r]}, Released(at[r]), down') :
                                Attempt(r, method[r], u, {at[r]}, Released(at[r]), down')
    <3>1. PICK u \in Upstream : Attempt(r, method[r], u, {at[r]}, Released(at[r]), down')
        BY <2>3, CandidatesType
    <3> QED
        BY <2>1, <2>3, <3>1, RetryTrace
  <2> QED
      BY <1>5, <2>1, <2>2, <2>3, FailsOrRetries
<1>6. ASSUME (\E u \in Upstream : Probe(u) \/ SetByHand(u)) \/ UNCHANGED balanceVars PROVE TraceInv'
  <2>1. UNCHANGED <<method, phase, at, reused, first, fresh, reached>>
      BY <1>6 DEF Probe, SetByHand, balanceVars
  <2> QED
      BY <2>1, OtherTrace DEF TraceInv
<1> QED
    BY <1>1, <1>2, <1>3, <1>4, <1>5, <1>6, SendTrace DEF BalanceNext, Handler

-----------------------------------------------------------------------------
LEMMA BalanceAlways == BalanceSpec => []BalanceInv
<1>1. BalanceInit => BalanceInv
  <2> SUFFICES ASSUME BalanceInit PROVE BalanceInv
      OBVIOUS
  <2>1. TraceInv
      BY FS_EmptySet DEF BalanceInit, TraceInv, Trace, AtWork, Waiting, Most
  <2> QED
      BY <2>1, BalanceTypeInit, PlacesInit DEF BalanceInv, CountedInv
<1>2. BalanceInv /\ [BalanceNext]_balanceVars => BalanceInv'
    BY BalanceTypeStep, PlacesStep, TraceStep DEF BalanceInv, CountedInv
<1> QED
    BY <1>1, <1>2, PTL DEF BalanceSpec

\* The variables keep their types.
THEOREM BalanceTypeCorrect == BalanceSpec => []BalanceTypeOK
<1>1. BalanceInv => BalanceTypeOK
    BY DEF BalanceInv
<1> QED
    BY <1>1, BalanceAlways, PTL

\* The count of active requests is exact: every way out of a handler gives back exactly one place.
THEOREM CountIsExact == BalanceSpec => []ActiveIsInFlight
<1>1. BalanceInv => ActiveIsInFlight
    BY DEF BalanceInv
<1> QED
    BY <1>1, BalanceAlways, PTL

\* No upstream has more requests than its limit, but for those let in because none was up.
THEOREM LimitIsKept == BalanceSpec => []LimitHolds
<1>1. BalanceInv => LimitHolds
    BY DEF BalanceInv
<1> QED
    BY <1>1, BalanceAlways, PTL

\* A request that may have effects is written to one upstream, once on a new connection.
THEOREM EffectsAreNotRepeated == BalanceSpec => []EffectsOnce
<1>1. BalanceInv => EffectsOnce
    BY DEF BalanceInv, TraceInv, Trace, Most, EffectsOnce
<1> QED
    BY <1>1, BalanceAlways, PTL

-----------------------------------------------------------------------------
(* The files of the cache and their fetches.                                *)

\* The types the fetches and the torn files depend on.
FilesTypeOK ==
    /\ disk \in [CacheFile -> [state : {"none", "fresh", "expired", "torn"}, size : Sizes \cup {0}]]
    /\ keyLock \in [Worker -> [Resource -> Task \cup {NoTask}]]
    /\ doing \in [Task -> {"idle", "waiting", "fetching", "filling"}]
    /\ home \in [Task -> Worker] /\ wants \in [Task -> CacheFile]
    /\ linked \in [Task -> BOOLEAN]
    /\ fetches \in [Worker -> [CacheFile -> Nat]] /\ losses \in [CacheFile -> Nat]
    /\ overlapped \subseteq CacheFile
    /\ cacheFaults \in Nat

\* A handler that fetches or stores holds the lock of its resource.
Busy(t) == doing[t] \in {"fetching", "filling"}

HoldersInv == \A t \in Task : Busy(t) => Holder(t) = t

\* A worker has fetched a file once more than it was lost only while the file is there or being
\* written, or while a handler of the worker fetches it.
OnDisk(f) == disk[f].state \in {"fresh", "torn"}
UnderWay(w, f) == \E t \in Task : Busy(t) /\ home[t] = w /\ wants[t] = f

FetchesInv ==
    \A w \in Worker, f \in CacheFile :
        \/ fetches[w][f] <= losses[f]
        \/ fetches[w][f] <= 1 + losses[f] /\ (OnDisk(f) \/ UnderWay(w, f))

\* A file that no two processes have had open together is empty while one has it open.
OpenedInv ==
    \A t \in Task : doing[t] = "filling" /\ linked[t] /\ wants[t] \notin overlapped =>
        /\ disk[wants[t]] = [state |-> "torn", size |-> 0]
        /\ \A u \in Task : doing[u] = "filling" /\ linked[u] /\ wants[u] = wants[t] => u = t

FilesInv == FilesTypeOK /\ HoldersInv /\ FetchesInv /\ OpenedInv /\ TornHasACause

-----------------------------------------------------------------------------
LEMMA CacheConstants ==
    /\ AnyWorker \in Worker /\ AnyFile \in CacheFile
    /\ NoTask \notin Task /\ {MaxArrivals, MaxCacheFaults} \subseteq Nat
    /\ \A f \in CacheFile : f[1] \in Resource
BY CacheAssumption DEF AnyWorker, AnyFile, CacheFile

\* What the end of some handlers leaves of the handlers.
LEMMA EndsFacts ==
    ASSUME FilesTypeOK, NEW tasks, Ends(tasks)
    PROVE  /\ doing' \in [Task -> {"idle", "waiting", "fetching", "filling"}]
           /\ home' \in [Task -> Worker] /\ wants' \in [Task -> CacheFile]
           /\ \A t \in Task : IF t \in tasks THEN doing'[t] = "idle"
                ELSE doing'[t] = doing[t] /\ home'[t] = home[t] /\ wants'[t] = wants[t]
BY CacheConstants DEF FilesTypeOK, Ends

\* A loss is counted once for each file.
LEMMA LoseFacts ==
    ASSUME FilesTypeOK, NEW files, Lose(files)
    PROVE  /\ losses' \in [CacheFile -> Nat]
           /\ \A f \in CacheFile : losses'[f] = losses[f] + (IF f \in files THEN 1 ELSE 0)
BY DEF FilesTypeOK, Lose

\* The locks after a handler takes or releases the one of its resource.
LEMMA LockFacts ==
    ASSUME FilesTypeOK, NEW t \in Task, NEW who \in Task \cup {NoTask}, SetLock(t, who)
    PROVE  /\ keyLock' \in [Worker -> [Resource -> Task \cup {NoTask}]]
           /\ \A w \in Worker, r \in Resource :
                keyLock'[w][r] = IF w = home[t] /\ r = wants[t][1] THEN who ELSE keyLock[w][r]
<1>1. home[t] \in Worker /\ wants[t] \in CacheFile /\ wants[t][1] \in Resource
    BY CacheConstants DEF FilesTypeOK
<1> QED BY <1>1 DEF FilesTypeOK, SetLock

\* Two handlers of one worker do not hold the lock of one resource.
LEMMA OneHolder ==
    ASSUME HoldersInv, NEW t \in Task, NEW u \in Task, Busy(t), Busy(u),
           home[t] = home[u], wants[t][1] = wants[u][1]
    PROVE  t = u
BY DEF HoldersInv, Holder

\* Nobody else loses its lock when a handler takes or releases its own.
LEMMA OthersKeepLocks ==
    ASSUME FilesTypeOK, HoldersInv, NEW t \in Task, Busy(t), SetLock(t, NoTask)
    PROVE  \A u \in Task \ {t} : Busy(u) =>
               keyLock'[home[u]][wants[u][1]] = keyLock[home[u]][wants[u][1]]
<1> SUFFICES ASSUME NEW u \in Task \ {t}, Busy(u)
             PROVE  keyLock'[home[u]][wants[u][1]] = keyLock[home[u]][wants[u][1]]
    OBVIOUS
<1>1. home[u] \in Worker /\ wants[u] \in CacheFile /\ wants[u][1] \in Resource
    BY CacheConstants DEF FilesTypeOK
<1>2. ~(home[u] = home[t] /\ wants[u][1] = wants[t][1])
    BY OneHolder
<1> QED BY <1>1, <1>2, LockFacts

LEMMA FilesTypeInit == CacheInit => FilesInv
<1> SUFFICES ASSUME CacheInit PROVE FilesInv
    OBVIOUS
<1>1. FilesTypeOK
  <2>1. linked \in [Task -> BOOLEAN]
    BY Zenon DEF CacheInit
  <2> QED BY <2>1, CacheConstants DEF CacheInit, FilesTypeOK, NoFile
<1>2. HoldersInv /\ OpenedInv /\ TornHasACause
    BY DEF CacheInit, HoldersInv, OpenedInv, TornHasACause, Busy, NoFile
<1>3. FetchesInv
    BY DEF CacheInit, FetchesInv
<1> QED BY <1>1, <1>2, <1>3 DEF FilesInv

\* The files do not change, no handler becomes busy and those that are stay so, or are counted as a loss.
LEMMA QuietFiles ==
    ASSUME FilesInv, FilesTypeOK',
           \A t \in Task : doing'[t] \in {"fetching", "filling"} =>
               doing'[t] = doing[t] /\ home'[t] = home[t] /\ wants'[t] = wants[t]
               /\ (doing[t] = "filling" => linked'[t] = linked[t]),
           \A t \in Task : Busy(t) =>
               \/ doing'[t] = doing[t] /\ home'[t] = home[t] /\ wants'[t] = wants[t] /\ linked'[t] = linked[t]
               \/ losses'[wants[t]] = losses[wants[t]] + 1,
           \A f \in CacheFile : losses'[f] >= losses[f],
           \A t \in Task : Busy(t) /\ doing'[t] = doing[t] =>
               keyLock'[home[t]][wants[t][1]] = keyLock[home[t]][wants[t][1]],
           UNCHANGED <<disk, fetches, overlapped>>,
           cacheFaults' > 0 \/ (cacheFaults' = cacheFaults /\ \A t \in Task : doing[t] = "filling" =>
               doing'[t] = doing[t] /\ wants'[t] = wants[t] /\ linked'[t] = linked[t])
    PROVE  FilesInv'
<1>1. HoldersInv'
    BY DEF FilesInv, FilesTypeOK, HoldersInv, Busy, Holder
<1>2. FetchesInv'
  <2> SUFFICES ASSUME NEW w \in Worker, NEW f \in CacheFile
               PROVE  \/ fetches[w][f] <= losses'[f]
                      \/ fetches[w][f] <= 1 + losses'[f] /\ (OnDisk(f) \/ UnderWay(w, f)')
    BY DEF FetchesInv, OnDisk
  <2>1. fetches[w][f] \in Nat /\ losses[f] \in Nat /\ losses'[f] \in Nat /\ losses'[f] >= losses[f]
    BY DEF FilesInv, FilesTypeOK
  <2>2. CASE UnderWay(w, f)
    BY <2>1, <2>2 DEF FilesInv, FetchesInv, UnderWay, Busy
  <2>3. CASE ~UnderWay(w, f)
    BY <2>1, <2>3 DEF FilesInv, FetchesInv
  <2> QED BY <2>2, <2>3
<1>3. OpenedInv'
    BY DEF FilesInv, OpenedInv
<1>4. TornHasACause'
    BY DEF FilesInv, TornHasACause, Opened
<1> QED BY <1>1, <1>2, <1>3, <1>4 DEF FilesInv

LEMMA ArriveFiles ==
    ASSUME FilesInv, NEW t \in Task, Arrive(t)
    PROVE  FilesInv'
<1>1. FilesTypeOK'
    BY ZenonT(60) DEF FilesInv, FilesTypeOK, Arrive
<1> QED BY <1>1, QuietFiles DEF FilesInv, FilesTypeOK, Arrive, Busy

LEMMA GiveUpFiles ==
    ASSUME FilesInv, NEW t \in Task, GiveUp(t)
    PROVE  FilesInv'
<1>1. FilesTypeOK
    BY DEF FilesInv
<1>2. Ends({t})
    BY DEF GiveUp
<1>3. FilesTypeOK'
    BY <1>1, <1>2, EndsFacts DEF FilesTypeOK, GiveUp
<1> QED BY <1>1, <1>2, <1>3, EndsFacts, QuietFiles DEF GiveUp, FilesTypeOK, Busy

LEMMA NotKeptFiles ==
    ASSUME FilesInv, NEW t \in Task, NotKept(t)
    PROVE  FilesInv'
<1>1. FilesTypeOK /\ HoldersInv
    BY DEF FilesInv
<1>2. Ends({t}) /\ SetLock(t, NoTask) /\ Lose({wants[t]})
    BY DEF NotKept
<1>3. FilesTypeOK'
    BY <1>1, <1>2, EndsFacts, LockFacts, LoseFacts DEF FilesTypeOK, NotKept
<1>4. \A u \in Task \ {t} : Busy(u) => keyLock'[home[u]][wants[u][1]] = keyLock[home[u]][wants[u][1]]
    BY <1>1, <1>2, OthersKeepLocks DEF NotKept, Busy
<1>5. /\ doing[t] = "fetching" /\ losses'[wants[t]] = losses[wants[t]] + 1
      /\ \A f \in CacheFile : losses'[f] >= losses[f]
      /\ UNCHANGED <<disk, linked, fetches, overlapped, cacheFaults>>
  <2>1. wants[t] \in CacheFile /\ \A f \in CacheFile : losses[f] \in Nat
    BY <1>1 DEF FilesTypeOK
  <2>2. losses'[wants[t]] = losses[wants[t]] + 1 /\ \A f \in CacheFile : losses'[f] >= losses[f]
    BY <1>1, <1>2, <2>1, LoseFacts
  <2> QED BY <2>2 DEF NotKept
<1>6. /\ doing'[t] = "idle"
      /\ \A u \in Task \ {t} : doing'[u] = doing[u] /\ home'[u] = home[u] /\ wants'[u] = wants[u]
    BY <1>1, <1>2, EndsFacts
<1> QED BY <1>3, <1>4, <1>5, <1>6, QuietFiles DEF Busy

LEMMA FillFailsFiles ==
    ASSUME FilesInv, NEW t \in Task, FillFails(t)
    PROVE  FilesInv'
<1>1. FilesTypeOK /\ HoldersInv
    BY DEF FilesInv
<1>2. Ends({t}) /\ SetLock(t, NoTask) /\ Lose({wants[t]})
    BY DEF FillFails
<1>3. FilesTypeOK'
    BY <1>1, <1>2, EndsFacts, LockFacts, LoseFacts DEF FilesTypeOK, FillFails, CacheFault
<1>4. \A u \in Task \ {t} : Busy(u) => keyLock'[home[u]][wants[u][1]] = keyLock[home[u]][wants[u][1]]
    BY <1>1, <1>2, OthersKeepLocks DEF FillFails, Busy
<1>5. cacheFaults' > 0
    BY <1>1 DEF FillFails, CacheFault, FilesTypeOK
<1>6. /\ losses'[wants[t]] = losses[wants[t]] + 1 /\ \A f \in CacheFile : losses'[f] >= losses[f]
      /\ UNCHANGED <<disk, fetches, overlapped>>
      /\ \A u \in Task \ {t} : linked'[u] = linked[u]
  <2>1. wants[t] \in CacheFile /\ \A f \in CacheFile : losses[f] \in Nat
    BY <1>1 DEF FilesTypeOK
  <2>2. losses'[wants[t]] = losses[wants[t]] + 1 /\ \A f \in CacheFile : losses'[f] >= losses[f]
    BY <1>1, <1>2, <2>1, LoseFacts
  <2> QED BY <1>1, <2>2 DEF FillFails, FilesTypeOK
<1>7. /\ doing'[t] = "idle"
      /\ \A u \in Task \ {t} : doing'[u] = doing[u] /\ home'[u] = home[u] /\ wants'[u] = wants[u]
    BY <1>1, <1>2, EndsFacts
<1> QED BY <1>3, <1>4, <1>5, <1>6, <1>7, QuietFiles DEF Busy

LEMMA RestartFiles ==
    ASSUME FilesInv, NEW w \in Worker, RestartWorker(w)
    PROVE  FilesInv'
<1> DEFINE gone == {t \in Task : home[t] = w}
           cut == {wants[t] : t \in {u \in Task : home[u] = w /\ doing[u] \in {"fetching", "filling"}}}
<1>1. FilesTypeOK /\ HoldersInv
    BY DEF FilesInv
<1>2. Ends(gone) /\ Lose(cut)
    BY DEF RestartWorker
<1>3. \A t \in Task : linked'[t] = (linked[t] /\ home[t] # w)
    BY DEF RestartWorker
<1>4. linked' \in [Task -> BOOLEAN]
    BY Zenon DEF RestartWorker
<1>5. FilesTypeOK'
    BY <1>1, <1>2, <1>4, EndsFacts, LoseFacts DEF FilesTypeOK, RestartWorker, CacheFault
<1>6. \A t \in Task : Busy(t) /\ t \in gone => losses'[wants[t]] = losses[wants[t]] + 1
  <2> SUFFICES ASSUME NEW t \in Task, Busy(t), t \in gone PROVE losses'[wants[t]] = losses[wants[t]] + 1
    OBVIOUS
  <2>1. wants[t] \in cut /\ wants[t] \in CacheFile
    BY <1>1 DEF Busy, FilesTypeOK
  <2> HIDE DEF cut
  <2> QED BY <1>1, <1>2, <2>1, LoseFacts
<1>7. \A t \in Task : Busy(t) /\ t \notin gone =>
        keyLock'[home[t]][wants[t][1]] = keyLock[home[t]][wants[t][1]]
    BY <1>1 DEF RestartWorker, FilesTypeOK
<1>8. cacheFaults' > 0
    BY <1>1 DEF RestartWorker, CacheFault, FilesTypeOK
<1>9. /\ \A t \in Task : IF t \in gone THEN doing'[t] = "idle"
            ELSE doing'[t] = doing[t] /\ home'[t] = home[t] /\ wants'[t] = wants[t] /\ linked'[t] = linked[t]
      /\ \A f \in CacheFile : losses'[f] >= losses[f]
  <2>1. \A t \in Task : t \notin gone => linked'[t] = linked[t]
    BY <1>1, <1>3 DEF FilesTypeOK
  <2>2. \A f \in CacheFile : losses[f] \in Nat
    BY <1>1 DEF FilesTypeOK
  <2> HIDE DEF gone, cut
  <2>3. \A f \in CacheFile : losses'[f] >= losses[f]
    BY <1>1, <1>2, <2>2, LoseFacts
  <2>4. \A t \in Task : IF t \in gone THEN doing'[t] = "idle"
            ELSE doing'[t] = doing[t] /\ home'[t] = home[t] /\ wants'[t] = wants[t]
    BY <1>1, <1>2, EndsFacts
  <2> QED BY <2>1, <2>3, <2>4
<1>10. UNCHANGED <<disk, fetches, overlapped>>
    BY DEF RestartWorker
<1> HIDE DEF gone, cut
<1> QED BY <1>5, <1>6, <1>7, <1>8, <1>9, <1>10, QuietFiles DEF Busy

LEMMA EnterFiles ==
    ASSUME FilesInv, NEW t \in Task, EnterLock(t)
    PROVE  FilesInv'
<1> DEFINE w == home[t]
           f == wants[t]
<1>1. FilesTypeOK /\ HoldersInv /\ w \in Worker /\ f \in CacheFile /\ f[1] \in Resource
    BY CacheConstants DEF FilesInv, FilesTypeOK
<1>2. CASE Torn(f[1]) \/ Hit(f)
  <2>1. Ends({t}) /\ UNCHANGED <<keyLock, fetches, losses, linked, cacheFaults, disk, overlapped>>
    BY <1>2 DEF EnterLock
  <2>2. FilesTypeOK'
    BY <1>1, <2>1, EndsFacts DEF FilesTypeOK
  <2>3. doing[t] = "waiting"
    BY DEF EnterLock
  <2> QED BY <1>1, <2>1, <2>2, <2>3, EndsFacts, QuietFiles DEF FilesTypeOK, Busy
<1>3. CASE ~Torn(f[1]) /\ ~Hit(f)
  <2>1. /\ doing[t] = "waiting" /\ Holder(t) = NoTask
        /\ doing' = [doing EXCEPT ![t] = "fetching"] /\ SetLock(t, t)
        /\ fetches' = [fetches EXCEPT ![w][f] = @ + 1]
        /\ UNCHANGED <<home, wants, disk, linked, losses, overlapped, cacheFaults>>
    BY <1>3 DEF EnterLock
  <2>2. FilesTypeOK'
    BY <1>1, <2>1, LockFacts DEF FilesTypeOK
  <2>3. \A u \in Task : Busy(u) => ~(home[u] = w /\ wants[u][1] = f[1])
    BY <1>1, <2>1, CacheConstants DEF HoldersInv, Holder
  <2>4. HoldersInv'
    BY <1>1, <2>1, <2>3, LockFacts, CacheConstants DEF HoldersInv, Holder, Busy, FilesTypeOK
  <2>5. ~OnDisk(f) /\ ~UnderWay(w, f)
    BY <1>1, <1>3, <2>3 DEF Torn, Variants, Hit, OnDisk, UnderWay
  <2>6. fetches[w][f] <= losses[f]
    BY <1>1, <2>5 DEF FilesInv, FetchesInv
  <2>7. ASSUME NEW v \in Worker, NEW g \in CacheFile
        PROVE  \/ fetches'[v][g] <= losses[g]
               \/ fetches'[v][g] <= 1 + losses[g] /\ (OnDisk(g) \/ UnderWay(v, g)')
    <3>1. CASE v = w /\ g = f
      <4>1. fetches'[v][g] = fetches[w][f] + 1 /\ UnderWay(v, g)'
        BY <1>1, <2>1, <3>1 DEF FilesTypeOK, UnderWay, Busy
      <4>2. fetches[w][f] \in Nat /\ losses[f] \in Nat
        BY <1>1 DEF FilesTypeOK
      <4> QED BY <2>6, <3>1, <4>1, <4>2
    <3>2. CASE ~(v = w /\ g = f)
      <4>1. fetches'[v][g] = fetches[v][g]
        BY <1>1, <2>1, <3>2 DEF FilesTypeOK
      <4>2. UnderWay(v, g) => UnderWay(v, g)'
        BY <1>1, <2>1 DEF FilesTypeOK, UnderWay, Busy
      <4> QED BY <4>1, <4>2 DEF FilesInv, FetchesInv
    <3> QED BY <3>1, <3>2
  <2>8. FetchesInv'
    BY <2>1, <2>7 DEF FetchesInv, OnDisk
  <2>9. OpenedInv' /\ TornHasACause'
    BY <1>1, <2>1 DEF FilesInv, FilesTypeOK, OpenedInv, TornHasACause, Opened
  <2> QED BY <2>2, <2>4, <2>8, <2>9 DEF FilesInv
<1> QED BY <1>2, <1>3

LEMMA OpenFiles ==
    ASSUME FilesInv, NEW t \in Task, Open(t)
    PROVE  FilesInv'
<1> DEFINE f == wants[t]
           hit == {g \in {f} : Hit(g)}
<1>1. FilesTypeOK /\ HoldersInv /\ OpenedInv /\ f \in CacheFile
    BY DEF FilesInv, FilesTypeOK
<1>2. /\ doing[t] = "fetching" /\ doing' = [doing EXCEPT ![t] = "filling"]
      /\ linked' = [linked EXCEPT ![t] = TRUE] /\ Lose(hit)
      /\ disk' = [disk EXCEPT ![f] = [state |-> "torn", size |-> 0]]
      /\ overlapped' = IF Opened(f) # {} THEN overlapped \cup {f} ELSE overlapped
      /\ UNCHANGED <<keyLock, home, wants, fetches, cacheFaults>>
    BY DEF Open
<1>3. \A g \in CacheFile : /\ losses[g] \in Nat /\ losses'[g] \in Nat
                           /\ losses'[g] = losses[g] + (IF g = f /\ Hit(f) THEN 1 ELSE 0)
  <2> HIDE DEF hit
  <2>1. \A g \in CacheFile : losses'[g] = losses[g] + (IF g \in hit THEN 1 ELSE 0)
    BY <1>1, <1>2, LoseFacts
  <2>2. \A g : g \in hit <=> g = f /\ Hit(f)
    BY DEF hit
  <2>3. \A g \in CacheFile : losses[g] \in Nat
    BY <1>1 DEF FilesTypeOK
  <2> QED BY <2>1, <2>2, <2>3
<1>4. FilesTypeOK'
  <2>1. losses' \in [CacheFile -> Nat]
    BY <1>1, <1>2, LoseFacts
  <2> QED BY <1>1, <1>2, <2>1 DEF FilesTypeOK
<1>5. HoldersInv'
    BY <1>1, <1>2 DEF FilesTypeOK, HoldersInv, Holder, Busy
<1>6. FetchesInv'
  <2> SUFFICES ASSUME NEW v \in Worker, NEW g \in CacheFile
               PROVE  \/ fetches[v][g] <= losses'[g]
                      \/ fetches[v][g] <= 1 + losses'[g] /\ (OnDisk(g)' \/ UnderWay(v, g)')
    BY <1>2 DEF FetchesInv
  <2>1. fetches[v][g] \in Nat
    BY <1>1 DEF FilesTypeOK
  <2>2. \/ fetches[v][g] <= losses[g]
        \/ fetches[v][g] <= 1 + losses[g] /\ (OnDisk(g) \/ UnderWay(v, g))
    BY DEF FilesInv, FetchesInv
  <2>3. CASE g = f
    <3>1. OnDisk(g)'
      BY <1>1, <1>2, <2>3 DEF OnDisk, FilesTypeOK
    <3> QED BY <1>3, <2>1, <2>2, <3>1
  <2>4. CASE g # f
    <3>1. OnDisk(g)' <=> OnDisk(g)
      BY <1>1, <1>2, <2>4 DEF OnDisk, FilesTypeOK
    <3>2. UnderWay(v, g) => UnderWay(v, g)'
      BY <1>1, <1>2 DEF FilesTypeOK, UnderWay, Busy
    <3> QED BY <1>3, <2>1, <2>2, <2>4, <3>1, <3>2
  <2> QED BY <2>3, <2>4
<1>7. OpenedInv'
    BY <1>1, <1>2 DEF FilesTypeOK, OpenedInv, Opened
<1>8. TornHasACause'
  <2> SUFFICES ASSUME NEW g \in CacheFile, disk'[g].state = "torn", g \notin overlapped', cacheFaults = 0
               PROVE  \E u \in Task : doing'[u] = "filling" /\ linked'[u] /\ wants[u] = g
    BY <1>1, <1>2, <1>4 DEF TornHasACause, Opened, FilesTypeOK
  <2>1. CASE g = f
    BY <1>1, <1>2, <2>1 DEF FilesTypeOK
  <2>2. CASE g # f
    <3>1. Opened(g) # {}
      BY <1>1, <1>2, <2>2 DEF FilesInv, TornHasACause, FilesTypeOK
    <3> QED BY <1>1, <1>2, <3>1 DEF FilesTypeOK, Opened
  <2> QED BY <2>1, <2>2
<1> QED BY <1>4, <1>5, <1>6, <1>7, <1>8 DEF FilesInv

LEMMA ExpireFiles ==
    ASSUME FilesInv, NEW f \in CacheFile, Expire(f)
    PROVE  FilesInv'
<1>1. FilesTypeOK /\ HoldersInv /\ OpenedInv
    BY DEF FilesInv
<1>2. /\ disk[f].state = "fresh" /\ disk' = [disk EXCEPT ![f].state = "expired"] /\ Lose({f})
      /\ UNCHANGED <<keyLock, doing, home, wants, linked, fetches, overlapped, cacheFaults>>
    BY DEF Expire
<1>3. FilesTypeOK'
  <2>1. losses' \in [CacheFile -> Nat]
    BY <1>1, <1>2, LoseFacts
  <2> QED BY <1>1, <1>2, <2>1 DEF FilesTypeOK
<1>4. HoldersInv'
    BY <1>1, <1>2 DEF HoldersInv, Holder, Busy
<1>5. \A g \in CacheFile : losses[g] \in Nat /\ losses'[g] = losses[g] + (IF g = f THEN 1 ELSE 0)
  <2>1. \A g \in CacheFile : losses[g] \in Nat
    BY <1>1 DEF FilesTypeOK
  <2> QED BY <1>1, <1>2, <2>1, LoseFacts
<1>6. FetchesInv'
  <2> SUFFICES ASSUME NEW v \in Worker, NEW g \in CacheFile
               PROVE  \/ fetches[v][g] <= losses'[g]
                      \/ fetches[v][g] <= 1 + losses'[g] /\ (OnDisk(g)' \/ UnderWay(v, g)')
    BY <1>2 DEF FetchesInv
  <2>1. fetches[v][g] \in Nat
    BY <1>1 DEF FilesTypeOK
  <2>2. \/ fetches[v][g] <= losses[g]
        \/ fetches[v][g] <= 1 + losses[g] /\ (OnDisk(g) \/ UnderWay(v, g))
    BY DEF FilesInv, FetchesInv
  <2>3. g # f => (OnDisk(g)' <=> OnDisk(g))
    BY <1>1, <1>2 DEF OnDisk, FilesTypeOK
  <2>4. UnderWay(v, g) => UnderWay(v, g)'
    BY <1>2 DEF UnderWay, Busy
  <2> QED BY <1>5, <2>1, <2>2, <2>3, <2>4
<1>7. OpenedInv'
    BY <1>1, <1>2 DEF FilesTypeOK, OpenedInv
<1>8. TornHasACause'
    BY <1>1, <1>2 DEF FilesInv, TornHasACause, Opened, FilesTypeOK
<1> QED BY <1>3, <1>4, <1>6, <1>7, <1>8 DEF FilesInv

\* What a fetch was worth is lost with the file, or with the fetch.
LEMMA LostFetches ==
    ASSUME FilesInv, NEW lost, Lose(lost), UNCHANGED fetches,
           \A g \in CacheFile : g \in lost \/ (OnDisk(g) => OnDisk(g)'),
           \A v \in Worker, g \in CacheFile : UnderWay(v, g) =>
               g \in lost \/ OnDisk(g)' \/ UnderWay(v, g)'
    PROVE  FetchesInv'
<1> SUFFICES ASSUME NEW v \in Worker, NEW g \in CacheFile
             PROVE  \/ fetches[v][g] <= losses'[g]
                    \/ fetches[v][g] <= 1 + losses'[g] /\ (OnDisk(g)' \/ UnderWay(v, g)')
    BY DEF FetchesInv
<1>1. FilesTypeOK /\ fetches[v][g] \in Nat /\ losses[g] \in Nat
    BY DEF FilesInv, FilesTypeOK
<1>2. \/ fetches[v][g] <= losses[g]
      \/ fetches[v][g] <= 1 + losses[g] /\ (OnDisk(g) \/ UnderWay(v, g))
    BY DEF FilesInv, FetchesInv
<1>3. losses'[g] = losses[g] + (IF g \in lost THEN 1 ELSE 0)
    BY <1>1, LoseFacts
<1> QED BY <1>1, <1>2, <1>3

LEMMA PurgeFiles ==
    ASSUME FilesInv, NEW f \in CacheFile, Purge(f)
    PROVE  FilesInv'
<1>1. FilesTypeOK /\ HoldersInv /\ OpenedInv
    BY DEF FilesInv
<1>2. /\ disk' = [g \in CacheFile |-> IF g \in {f} THEN NoFile ELSE disk[g]] /\ Lose({f})
      /\ cacheFaults' = cacheFaults + 1
      /\ \A t \in Task : linked'[t] = (linked[t] /\ wants[t] # f)
      /\ UNCHANGED <<keyLock, doing, home, wants, fetches, overlapped>>
    BY DEF Purge, Removed, CacheFault, Unlinked
<1>3. linked' \in [Task -> BOOLEAN]
    BY Zenon DEF Purge, Unlinked
<1>4. FilesTypeOK'
  <2>1. losses' \in [CacheFile -> Nat]
    BY <1>1, <1>2, LoseFacts
  <2> QED BY <1>1, <1>2, <1>3, <2>1 DEF FilesTypeOK, NoFile
<1>5. HoldersInv'
    BY <1>1, <1>2 DEF HoldersInv, Holder, Busy
<1>6. FetchesInv'
  <2>1. \A g \in CacheFile : g \in {f} \/ (OnDisk(g) => OnDisk(g)')
    BY <1>1, <1>2 DEF OnDisk
  <2>2. \A v \in Worker, g \in CacheFile : UnderWay(v, g) => UnderWay(v, g)'
    BY <1>2 DEF UnderWay, Busy
  <2> QED BY <1>2, <2>1, <2>2, LostFetches
<1>7. OpenedInv'
    BY <1>1, <1>2 DEF FilesTypeOK, OpenedInv
<1>8. TornHasACause'
    BY <1>1, <1>2 DEF TornHasACause, FilesTypeOK
<1> QED BY <1>4, <1>5, <1>6, <1>7, <1>8 DEF FilesInv

LEMMA FillFiles ==
    ASSUME FilesInv, NEW t \in Task, Fill(t)
    PROVE  FilesInv'
<1> DEFINE f == wants[t]
<1>1. FilesTypeOK /\ HoldersInv /\ OpenedInv /\ f \in CacheFile /\ Busy(t) /\ doing[t] = "filling"
    BY DEF FilesInv, FilesTypeOK, Fill, Busy
<1>0. PICK size \in Sizes : \E out :
        LET content == IF linked[t] THEN [disk EXCEPT ![f] = Written(@, size)] ELSE disk IN
        /\ disk' = Removed(content, out)
        /\ linked' = [Unlinked(out) EXCEPT ![t] = FALSE]
        /\ Lose({g \in out : content[g].state \in {"fresh", "torn"}} \cup (IF linked[t] THEN {} ELSE {f}))
    BY DEF Fill
<1>2. PICK out :
        LET content == IF linked[t] THEN [disk EXCEPT ![f] = Written(@, size)] ELSE disk IN
        /\ disk' = Removed(content, out)
        /\ linked' = [Unlinked(out) EXCEPT ![t] = FALSE]
        /\ Lose({g \in out : content[g].state \in {"fresh", "torn"}} \cup (IF linked[t] THEN {} ELSE {f}))
    BY <1>0
<1> DEFINE content == IF linked[t] THEN [disk EXCEPT ![f] = Written(@, size)] ELSE disk
           lost == {g \in out : content[g].state \in {"fresh", "torn"}} \cup (IF linked[t] THEN {} ELSE {f})
<1>3. Ends({t}) /\ SetLock(t, NoTask) /\ UNCHANGED <<fetches, overlapped, cacheFaults>>
    BY DEF Fill
<1>4. size \in Nat \ {0}
    BY CacheAssumption
<1>5. /\ content \in [CacheFile -> [state : {"none", "fresh", "expired", "torn"}, size : Sizes \cup {0}]]
      /\ \A g \in CacheFile \ {f} : content[g] = disk[g]
      /\ IF linked[t] THEN content[f] = Written(disk[f], size) ELSE content[f] = disk[f]
    BY <1>1, <1>4 DEF FilesTypeOK, Written
<1>6. Lose(lost)
    BY <1>2
<1>7. \A g : /\ g \in lost => (g \in out /\ content[g].state \in {"fresh", "torn"}) \/ (g = f /\ ~linked[t])
             /\ g \in out /\ content[g].state \in {"fresh", "torn"} => g \in lost
             /\ ~linked[t] => f \in lost
    OBVIOUS
<1>8. \A g \in CacheFile : disk'[g] = IF g \in out THEN NoFile ELSE content[g]
    BY <1>2 DEF Removed
<1>9. \A u \in Task : linked'[u] = (u # t /\ linked[u] /\ wants[u] \notin out)
    BY <1>2 DEF Unlinked
<1>10. linked' \in [Task -> BOOLEAN]
  <2>1. Unlinked(out) \in [Task -> BOOLEAN]
    BY Zenon DEF Unlinked
  <2> QED BY <1>2, <2>1
<1>11. disk' \in [CacheFile -> [state : {"none", "fresh", "expired", "torn"}, size : Sizes \cup {0}]]
    BY <1>2, <1>5 DEF Removed, NoFile
<1>12. /\ doing'[t] = "idle"
       /\ \A u \in Task \ {t} : doing'[u] = doing[u] /\ home'[u] = home[u] /\ wants'[u] = wants[u]
    BY <1>1, <1>3, EndsFacts
<1> HIDE DEF content, lost
<1>13. FilesTypeOK'
    BY <1>1, <1>3, <1>6, <1>10, <1>11, EndsFacts, LockFacts, LoseFacts DEF FilesTypeOK
<1>14. HoldersInv'
    BY <1>1, <1>3, <1>12, OthersKeepLocks DEF HoldersInv, Holder, Busy
<1>15. FetchesInv'
  <2>1. ASSUME NEW g \in CacheFile, g = f PROVE g \in lost \/ OnDisk(g)'
    BY <1>1, <1>5, <1>7, <1>8, <2>1 DEF OnDisk, Written
  <2>2. ASSUME NEW g \in CacheFile PROVE g \in lost \/ (OnDisk(g) => OnDisk(g)')
    <3>1. CASE g = f
      BY <2>1, <3>1
    <3>2. CASE g # f
      <4>1. content[g] = disk[g]
        BY <1>5, <3>2
      <4>2. CASE g \in out
        BY <1>7, <4>1, <4>2 DEF OnDisk
      <4>3. CASE g \notin out
        BY <1>8, <4>1, <4>3 DEF OnDisk
      <4> QED BY <4>2, <4>3
    <3> QED BY <3>1, <3>2
  <2>3. ASSUME NEW v \in Worker, NEW g \in CacheFile, UnderWay(v, g)
        PROVE  g \in lost \/ OnDisk(g)' \/ UnderWay(v, g)'
    <3>1. PICK u \in Task : Busy(u) /\ home[u] = v /\ wants[u] = g
      BY <2>3 DEF UnderWay
    <3>2. CASE u = t
      BY <2>1, <3>1, <3>2
    <3>3. CASE u # t
      BY <1>12, <3>1, <3>3 DEF UnderWay, Busy
    <3> QED BY <3>2, <3>3
  <2> QED BY <1>3, <1>6, <2>2, <2>3, LostFetches
<1>16. OpenedInv'
  <2> SUFFICES ASSUME NEW u \in Task, doing'[u] = "filling", linked'[u], wants'[u] \notin overlapped
               PROVE  /\ disk'[wants'[u]] = [state |-> "torn", size |-> 0]
                      /\ \A v \in Task : doing'[v] = "filling" /\ linked'[v] /\ wants'[v] = wants'[u] => v = u
    BY <1>3 DEF OpenedInv
  <2>1. u # t /\ doing[u] = "filling" /\ linked[u] /\ wants'[u] = wants[u] /\ wants[u] \notin out
    BY <1>9, <1>12
  <2>2. disk[wants[u]] = [state |-> "torn", size |-> 0] /\ wants[u] \in CacheFile
    BY <1>1, <2>1 DEF OpenedInv, FilesTypeOK
  <2>3. wants[u] = f => ~linked[t]
    BY <1>1, <2>1 DEF OpenedInv
  <2>4. content[wants[u]] = disk[wants[u]]
    BY <1>5, <2>2, <2>3
  <2>5. \A v \in Task : doing'[v] = "filling" /\ linked'[v] /\ wants'[v] = wants[u] => v = u
    BY <1>1, <1>9, <1>12, <2>1 DEF OpenedInv
  <2> QED BY <1>8, <2>1, <2>2, <2>4, <2>5
<1>17. TornHasACause'
  <2> SUFFICES ASSUME NEW g \in CacheFile, disk'[g].state = "torn", g \notin overlapped, cacheFaults = 0
               PROVE  \E u \in Task : doing'[u] = "filling" /\ linked'[u] /\ wants'[u] = g
    BY <1>3, <1>13 DEF TornHasACause, Opened, FilesTypeOK
  <2>1. g \notin out /\ content[g].state = "torn"
    BY <1>8 DEF NoFile
  <2>2. ~(g = f /\ linked[t])
    BY <1>1, <1>4, <1>5, <2>1 DEF OpenedInv, Written
  <2>3. disk[g].state = "torn"
    BY <1>5, <2>1, <2>2
  <2>4. PICK u \in Task : doing[u] = "filling" /\ linked[u] /\ wants[u] = g
    BY <2>3 DEF FilesInv, TornHasACause, Opened
  <2>5. u # t
    BY <2>2, <2>4
  <2> QED BY <1>9, <1>12, <2>1, <2>4, <2>5
<1> QED BY <1>13, <1>14, <1>15, <1>16, <1>17 DEF FilesInv

\* Every reachable state satisfies the invariant.
LEMMA FilesAlways == CacheSpec => []FilesInv
<1>1. FilesInv /\ [CacheNext]_cacheVars => FilesInv'
  <2> SUFFICES ASSUME FilesInv, [CacheNext]_cacheVars PROVE FilesInv'
    OBVIOUS
  <2>1. ASSUME NEW t \in Task, Arrive(t) \/ GiveUp(t) \/ EnterLock(t) \/ NotKept(t) PROVE FilesInv'
    BY <2>1, ArriveFiles, GiveUpFiles, EnterFiles, NotKeptFiles
  <2>2. ASSUME NEW t \in Task, Open(t) \/ Fill(t) \/ FillFails(t) PROVE FilesInv'
    BY <2>2, OpenFiles, FillFiles, FillFailsFiles
  <2>3. ASSUME NEW f \in CacheFile, Expire(f) \/ Purge(f) PROVE FilesInv'
    BY <2>3, ExpireFiles, PurgeFiles
  <2>4. ASSUME NEW w \in Worker, RestartWorker(w) PROVE FilesInv'
    BY <2>4, RestartFiles
  <2>5. CASE UNCHANGED cacheVars
    BY <2>5 DEF cacheVars, FilesInv, FilesTypeOK, HoldersInv, Busy, Holder, FetchesInv, OnDisk, UnderWay, OpenedInv,
                TornHasACause, Opened
  <2> QED BY <2>1, <2>2, <2>3, <2>4, <2>5 DEF CacheNext
<1> QED BY FilesTypeInit, <1>1, PTL DEF CacheSpec

\* However many requests of a worker want a resource together, the worker fetches it once, and once
\* more each time the entry expires, is removed or could not be kept.
THEOREM FetchesAreForLosses == CacheSpec => []FetchesAreNeeded
<1>1. FilesInv => FetchesAreNeeded
    BY DEF FilesInv, FilesTypeOK, FetchesInv, FetchesAreNeeded
<1> QED BY <1>1, FilesAlways, PTL

-----------------------------------------------------------------------------
(* The index of the files.                                                  *)

IndexTypeOK ==
    /\ index \in [Worker -> Indexes]
    /\ older \in [Worker -> SUBSET (Named \X Named)]
    /\ arrivals \in 0..MaxArrivals /\ cacheFaults \in 0..MaxCacheFaults

\* A worker stores one file at a time.
OneStore == \A t, u \in Task : doing[t] = "filling" /\ doing[u] = "filling" /\ home[t] = home[u] => t = u

\* A whole file is counted by a worker that is not storing it: the worker that stores it replaces its
\* entry, for a file that may have been removed, and stored by another, since it was opened.
Filling(w, f) == \E t \in Task : doing[t] = "filling" /\ home[t] = w /\ wants[t] = f
Whole(f) == disk[f].state \in {"fresh", "expired"}
Counts(w, f) == ~Filling(w, f) /\ \E k \in DOMAIN index[w] : k.file = f /\ index[w][k] = disk[f].size
CountsInv == \A f \in CacheFile : Whole(f) => \E w \in Worker : Counts(w, f)

\* The index of a worker that has stored keeps to the maximum.
RoomInv == \A w \in Worker : (\E k \in DOMAIN index[w] : k.name = "zone") => ~TooMuch(index[w])

IndexInv == IndexTypeOK /\ OneStore /\ CountsInv /\ RoomInv

LEMMA IndexFacts ==
    ASSUME NEW entries \in Indexes
    PROVE  /\ DOMAIN entries \subseteq Named
           /\ \A k \in DOMAIN entries : entries[k] \in Sizes \cup {0}
           /\ entries = [k \in DOMAIN entries |-> entries[k]]
BY DEF Indexes

LEMMA IndexIntro ==
    ASSUME NEW names \in SUBSET Named, NEW F, F = [k \in names |-> F[k]], \A k \in names : F[k] \in Sizes \cup {0}
    PROVE  F \in Indexes
BY DEF Indexes

\* The order of the entries stays a set of pairs of entries.
LEMMA UsedType ==
    ASSUME NEW order \in SUBSET (Named \X Named), NEW entries \in SUBSET Named, NEW used \in SUBSET entries
    PROVE  Used(order, entries, used) \in SUBSET (Named \X Named)
BY DEF Used

LEMMA LookupType ==
    ASSUME IndexTypeOK, NEW w \in Worker, NEW r, older' \in LookedUp(w, r)
    PROVE  older' \in [Worker -> SUBSET (Named \X Named)]
<1>1. ASSUME NEW files PROVE Touched(w, files) \in [Worker -> SUBSET (Named \X Named)]
  <2> DEFINE used == {k \in DOMAIN index[w] : k.name = "zone" /\ k.file \in files}
  <2>1. index[w] \in Indexes /\ older[w] \in SUBSET (Named \X Named)
    BY DEF IndexTypeOK
  <2>2. DOMAIN index[w] \in SUBSET Named /\ used \in SUBSET DOMAIN index[w]
    BY <2>1, IndexFacts
  <2>3. Touched(w, files) = [older EXCEPT ![w] = Used(@, DOMAIN index[w], used)]
    BY DEF Touched
  <2> HIDE DEF used
  <2>4. Used(older[w], DOMAIN index[w], used) \in SUBSET (Named \X Named)
    BY <2>1, <2>2, UsedType
  <2> QED BY <2>3, <2>4 DEF IndexTypeOK
<1> QED BY <1>1 DEF LookedUp

LEMMA IndexInit == CacheInit => IndexInv
<1> SUFFICES ASSUME CacheInit PROVE IndexInv
    OBVIOUS
<1>1. << >> \in Indexes
  <2>1. << >> \in [{} -> Sizes \cup {0}] /\ {} \in SUBSET Named
    OBVIOUS
  <2> QED BY <2>1 DEF Indexes
<1>2. IndexTypeOK
    BY <1>1, CacheAssumption DEF CacheInit, IndexTypeOK
<1>3. OneStore /\ CountsInv
    BY DEF CacheInit, OneStore, CountsInv, Whole, NoFile
<1>4. RoomInv
    BY DEF CacheInit, RoomInv
<1> QED BY <1>2, <1>3, <1>4 DEF IndexInv

\* The indexes do not change, no handler begins to store and no file becomes whole.
LEMMA QuietIndexes ==
    ASSUME IndexInv, IndexTypeOK', UNCHANGED index,
           \A t \in Task : doing'[t] = "filling" =>
               doing[t] = "filling" /\ home'[t] = home[t] /\ wants'[t] = wants[t],
           \A f \in CacheFile : Whole(f)' => Whole(f) /\ disk'[f].size = disk[f].size
    PROVE  IndexInv'
<1>1. OneStore'
    BY DEF IndexInv, OneStore
<1>2. CountsInv'
  <2> SUFFICES ASSUME NEW f \in CacheFile, Whole(f)' PROVE \E w \in Worker : Counts(w, f)'
    BY DEF CountsInv
  <2>1. PICK w \in Worker : Counts(w, f)
    BY DEF IndexInv, CountsInv
  <2>2. ~Filling(w, f)'
    BY <2>1 DEF Counts, Filling
  <2> QED BY <2>1, <2>2 DEF Counts
<1>3. RoomInv'
    BY DEF IndexInv, RoomInv
<1> QED BY <1>1, <1>2, <1>3 DEF IndexInv

LEMMA ArriveIndexes ==
    ASSUME FilesInv, IndexInv, NEW t \in Task, Arrive(t)
    PROVE  IndexInv'
<1>1. PICK w \in Worker, f \in CacheFile :
          /\ older' \in LookedUp(w, f[1])
          /\ \/ UNCHANGED <<doing, home, wants>>
             \/ /\ doing' = [doing EXCEPT ![t] = "waiting"]
                /\ home' = [home EXCEPT ![t] = w] /\ wants' = [wants EXCEPT ![t] = f]
    BY DEF Arrive
<1>2. IndexTypeOK /\ FilesTypeOK
    BY DEF IndexInv, FilesInv
<1>3. arrivals' \in 0..MaxArrivals /\ UNCHANGED <<disk, index, cacheFaults>>
    BY <1>2, CacheAssumption DEF Arrive, IndexTypeOK
<1>4. IndexTypeOK'
    BY <1>1, <1>2, <1>3, LookupType DEF IndexTypeOK
<1>5. \A u \in Task : doing'[u] = "filling" =>
               doing[u] = "filling" /\ home'[u] = home[u] /\ wants'[u] = wants[u]
    BY <1>1, <1>2 DEF FilesTypeOK, Arrive
<1> QED BY <1>3, <1>4, <1>5, QuietIndexes DEF Whole

LEMMA EnterIndexes ==
    ASSUME FilesInv, IndexInv, NEW t \in Task, EnterLock(t)
    PROVE  IndexInv'
<1>1. IndexTypeOK /\ FilesTypeOK
    BY DEF IndexInv, FilesInv
<1>2. home[t] \in Worker
    BY <1>1 DEF FilesTypeOK
<1>3. older' \in LookedUp(home[t], wants[t][1]) /\ UNCHANGED <<disk, index, arrivals, cacheFaults>>
    BY DEF EnterLock
<1>4. IndexTypeOK'
    BY <1>1, <1>2, <1>3, LookupType DEF IndexTypeOK
<1>5. \A u \in Task : doing'[u] = "filling" =>
               doing[u] = "filling" /\ home'[u] = home[u] /\ wants'[u] = wants[u]
  <2>1. CASE Ends({t})
    BY <1>1, <2>1, EndsFacts
  <2>2. CASE doing' = [doing EXCEPT ![t] = "fetching"] /\ UNCHANGED <<home, wants>>
    BY <1>1, <2>2 DEF FilesTypeOK
  <2> QED BY <2>1, <2>2 DEF EnterLock
<1> QED BY <1>3, <1>4, <1>5, QuietIndexes DEF Whole

\* A handler that ends without storing.
LEMMA EndIndexes ==
    ASSUME FilesInv, IndexInv, NEW t \in Task, GiveUp(t) \/ NotKept(t) \/ FillFails(t)
    PROVE  IndexInv'
<1>1. IndexTypeOK /\ FilesTypeOK
    BY DEF IndexInv, FilesInv
<1>2. Ends({t}) /\ UNCHANGED <<disk, index, older, arrivals>> /\ (UNCHANGED cacheFaults \/ CacheFault)
    BY DEF GiveUp, NotKept, FillFails
<1>3. IndexTypeOK'
    BY <1>1, <1>2, CacheAssumption DEF IndexTypeOK, CacheFault
<1>4. \A u \in Task : doing'[u] = "filling" =>
               doing[u] = "filling" /\ home'[u] = home[u] /\ wants'[u] = wants[u]
    BY <1>1, <1>2, EndsFacts
<1> QED BY <1>2, <1>3, <1>4, QuietIndexes DEF Whole

\* A file that expires or is purged.
LEMMA WorldIndexes ==
    ASSUME FilesInv, IndexInv, NEW f \in CacheFile, Expire(f) \/ Purge(f)
    PROVE  IndexInv'
<1>1. IndexTypeOK /\ FilesTypeOK
    BY DEF IndexInv, FilesInv
<1>2. UNCHANGED <<index, older, doing, home, wants, arrivals>> /\ (UNCHANGED cacheFaults \/ CacheFault)
    BY DEF Expire, Purge
<1>3. IndexTypeOK'
    BY <1>1, <1>2, CacheAssumption DEF IndexTypeOK, CacheFault
<1>4. \A g \in CacheFile : Whole(g)' => Whole(g) /\ disk'[g].size = disk[g].size
  <2>1. CASE disk[f].state = "fresh" /\ disk' = [disk EXCEPT ![f].state = "expired"]
    BY <1>1, <2>1 DEF FilesTypeOK, Whole
  <2>2. CASE disk' = Removed(disk, {f})
    BY <1>1, <2>2 DEF FilesTypeOK, Whole, Removed, NoFile
  <2> QED BY <2>1, <2>2 DEF Expire, Purge
<1> QED BY <1>2, <1>3, <1>4, QuietIndexes

LEMMA OpenIndexes ==
    ASSUME FilesInv, IndexInv, NEW t \in Task, Open(t)
    PROVE  IndexInv'
<1>1. IndexTypeOK /\ FilesTypeOK /\ OneStore /\ CountsInv /\ wants[t] \in CacheFile
    BY DEF IndexInv, FilesInv, FilesTypeOK
<1>2. /\ Free(home[t]) /\ doing' = [doing EXCEPT ![t] = "filling"]
      /\ disk' = [disk EXCEPT ![wants[t]] = [state |-> "torn", size |-> 0]]
      /\ UNCHANGED <<index, older, home, wants, arrivals, cacheFaults>>
    BY DEF Open
<1>3. IndexTypeOK'
    BY <1>1, <1>2 DEF IndexTypeOK
<1>4. OneStore'
    BY <1>1, <1>2 DEF OneStore, Free, FilesTypeOK
<1>5. CountsInv'
  <2> SUFFICES ASSUME NEW f \in CacheFile, Whole(f)' PROVE \E w \in Worker : Counts(w, f)'
    BY DEF CountsInv
  <2>1. f # wants[t] /\ disk'[f] = disk[f] /\ Whole(f)
    BY <1>1, <1>2 DEF FilesTypeOK, Whole
  <2>2. PICK w \in Worker : Counts(w, f)
    BY <1>1, <2>1 DEF CountsInv
  <2>3. ~Filling(w, f)'
    BY <1>1, <1>2, <2>1, <2>2 DEF Counts, Filling, FilesTypeOK
  <2> QED BY <1>2, <2>1, <2>2, <2>3 DEF Counts
<1>6. RoomInv'
    BY <1>2 DEF IndexInv, RoomInv
<1> QED BY <1>3, <1>4, <1>5, <1>6 DEF IndexInv

LEMMA FillIndexes ==
    ASSUME FilesInv, IndexInv, NEW t \in Task, Fill(t)
    PROVE  IndexInv'
<1> DEFINE w == home[t]
           f == wants[t]
<1>1. /\ IndexTypeOK /\ FilesTypeOK /\ OneStore /\ CountsInv /\ RoomInv
      /\ w \in Worker /\ f \in CacheFile /\ doing[t] = "filling"
    BY DEF IndexInv, FilesInv, FilesTypeOK, Fill
<1>2. PICK size \in Sizes : \E out :
        LET entries == Stored(f, index[w], size)
            order   == Used(older[w], DOMAIN entries, {ZoneEntry(f)})
            content == IF linked[t] THEN [disk EXCEPT ![f] = Written(@, size)] ELSE disk
        IN /\ out \in Evictions(entries, order)
           /\ index' = [index EXCEPT ![w] = Without(entries, out)]
           /\ older' = [older EXCEPT ![w] = {pair \in order : pair[1] \notin out /\ pair[2] \notin out}]
           /\ disk' = Removed(content, {k.file : k \in out})
    BY DEF Fill
<1> DEFINE entries == Stored(f, index[w], size)
           order   == Used(older[w], DOMAIN entries, {ZoneEntry(f)})
           content == IF linked[t] THEN [disk EXCEPT ![f] = Written(@, size)] ELSE disk
<1>3. PICK out :
        /\ out \in Evictions(entries, order)
        /\ index' = [index EXCEPT ![w] = Without(entries, out)]
        /\ older' = [older EXCEPT ![w] = {pair \in order : pair[1] \notin out /\ pair[2] \notin out}]
        /\ disk' = Removed(content, {k.file : k \in out})
    BY <1>2
<1> DEFINE left == Without(entries, out)
<1>4. index[w] \in Indexes /\ older[w] \in SUBSET (Named \X Named) /\ ZoneEntry(f) \in Named
    BY <1>1 DEF IndexTypeOK, ZoneEntry, Named
<1>5. /\ DOMAIN entries = DOMAIN index[w] \cup {ZoneEntry(f)} /\ DOMAIN entries \in SUBSET Named
      /\ \A k \in DOMAIN entries : entries[k] = IF k = ZoneEntry(f) THEN size ELSE index[w][k]
      /\ \A k \in DOMAIN entries : entries[k] \in Sizes \cup {0}
  <2>1. DOMAIN index[w] \subseteq Named /\ \A k \in DOMAIN index[w] : index[w][k] \in Sizes \cup {0}
    BY <1>4, IndexFacts
  <2> QED BY <1>4, <2>1 DEF Stored
<1>6. order \in SUBSET (Named \X Named)
  <2>1. {ZoneEntry(f)} \in SUBSET DOMAIN entries
    BY <1>5
  <2> HIDE DEF entries
  <2> QED BY <1>4, <1>5, <2>1, UsedType
<1> HIDE DEF entries, order
<1>7. out \subseteq DOMAIN entries /\ ~TooMuch(left)
    BY <1>3 DEF Evictions
<1>8. /\ DOMAIN left = DOMAIN entries \ out /\ left = [k \in DOMAIN entries \ out |-> left[k]]
      /\ \A k \in DOMAIN left : left[k] = entries[k]
    BY DEF Without
<1>9. left \in Indexes
  <2> HIDE DEF left
  <2> QED BY <1>5, <1>8, IndexIntro
<1> HIDE DEF left
<1>10. index' = [index EXCEPT ![w] = left] /\ Ends({t}) /\ UNCHANGED <<arrivals, cacheFaults>>
    BY <1>3 DEF left, Fill
<1>11. IndexTypeOK'
    BY <1>1, <1>3, <1>6, <1>9, <1>10 DEF IndexTypeOK
<1>12. /\ doing'[t] = "idle"
       /\ \A u \in Task \ {t} : doing'[u] = doing[u] /\ home'[u] = home[u] /\ wants'[u] = wants[u]
    BY <1>1, <1>10, EndsFacts
<1>13. OneStore'
    BY <1>1, <1>12 DEF OneStore
<1>14. /\ \A g \in CacheFile : disk'[g] = IF \E k \in out : k.file = g THEN NoFile ELSE content[g]
       /\ \A g \in CacheFile : g # f \/ ~linked[t] => content[g] = disk[g]
       /\ linked[t] => content[f] = Written(disk[f], size)
    BY <1>1, <1>3 DEF Removed, FilesTypeOK
<1> HIDE DEF content
<1>15. /\ index'[w] = left
       /\ \A v \in Worker : v # w => index'[v] = index[v]
       /\ \A v \in Worker, g \in CacheFile : Filling(v, g)' => Filling(v, g) /\ v # w
  <2>1. index'[w] = left /\ \A v \in Worker : v # w => index'[v] = index[v]
    BY <1>1, <1>10 DEF IndexTypeOK
  <2>2. \A v \in Worker, g \in CacheFile : Filling(v, g)' => Filling(v, g) /\ v # w
    BY <1>1, <1>12 DEF Filling, OneStore
  <2> QED BY <2>1, <2>2
<1>16. CountsInv'
  <2> SUFFICES ASSUME NEW g \in CacheFile, Whole(g)' PROVE \E v \in Worker : Counts(v, g)'
    BY DEF CountsInv
  <2>1. (\A k \in out : k.file # g) /\ disk'[g] = content[g]
    BY <1>14 DEF Whole, NoFile
  <2>2. CASE linked[t] /\ g = f
    <3>1. disk'[g].size = size
      BY <1>14, <2>1, <2>2 DEF Whole, Written
    <3>2. ZoneEntry(f).file = f
      BY DEF ZoneEntry
    <3>3. ZoneEntry(f) \in DOMAIN left /\ left[ZoneEntry(f)] = size
      BY <1>5, <1>8, <2>1, <2>2, <3>2
    <3>4. PICK v \in Worker : v = w
      BY <1>1
    <3>5. Counts(v, g)'
      BY <1>15, <2>2, <3>1, <3>2, <3>3, <3>4 DEF Counts
    <3> QED BY <3>5
  <2>3. CASE ~(linked[t] /\ g = f)
    <3>1. disk'[g] = disk[g] /\ Whole(g)
      BY <1>14, <2>1, <2>3 DEF Whole
    <3>2. PICK v \in Worker : Counts(v, g)
      BY <1>1, <3>1 DEF CountsInv
    <3>3. PICK k \in DOMAIN index[v] : k.file = g /\ index[v][k] = disk[g].size
      BY <3>2 DEF Counts
    <3>4. ~Filling(v, g)'
      BY <1>15, <3>2 DEF Counts
    <3>5. k \in DOMAIN index'[v] /\ index'[v][k] = index[v][k]
      <4>1. CASE v # w
        BY <1>15, <4>1
      <4>2. CASE v = w
        <5>1. g # f
          BY <1>1, <3>2, <4>2 DEF Counts, Filling
        <5>2. k # ZoneEntry(f)
          BY <3>3, <5>1 DEF ZoneEntry
        <5>3. k \in DOMAIN left /\ left[k] = index[w][k]
          BY <1>5, <1>8, <2>1, <3>3, <4>2, <5>2
        <5> QED BY <1>15, <4>2, <5>3
      <4> QED BY <4>1, <4>2
    <3>6. Counts(v, g)'
      BY <3>1, <3>3, <3>4, <3>5 DEF Counts
    <3> QED BY <3>6
  <2> QED BY <2>2, <2>3
<1>17. RoomInv'
    BY <1>1, <1>7, <1>15 DEF RoomInv, left
<1> QED BY <1>11, <1>13, <1>16, <1>17 DEF IndexInv

LEMMA RestartIndexes ==
    ASSUME FilesInv, IndexInv, NEW w \in Worker, RestartWorker(w)
    PROVE  IndexInv'
<1> DEFINE gone == {t \in Task : home[t] = w}
<1>1. IndexTypeOK /\ FilesTypeOK /\ OneStore /\ RoomInv
    BY DEF IndexInv, FilesInv
<1>2. /\ index' = [index EXCEPT ![w] = Rebuilt] /\ older' = [older EXCEPT ![w] = {}]
      /\ Ends(gone) /\ CacheFault /\ UNCHANGED <<disk, arrivals>>
    BY DEF RestartWorker
<1>3. /\ DOMAIN Rebuilt = {[name |-> "directory", file |-> f] : f \in Present}
      /\ \A k \in DOMAIN Rebuilt : Rebuilt[k] = disk[k.file].size
      /\ Rebuilt = [k \in DOMAIN Rebuilt |-> Rebuilt[k]]
    BY DEF Rebuilt
<1>4. \A k \in DOMAIN Rebuilt : k.name = "directory" /\ k.file \in Present /\ k \in Named
    BY <1>3 DEF Present, Named
<1>5. Rebuilt \in Indexes
  <2>1. \A k \in DOMAIN Rebuilt : Rebuilt[k] \in Sizes \cup {0}
    BY <1>1, <1>3, <1>4 DEF FilesTypeOK, Present
  <2> QED BY <1>3, <1>4, <2>1, IndexIntro
<1>6. IndexTypeOK'
    BY <1>1, <1>2, <1>5, CacheAssumption DEF IndexTypeOK, CacheFault
<1>7. /\ index'[w] = Rebuilt /\ \A v \in Worker : v # w => index'[v] = index[v]
    BY <1>1, <1>2 DEF IndexTypeOK
<1>8. \A t \in Task : doing'[t] = "filling" => home[t] # w /\ doing[t] = "filling" /\ home'[t] = home[t]
  <2>1. \A t \in Task : t \in gone <=> home[t] = w
    OBVIOUS
  <2> HIDE DEF gone
  <2> QED BY <1>1, <1>2, <2>1, EndsFacts
<1>9. OneStore'
    BY <1>1, <1>8 DEF OneStore
<1>10. CountsInv'
  <2> SUFFICES ASSUME NEW f \in CacheFile, Whole(f)' PROVE Counts(w, f)'
    BY DEF CountsInv
  <2> DEFINE k == [name |-> "directory", file |-> f]
  <2>1. f \in Present
    BY <1>2 DEF Whole, Present
  <2>2. k \in DOMAIN Rebuilt /\ k.file = f
    BY <1>3, <2>1
  <2>3. Rebuilt[k] = disk'[f].size
    BY <1>2, <1>3, <2>2
  <2>4. ~Filling(w, f)'
    BY <1>8 DEF Filling
  <2> HIDE DEF k
  <2> QED BY <1>7, <2>2, <2>3, <2>4 DEF Counts
<1>11. RoomInv'
    BY <1>1, <1>4, <1>7 DEF RoomInv
<1> QED BY <1>6, <1>9, <1>10, <1>11 DEF IndexInv

LEMMA IndexStep ==
    ASSUME FilesInv, IndexInv, [CacheNext]_cacheVars
    PROVE  IndexInv'
<1>1. ASSUME NEW t \in Task, Arrive(t) \/ EnterLock(t) \/ Open(t) \/ Fill(t) PROVE IndexInv'
    BY <1>1, ArriveIndexes, EnterIndexes, OpenIndexes, FillIndexes
<1>2. ASSUME NEW t \in Task, GiveUp(t) \/ NotKept(t) \/ FillFails(t) PROVE IndexInv'
    BY <1>2, EndIndexes
<1>3. ASSUME NEW f \in CacheFile, Expire(f) \/ Purge(f) PROVE IndexInv'
    BY <1>3, WorldIndexes
<1>4. ASSUME NEW w \in Worker, RestartWorker(w) PROVE IndexInv'
    BY <1>4, RestartIndexes
<1>5. CASE UNCHANGED cacheVars
    BY <1>5 DEF cacheVars, IndexInv, IndexTypeOK, OneStore, CountsInv, Whole, Counts, Filling, RoomInv
<1> QED BY <1>1, <1>2, <1>3, <1>4, <1>5 DEF CacheNext

LEMMA IndexAlways == CacheSpec => []IndexInv
<1> QED BY IndexInit, IndexStep, FilesAlways, PTL DEF CacheSpec

THEOREM CacheTypeCorrect == CacheSpec => []CacheTypeOK
<1>1. FilesInv /\ IndexInv => CacheTypeOK
    BY DEF FilesInv, IndexInv, FilesTypeOK, IndexTypeOK, CacheTypeOK
<1> QED BY <1>1, FilesAlways, IndexAlways, PTL

\* Every whole file of the directory is in the index of a worker with its size, the index of a worker
\* that has stored keeps to the maximum, and a broken file has a cause.
THEOREM FilesAreCounted == CacheSpec => []DirectoryIsSound
<1>1. FilesInv /\ IndexInv => DirectoryIsSound
  <2> SUFFICES ASSUME FilesInv, IndexInv PROVE DirectoryIsSound
    OBVIOUS
  <2>1. \A f \in CacheFile : Whole(f) =>
            \E w \in Worker : \E k \in DOMAIN index[w] : k.file = f /\ index[w][k] = disk[f].size
    BY DEF IndexInv, CountsInv, Counts
  <2>2. EveryFileIsCounted
    BY <2>1 DEF EveryFileIsCounted, Whole, IndexInv, RoomInv
  <2>3. TornHasACause
    BY DEF FilesInv
  <2> QED BY <2>2, <2>3 DEF DirectoryIsSound
<1> QED BY <1>1, FilesAlways, IndexAlways, PTL
=============================================================================
