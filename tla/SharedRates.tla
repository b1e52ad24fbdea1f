------------------------------ MODULE SharedRates ------------------------------
(***************************************************************************)
(* The token buckets that the workers of the boost mode share: one segment *)
(* of the table in shared memory.  A key looks for its slot in at most     *)
(* MaxProbes slots from its first one; every operation runs under the lock *)
(* of the segment, so the workers' operations are one step each, in any    *)
(* order.  Keys of other segments never meet.                              *)
(*                                                                         *)
(* Tokens are counted in parts: a request costs RateWindow parts, so that  *)
(* the refill of one tick, requests / window, is Requests parts.           *)
(***************************************************************************)
EXTENDS Integers, FiniteSets

CONSTANTS
    RateKey,
    NoKey,          \* the key of an empty slot
    RateSlots,      \* slots of the segment
    RateProbes,     \* MAX_PROBES
    FirstRateSlot,  \* of each key: where its search starts
    Requests,       \* requests allowed ...
    RateWindow,     \* ... in this many ticks
    RateLife,       \* _TTL_SECONDS
    LastTick        \* bound: the last tick; the first one is later than RateLife, as the time of a real clock is

ASSUME RatesAssumption ==
    /\ {RateSlots, RateProbes, Requests, RateWindow} \subseteq Nat \ {0}
    /\ RateProbes <= RateSlots
    /\ FirstRateSlot \in [RateKey -> 0..(RateSlots - 1)]
    /\ RateWindow <= RateLife /\ {RateLife, LastTick} \subseteq Nat
    /\ NoKey \notin RateKey

VARIABLES
    rates,     \* the slots: key, tokens, time of the last refill
    now,
    \* history variables
    bucket,    \* the bucket of each key if it had one of its own
    displaced  \* the keys whose slot another key took while it was in use

ratesVars == <<rates, now, bucket, displaced>>

Capacity  == Requests * RateWindow
EmptySlot == [key |-> NoKey, tokens |-> 0, last |-> 0]
NewBucket == [tokens |-> Capacity, last |-> 0]

RatesInit ==
    /\ rates = [s \in 0..(RateSlots - 1) |-> EmptySlot]
    /\ now = RateLife + 1
    /\ bucket = [k \in RateKey |-> NewBucket]
    /\ displaced = {}

(***************************************************************************)
(* consume_token.                                                          *)
(***************************************************************************)
AtMost(bound, n) == IF n < bound THEN n ELSE bound
Level(b, t)  == AtMost(Capacity, b.tokens + Requests * (t - b.last))
Allowed(b)   == Level(b, now) >= RateWindow

\* Mutant of Consume: an empty bucket goes on giving tokens.
ConsumeAlways(b) == [tokens |-> Level(b, now) - RateWindow, last |-> now]

Consume(b)   == [tokens |-> Level(b, now) - (IF Allowed(b) THEN RateWindow ELSE 0), last |-> now]

(***************************************************************************)
(* The search of a key: it goes on until the slot of the key, an empty one *)
(* or the last probe.                                                      *)
(***************************************************************************)
RateSlot(k, i) == (FirstRateSlot[k] + i) % RateSlots

\* The probes the search of k makes.
RateProbed(k) ==
    {i \in 0..(RateProbes - 1) : \A j \in 0..(i - 1) : rates[RateSlot(k, j)].key \notin {k, NoKey}}

Found(k) == {i \in RateProbed(k) : rates[RateSlot(k, i)].key = k}
Reusable(k) ==
    {i \in RateProbed(k) : \/ rates[RateSlot(k, i)].key = NoKey
                           \/ now - rates[RateSlot(k, i)].last > RateLife}

IsFirstOf(i, probes) == i \in probes /\ \A j \in probes : i <= j
IsOldestOf(k, i) ==
    /\ i \in RateProbed(k)
    /\ \A j \in RateProbed(k) :
          \/ rates[RateSlot(k, i)].last < rates[RateSlot(k, j)].last
          \/ rates[RateSlot(k, i)].last = rates[RateSlot(k, j)].last /\ i <= j

\* Mutant of IsChosen: the search stops at the first slot it may reuse.
IsFirstReusable(k, i) ==
    IF Reusable(k) # {} THEN IsFirstOf(i, Reusable(k))
    ELSE IF Found(k) # {} THEN i \in Found(k) ELSE IsOldestOf(k, i)

\* The slot of the key, else the first one that may be reused, else the oldest.
IsChosen(k, i) ==
    IF Found(k) # {} THEN i \in Found(k)
    ELSE IF Reusable(k) # {} THEN IsFirstOf(i, Reusable(k)) ELSE IsOldestOf(k, i)

\* The bucket of a key, as the next check of it will find it: a new one when it has no slot.
SharedBucket(k) ==
    IF Found(k) = {} THEN NewBucket
    ELSE LET slot == rates[RateSlot(k, CHOOSE i \in Found(k) : TRUE)]
         IN [tokens |-> slot.tokens, last |-> slot.last]

Check(k) ==
    \E i \in 0..(RateProbes - 1) :
        LET slot == rates[RateSlot(k, i)]
            used == Consume(IF slot.key = k THEN [tokens |-> slot.tokens, last |-> slot.last] ELSE NewBucket) IN
        /\ IsChosen(k, i)
        /\ rates' = [rates EXCEPT ![RateSlot(k, i)] = [key |-> k, tokens |-> used.tokens, last |-> used.last]]
        /\ bucket' = [bucket EXCEPT ![k] = IF k \in displaced THEN used ELSE Consume(@)]
        /\ displaced' = (displaced \ {k})
               \cup (IF slot.key \in RateKey \ {k} /\ now - slot.last <= RateLife THEN {slot.key} ELSE {})
        /\ UNCHANGED now

\* Mutant of ResetSlot: the slot is emptied, which cuts the search of the keys behind it.
ResetSlotEmpty(k) == EmptySlot

\* The slot of a key that is forgotten is out of use, and keeps its key.
ResetSlot(k) == [key |-> k, tokens |-> 0, last |-> 0]

Reset(k) ==
    /\ rates' = [s \in DOMAIN rates |->
                    IF \E i \in Found(k) : s = RateSlot(k, i) THEN ResetSlot(k) ELSE rates[s]]
    /\ bucket' = [bucket EXCEPT ![k] = NewBucket]
    /\ displaced' = displaced \ {k}
    /\ UNCHANGED now

ResetAll ==
    /\ rates' = [s \in DOMAIN rates |-> EmptySlot]
    /\ bucket' = [k \in RateKey |-> NewBucket] /\ displaced' = {}
    /\ UNCHANGED now

RatesTick ==
    /\ now < LastTick /\ now' = now + 1
    /\ UNCHANGED <<rates, bucket, displaced>>

RatesNext == (\E k \in RateKey : Check(k) \/ Reset(k)) \/ ResetAll \/ RatesTick

RatesSpec == RatesInit /\ [][RatesNext]_ratesVars
-----------------------------------------------------------------------------
RatesTypeOK ==
    /\ rates \in [0..(RateSlots - 1) -> [key : RateKey \cup {NoKey}, tokens : 0..Capacity, last : 0..now]]
    /\ now \in Nat
    /\ bucket \in [RateKey -> [tokens : 0..Capacity, last : 0..now]]
    /\ displaced \subseteq RateKey

\* Sharing changes nothing: the bucket a worker finds for a key has the tokens that a bucket kept
\* for that key alone would have, except when the neighbourhood was full of keys in use and its slot
\* was taken.
SharedRateIsExact ==
    \A k \in RateKey \ displaced : Level(SharedBucket(k), now) = Level(bucket[k], now)
=============================================================================
