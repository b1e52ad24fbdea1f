------------------------------ MODULE SharedHits ------------------------------
(***************************************************************************)
(* The hits that the workers of the boost mode count together, per address *)
(* (and keyword list): one segment of the table in shared memory, each     *)
(* slot a ring of the times of the last hits.  Every operation runs under  *)
(* the lock of the segment and is one step.  A request records its hit,    *)
(* then counts those of the window, in two operations: others may come     *)
(* between.                                                                *)
(***************************************************************************)
EXTENDS Integers, FiniteSets, Sequences

CONSTANTS
    Address,
    NoAddress,      \* the key of an empty slot
    HitSlots,       \* slots of the segment
    HitProbes,      \* MAX_PROBES
    FirstHitSlot,   \* of each address: where its search starts
    RingSize,       \* SHARED_RECIDIVE_CAPACITY
    HitWindow,      \* reputation.window_seconds
    HitLife,        \* _TTL_SECONDS
    LastTime,       \* bound: the last tick; the first one is later than HitLife
    MaxHits         \* bound: hits

ASSUME HitsAssumption ==
    /\ {HitSlots, HitProbes, RingSize} \subseteq Nat \ {0}
    /\ HitProbes <= HitSlots
    /\ FirstHitSlot \in [Address -> 0..(HitSlots - 1)]
    /\ HitWindow <= HitLife /\ {HitWindow, HitLife, LastTime, MaxHits} \subseteq Nat
    /\ NoAddress \notin Address

VARIABLES
    hits,      \* the slots: key, next position, number of times, ring of times
    time,
    \* history variables
    history,   \* of each address: the times of its hits, in their order
    ousted,    \* the addresses whose slot another one took while it was in use
    recorded   \* hits, for the bound

hitsVars == <<hits, time, history, ousted, recorded>>

EmptyRing == [p \in 0..(RingSize - 1) |-> 0]

HitsInit ==
    /\ hits = [s \in 0..(HitSlots - 1) |-> [key |-> NoAddress, head |-> 0, count |-> 0, ring |-> EmptyRing]]
    /\ time = HitLife + 1
    /\ history = [a \in Address |-> <<>>]
    /\ ousted = {}
    /\ recorded = 0

(***************************************************************************)
(* _locate.                                                                *)
(***************************************************************************)
HitSlot(a, i) == (FirstHitSlot[a] + i) % HitSlots

HitsProbed(a) ==
    {i \in 0..(HitProbes - 1) : \A j \in 0..(i - 1) : hits[HitSlot(a, j)].key \notin {a, NoAddress}}

Located(a) == {i \in HitsProbed(a) : hits[HitSlot(a, i)].key = a}

\* The time of the last hit of a slot.
LastHit(slot) ==
    CHOOSE t \in 0..time :
        /\ t = 0 \/ \E p \in 0..(slot.count - 1) : slot.ring[p] = t
        /\ \A p \in 0..(slot.count - 1) : slot.ring[p] <= t

LastHitAt(a, i) == LastHit(hits[HitSlot(a, i)])

Vacant(a) == {i \in HitsProbed(a) : hits[HitSlot(a, i)].key = NoAddress \/ time - LastHitAt(a, i) > HitLife}

IsPlace(a, i) ==
    IF Located(a) # {} THEN i \in Located(a)
    ELSE IF Vacant(a) # {} THEN i \in Vacant(a) /\ \A j \in Vacant(a) : i <= j
    ELSE /\ i \in HitsProbed(a)
         /\ \A j \in HitsProbed(a) :
               LastHitAt(a, i) < LastHitAt(a, j) \/ (LastHitAt(a, i) = LastHitAt(a, j) /\ i <= j)

\* Mutant of Base: a slot that is taken over keeps the hits of the address before.
BaseKept(slot, a) == slot

\* The ring a hit is added to: a new one when the slot was empty or of another address.
Base(slot, a) ==
    IF slot.key = a THEN slot ELSE [key |-> a, head |-> 0, count |-> 0, ring |-> EmptyRing]

AddHit(slot, a) ==
    [key   |-> a,
     head  |-> (slot.head + 1) % RingSize,
     count |-> IF slot.count < RingSize THEN slot.count + 1 ELSE RingSize,
     ring  |-> [slot.ring EXCEPT ![slot.head] = time]]

\* What an address starts again from once its slot was taken.
Past(a) == IF a \in ousted THEN <<>> ELSE history[a]

RecordHit(a) ==
    /\ recorded < MaxHits /\ recorded' = recorded + 1
    /\ \E i \in 0..(HitProbes - 1) :
          LET slot == hits[HitSlot(a, i)] IN
          /\ IsPlace(a, i)
          /\ hits' = [hits EXCEPT ![HitSlot(a, i)] = AddHit(Base(slot, a), a)]
          /\ history' = [history EXCEPT ![a] = Append(Past(a), time)]
          /\ ousted' = (ousted \ {a})
                 \cup (IF slot.key \in Address \ {a} /\ time - LastHit(slot) <= HitLife THEN {slot.key} ELSE {})
          /\ UNCHANGED time

\* The slots of an address, or all of them, keep their keys and have no hit any more.
ResetHits(addresses) ==
    /\ hits' = [s \in DOMAIN hits |->
                   IF hits[s].key \in addresses THEN [hits[s] EXCEPT !.head = 0, !.count = 0] ELSE hits[s]]
    /\ history' = [a \in Address |-> IF a \in addresses THEN <<>> ELSE history[a]]
    /\ ousted' = ousted \ addresses
    /\ UNCHANGED <<time, recorded>>

\* count_hits_in_window.
Counted(a) ==
    IF Located(a) = {} THEN 0
    ELSE LET slot == hits[HitSlot(a, CHOOSE i \in Located(a) : TRUE)]
         IN Cardinality({p \in 0..(slot.count - 1) : slot.ring[p] >= time - HitWindow})

HitsTick ==
    /\ time < LastTime /\ time' = time + 1
    /\ UNCHANGED <<hits, history, ousted, recorded>>

HitsNext ==
    \/ \E a \in Address : RecordHit(a)
    \/ ResetHits(Address) \/ \E a \in Address : ResetHits({a})
    \/ HitsTick

HitsSpec == HitsInit /\ [][HitsNext]_hitsVars
-----------------------------------------------------------------------------
HitsTypeOK ==
    /\ hits \in [0..(HitSlots - 1) -> [key : Address \cup {NoAddress}, head : 0..(RingSize - 1),
                                       count : 0..RingSize, ring : [0..(RingSize - 1) -> 0..time]]]
    /\ time \in Nat
    /\ history \in [Address -> Seq(0..time)]
    /\ ousted \subseteq Address
    /\ recorded \in 0..MaxHits

HitsInWindow(a) == Cardinality({n \in DOMAIN history[a] : history[a][n] >= time - HitWindow})

\* A threshold up to the size of the ring is crossed exactly when the hits of the window cross it,
\* whatever worker recorded them, except for an address whose slot was taken while it was in use.
SharedHitsAreExact ==
    \A a \in Address \ ousted :
        \A threshold \in 1..RingSize : Counted(a) >= threshold <=> HitsInWindow(a) >= threshold
=============================================================================
