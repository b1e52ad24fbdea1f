---------------------------- MODULE MemoryProofs ----------------------------
(***************************************************************************)
(* Proofs about what the server counts and remembers within bounds: the    *)
(* counters that the workers share, for every set of keys and of           *)
(* addresses, every size of the segments, every rate, ring and window, and *)
(* the memory of a source of RiposteHistory, for every policy and every    *)
(* bound.                                                                  *)
(***************************************************************************)
EXTENDS SharedCounters, RiposteHistory, SequenceTheorems, FiniteSetTheorems, TLAPS

-----------------------------------------------------------------------------
(* The rates: the inductive invariant.                                      *)

Slot == 0..(RateSlots - 1)

\* Every slot in use is found by the search of its key.
ChainInv == \A s \in Slot : rates[s].key # NoKey => \E i \in Found(rates[s].key) : s = RateSlot(rates[s].key, i)

\* The slot of a key has the level of its own bucket, which is full when the key has no slot.
Agrees(k) ==
    /\ \A s \in Slot : rates[s].key = k => Level(rates[s], now) = Level(bucket[k], now)
    /\ (\A s \in Slot : rates[s].key # k) => Level(bucket[k], now) = Capacity

LevelInv == \A k \in RateKey \ displaced : Agrees(k)

RatesInv == RatesTypeOK /\ now > RateLife /\ ChainInv /\ LevelInv

-----------------------------------------------------------------------------
(* Arithmetic of the buckets.                                               *)

LEMMA RateBounds ==
    /\ RateSlots \in Nat \ {0} /\ RateProbes \in Nat \ {0} /\ Requests \in Nat \ {0} /\ RateWindow \in Nat \ {0}
    /\ RateLife \in Nat /\ RateWindow <= RateLife /\ LastTick \in Nat
    /\ FirstRateSlot \in [RateKey -> Slot] /\ NoKey \notin RateKey
BY RatesAssumption DEF Slot

LEMMA ProductIsNat == ASSUME NEW a \in Nat, NEW b \in Nat PROVE a * b \in Nat
OBVIOUS

LEMMA ProductGrows ==
    ASSUME NEW a \in Nat, NEW b \in Nat, NEW c \in Nat, b <= c
    PROVE  a * b <= a * c
<1>1. PICK d \in Nat : c = b + d
    <2> WITNESS c - b \in Nat
    <2> QED
        OBVIOUS
<1>2. a * c = a * b + a * d
    BY <1>1
<1>3. a * b \in Nat /\ a * d \in Nat
    BY ProductIsNat
<1> QED
    BY <1>1, <1>2, <1>3

LEMMA CapacityIsNat == Capacity \in Nat
BY RateBounds, ProductIsNat DEF Capacity

\* What the bucket of a slot or of a key looks like.
Bucket(b, t) == b.tokens \in 0..Capacity /\ b.last \in 0..t

LEMMA LevelBounds ==
    ASSUME NEW b, NEW t \in Nat, Bucket(b, t)
    PROVE  Level(b, t) \in 0..Capacity
<1>1. b.tokens \in Nat /\ t - b.last \in Nat
    BY CapacityIsNat DEF Bucket
<1>2. Requests * (t - b.last) \in Nat
    BY <1>1, RateBounds, ProductIsNat
<1> QED
    BY <1>1, <1>2, CapacityIsNat DEF Level, AtMost

\* A bucket that has not been used for a window is full.
LEMMA UnusedIsFull ==
    ASSUME NEW b, NEW t \in Nat, Bucket(b, t), t - b.last >= RateWindow
    PROVE  Level(b, t) = Capacity
<1>1. b.tokens \in Nat /\ t - b.last \in Nat
    BY CapacityIsNat DEF Bucket
<1>2. Requests * RateWindow <= Requests * (t - b.last)
    BY <1>1, RateBounds, ProductGrows
<1>3. Requests * (t - b.last) \in Nat /\ Requests * RateWindow \in Nat
    BY <1>1, RateBounds, ProductIsNat
<1> QED
    BY <1>1, <1>2, <1>3 DEF Level, AtMost, Capacity

\* One tick later a bucket holds what one tick adds, up to its capacity.
LEMMA LevelOfNextTick ==
    ASSUME NEW b, NEW t \in Nat, Bucket(b, t)
    PROVE  Level(b, t + 1) = AtMost(Capacity, Level(b, t) + Requests)
<1>1. b.tokens \in Nat /\ t - b.last \in Nat
    BY CapacityIsNat DEF Bucket
<1>2. Requests * ((t - b.last) + 1) = Requests * (t - b.last) + Requests
    BY <1>1, RateBounds
<1>3. (t + 1) - b.last = (t - b.last) + 1
    BY <1>1 DEF Bucket
<1>4. Requests * (t - b.last) \in Nat /\ Requests \in Nat
    BY <1>1, RateBounds, ProductIsNat
<1> QED
    BY <1>1, <1>2, <1>3, <1>4, CapacityIsNat DEF Level, AtMost

\* What a check leaves depends on nothing but the level it finds.
LEMMA ConsumeByLevel ==
    ASSUME NEW a, NEW b, Level(a, now) = Level(b, now)
    PROVE  Consume(a) = Consume(b)
BY DEF Consume, Allowed

LEMMA ConsumeType ==
    ASSUME now \in Nat, NEW b, Bucket(b, now)
    PROVE  Consume(b) \in [tokens : 0..Capacity, last : 0..now]
<1>1. Level(b, now) \in 0..Capacity
    BY LevelBounds
<1>2. Level(b, now) - (IF Allowed(b) THEN RateWindow ELSE 0) \in 0..Capacity
    BY <1>1, RateBounds, CapacityIsNat DEF Allowed
<1> QED
    BY <1>2 DEF Consume

LEMMA NewIsFull ==
    ASSUME now \in Nat, now > RateLife
    PROVE  Bucket(NewBucket, now) /\ Level(NewBucket, now) = Capacity
<1>1. Bucket(NewBucket, now)
    BY CapacityIsNat DEF Bucket, NewBucket
<1>2. now - NewBucket.last >= RateWindow
    BY RateBounds DEF NewBucket
<1> QED
    BY <1>1, <1>2, UnusedIsFull

-----------------------------------------------------------------------------
(* The slots of a search.                                                   *)

LEMMA SlotInSegment == ASSUME NEW k \in RateKey, NEW i \in Nat PROVE RateSlot(k, i) \in Slot
BY RateBounds DEF RateSlot, Slot

LEMMA BucketOfSlot == ASSUME RatesTypeOK, NEW s \in Slot PROVE Bucket(rates[s], now)
BY DEF RatesTypeOK, Slot, Bucket

LEMMA BucketOfKey == ASSUME RatesTypeOK, NEW k \in RateKey PROVE Bucket(bucket[k], now)
BY DEF RatesTypeOK, Bucket

\* A search meets its key at most once.
LEMMA FoundOnce ==
    ASSUME NEW k \in RateKey, NEW i \in Found(k), NEW j \in Found(k)
    PROVE  i = j
BY RateBounds DEF Found, RateProbed

\* A key has at most one slot, at the probe where its search finds it.
LEMMA SlotOfFound ==
    ASSUME ChainInv, NEW k \in RateKey, NEW i \in Found(k), NEW s \in Slot, rates[s].key = k
    PROVE  s = RateSlot(k, i)
<1>1. PICK j \in Found(k) : s = RateSlot(k, j)
    BY RateBounds DEF ChainInv
<1> QED
    BY <1>1, FoundOnce

\* The search has not met the slot it chooses before it reaches it.
LEMMA ChosenIsNew ==
    ASSUME RatesTypeOK, NEW k \in RateKey, NEW i \in 0..(RateProbes - 1), IsChosen(k, i)
    PROVE  i \in RateProbed(k) /\ \A j \in 0..(i - 1) : RateSlot(k, j) # RateSlot(k, i)
<1>1. i \in RateProbed(k)
    BY DEF IsChosen, Found, Reusable, IsFirstOf, IsOldestOf
<1>2. ASSUME NEW j \in 0..(i - 1), RateSlot(k, j) = RateSlot(k, i)
      PROVE  FALSE
  <2>1. j \in RateProbed(k) /\ ~(i <= j)
      BY <1>1, RateBounds DEF RateProbed
  <2>2. CASE Found(k) # {}
      BY <1>1, <1>2, <2>2, RateBounds DEF IsChosen, Found, RateProbed
  <2>3. CASE Found(k) = {} /\ Reusable(k) # {}
      BY <1>2, <2>1, <2>3 DEF IsChosen, Reusable, IsFirstOf
  <2>4. CASE Found(k) = {} /\ Reusable(k) = {}
    <3>1. IsOldestOf(k, i)
        BY <2>4 DEF IsChosen
    <3>2. rates[RateSlot(k, i)].last \in Nat
        BY SlotInSegment, BucketOfSlot DEF Bucket, RatesTypeOK
    <3> QED
        BY <1>2, <2>1, <3>1, <3>2 DEF IsOldestOf
  <2> QED
      BY <2>2, <2>3, <2>4
<1> QED
    BY <1>1, <1>2

-----------------------------------------------------------------------------
(* The four actions.                                                        *)

LEMMA RatesStart == RatesInit => RatesInv
<1> SUFFICES ASSUME RatesInit PROVE RatesInv
    OBVIOUS
<1>1. now \in Nat /\ now > RateLife
    BY RateBounds DEF RatesInit
<1>2. RatesTypeOK
    BY <1>1, CapacityIsNat DEF RatesInit, RatesTypeOK, EmptySlot, NewBucket
<1>3. ChainInv
    BY DEF RatesInit, ChainInv, EmptySlot, Slot
<1>4. LevelInv
  <2> SUFFICES ASSUME NEW k \in RateKey PROVE Agrees(k)
      BY DEF LevelInv
  <2>1. bucket[k] = NewBucket /\ \A s \in Slot : rates[s].key # k
      BY RateBounds DEF RatesInit, EmptySlot, Slot
  <2> QED
      BY <1>1, <2>1, NewIsFull DEF Agrees
<1> QED
    BY <1>1, <1>2, <1>3, <1>4 DEF RatesInv

\* What a check of k does, by its slot.
LEMMA CheckStep ==
    ASSUME RatesInv, NEW k \in RateKey, Check(k)
    PROVE  RatesInv'
<1> DEFINE Mine(s) == IF rates[s].key = k THEN [tokens |-> rates[s].tokens, last |-> rates[s].last] ELSE NewBucket
<1>1. PICK i \in 0..(RateProbes - 1) :
        /\ IsChosen(k, i)
        /\ rates' = [rates EXCEPT ![RateSlot(k, i)] =
                        [key |-> k, tokens |-> Consume(Mine(RateSlot(k, i))).tokens,
                         last |-> Consume(Mine(RateSlot(k, i))).last]]
        /\ bucket' = [bucket EXCEPT ![k] = IF k \in displaced THEN Consume(Mine(RateSlot(k, i))) ELSE Consume(@)]
        /\ displaced' = (displaced \ {k})
               \cup (IF rates[RateSlot(k, i)].key \in RateKey \ {k} /\ now - rates[RateSlot(k, i)].last <= RateLife
                     THEN {rates[RateSlot(k, i)].key} ELSE {})
        /\ now' = now
    BY DEF Check
<1> DEFINE s0 == RateSlot(k, i)
           used == Consume(Mine(s0))
<1>2. s0 \in Slot
    BY SlotInSegment
<1>3. now \in Nat /\ now > RateLife /\ RatesTypeOK /\ ChainInv /\ LevelInv
    BY DEF RatesInv, RatesTypeOK
<1>4. Bucket(Mine(s0), now)
    BY <1>2, <1>3, NewIsFull, BucketOfSlot DEF Bucket
<1>5. used \in [tokens : 0..Capacity, last : 0..now]
    BY <1>3, <1>4, ConsumeType
<1>6. rates'[s0] = [key |-> k, tokens |-> used.tokens, last |-> used.last]
      /\ \A s \in Slot : s # s0 => rates'[s] = rates[s]
    BY <1>1, <1>2, <1>3 DEF RatesTypeOK, Slot
<1>7. RatesTypeOK'
  <2>1. rates' \in [0..(RateSlots - 1) -> [key : RateKey \cup {NoKey}, tokens : 0..Capacity, last : 0..now]]
      BY <1>1, <1>2, <1>3, <1>5 DEF RatesTypeOK, Slot
  <2>2. Consume(bucket[k]) \in [tokens : 0..Capacity, last : 0..now]
      BY <1>3, BucketOfKey, ConsumeType
  <2>3. bucket' \in [RateKey -> [tokens : 0..Capacity, last : 0..now]]
      BY <1>1, <1>3, <1>5, <2>2 DEF RatesTypeOK
  <2>4. displaced' \subseteq RateKey
      BY <1>1, <1>3 DEF RatesTypeOK
  <2> QED
      BY <1>1, <1>3, <2>1, <2>3, <2>4 DEF RatesTypeOK
<1>8. i \in RateProbed(k) /\ \A j \in 0..(i - 1) : RateSlot(k, j) # s0
    BY <1>1, <1>3, ChosenIsNew
\* no slot but s0 is in use by k
<1>9. \A s \in Slot : rates[s].key = k => s = s0
  <2> SUFFICES ASSUME NEW s \in Slot, rates[s].key = k PROVE s = s0
      OBVIOUS
  <2>1. Found(k) # {}
      BY <1>3, RateBounds DEF ChainInv
  <2>2. i \in Found(k)
      BY <1>1, <2>1 DEF IsChosen
  <2> QED
      BY <1>3, <2>2, SlotOfFound
<1>10. ChainInv'
  <2> SUFFICES ASSUME NEW s \in Slot, NEW m, m = rates'[s].key, m # NoKey
               PROVE  \E j \in Found(m)' : s = RateSlot(m, j)
      BY DEF ChainInv, RateSlot
  <2>1. CASE s = s0
    <3>1. m = k
        BY <1>6, <2>1
    <3>2. \A j \in 0..(i - 1) : rates'[RateSlot(k, j)].key \notin {k, NoKey}
      <4> SUFFICES ASSUME NEW j \in 0..(i - 1) PROVE rates'[RateSlot(k, j)] = rates[RateSlot(k, j)]
          BY <1>8 DEF RateProbed
      <4>1. RateSlot(k, j) \in Slot
          BY SlotInSegment
      <4> QED
          BY <1>6, <1>8, <4>1
    <3>3. i \in Found(k)'
        BY <1>6, <3>2 DEF Found, RateProbed, RateSlot
    <3> QED
        BY <2>1, <3>1, <3>3
  <2>2. CASE s # s0
    <3>1. rates[s].key = m
        BY <1>6, <2>2
    <3>2. PICK j \in Found(m) : s = RateSlot(m, j)
        BY <1>3, <3>1 DEF ChainInv
    <3>3. m \in RateKey /\ m # k
        BY <1>3, <1>9, <2>2, <3>1 DEF RatesTypeOK, Slot
    <3>4. \A l \in 0..(j - 1) : rates'[RateSlot(m, l)].key \notin {m, NoKey}
      <4> SUFFICES ASSUME NEW l \in 0..(j - 1) PROVE rates'[RateSlot(m, l)].key \notin {m, NoKey}
          OBVIOUS
      <4>1. rates[RateSlot(m, l)].key \notin {m, NoKey}
          BY <3>2 DEF Found, RateProbed
      <4>2. RateSlot(m, l) \in Slot
          BY <3>3, SlotInSegment, <3>2, SMTT(30) DEF Found, RateProbed
      <4> QED
          BY <1>6, <3>3, <4>1, <4>2, RateBounds
    <3>5. j \in Found(m)'
        BY <1>6, <2>2, <3>1, <3>2, <3>4 DEF Found, RateProbed, RateSlot
    <3> QED
        BY <3>2, <3>5
  <2> QED
      BY <2>1, <2>2
<1>11. LevelInv'
  <2> SUFFICES ASSUME NEW m \in RateKey, m \notin displaced' PROVE Agrees(m)'
      BY DEF LevelInv
  <2>1. CASE m = k
    <3>1. bucket'[k] = used
      <4>1. CASE k \in displaced
          BY <1>1, <1>3, <4>1 DEF RatesTypeOK
      <4>2. CASE k \notin displaced
        <5>1. Agrees(k)
            BY <1>3, <4>2 DEF LevelInv
        <5>2. CASE rates[s0].key = k
          <6>1. Level(Mine(s0), now) = Level(rates[s0], now)
              BY <5>2 DEF Level
          <6> QED
              BY <1>1, <1>2, <1>3, <4>2, <5>1, <5>2, <6>1, ConsumeByLevel DEF Agrees, RatesTypeOK
        <5>3. CASE rates[s0].key # k
          <6>1. Level(bucket[k], now) = Capacity
              BY <1>9, <5>1, <5>3 DEF Agrees
          <6>2. Level(Mine(s0), now) = Capacity
              BY <1>3, <5>3, NewIsFull
          <6> QED
              BY <1>1, <1>3, <4>2, <6>1, <6>2, ConsumeByLevel DEF RatesTypeOK
        <5> QED
            BY <5>2, <5>3
      <4> QED
          BY <4>1, <4>2
    <3>2. Level(rates'[s0], now') = Level(bucket'[k], now')
        BY <1>6, <3>1 DEF Level
    <3>3. \A s \in Slot : rates'[s].key = k => s = s0
        BY <1>6, <1>9
    <3> QED
        BY <1>2, <1>6, <2>1, <3>2, <3>3 DEF Agrees, Level, Capacity
  <2>2. CASE m # k
    <3>1. bucket'[m] = bucket[m] /\ m \notin displaced
        BY <1>1, <1>3, <2>2 DEF RatesTypeOK
    <3>2. Agrees(m)
        BY <1>3, <3>1 DEF LevelInv
    <3>3. \A s \in Slot : rates'[s].key = m => Level(rates'[s], now') = Level(bucket'[m], now')
        BY <1>1, <1>6, <2>2, <3>1, <3>2 DEF Agrees
    <3>4. ASSUME \A s \in Slot : rates'[s].key # m
          PROVE  Level(bucket'[m], now') = Capacity
      <4>1. CASE rates[s0].key = m
        <5>1. ~(now - rates[s0].last <= RateLife)
            BY <1>1, <2>2, <4>1
        <5>2. Bucket(rates[s0], now)
            BY <1>2, <1>3, BucketOfSlot
        <5>3. now - rates[s0].last >= RateWindow
            BY <1>3, <5>1, <5>2, RateBounds DEF Bucket
        <5>4. Level(rates[s0], now) = Capacity
            BY <1>3, <5>2, <5>3, UnusedIsFull
        <5> QED
            BY <1>1, <1>2, <3>1, <3>2, <4>1, <5>4 DEF Agrees
      <4>2. CASE rates[s0].key # m
        <5>1. \A s \in Slot : rates[s].key # m
            BY <1>6, <3>4, <4>2
        <5> QED
            BY <1>1, <3>1, <3>2, <5>1 DEF Agrees
      <4> QED
          BY <4>1, <4>2
    <3> QED
        BY <3>3, <3>4 DEF Agrees, Level, Capacity
  <2> QED
      BY <2>1, <2>2
<1> QED
    BY <1>1, <1>3, <1>7, <1>10, <1>11 DEF RatesInv

LEMMA ResetStep ==
    ASSUME RatesInv, NEW k \in RateKey, Reset(k)
    PROVE  RatesInv'
<1>1. now \in Nat /\ now > RateLife /\ RatesTypeOK /\ ChainInv /\ LevelInv /\ now' = now
    BY DEF RatesInv, RatesTypeOK, Reset
<1>2. ResetSlot(k) \in [key : RateKey \cup {NoKey}, tokens : 0..Capacity, last : 0..now]
    BY <1>1, CapacityIsNat DEF ResetSlot
<1>3. \A s \in Slot : rates'[s] = IF \E i \in Found(k) : s = RateSlot(k, i) THEN ResetSlot(k) ELSE rates[s]
    BY <1>1 DEF Reset, RatesTypeOK, Slot
<1>4. \A s \in Slot : (\E i \in Found(k) : s = RateSlot(k, i)) <=> rates[s].key = k
    BY <1>1, SlotOfFound, RateBounds DEF ChainInv, Found
<1>5. \A s \in Slot : rates'[s].key = rates[s].key
    BY <1>3, <1>4 DEF ResetSlot
<1>6. RatesTypeOK'
  <2>1. rates' \in [0..(RateSlots - 1) -> [key : RateKey \cup {NoKey}, tokens : 0..Capacity, last : 0..now]]
      BY <1>1, <1>2 DEF RatesTypeOK, Reset
  <2>2. NewBucket \in [tokens : 0..Capacity, last : 0..now]
      BY <1>1, CapacityIsNat DEF NewBucket
  <2>3. bucket' \in [RateKey -> [tokens : 0..Capacity, last : 0..now]] /\ displaced' \subseteq RateKey
      BY <1>1, <2>2 DEF RatesTypeOK, Reset
  <2> QED
      BY <1>1, <2>1, <2>3 DEF RatesTypeOK
<1>7. ChainInv'
  <2>1. \A m \in RateKey : Found(m)' = Found(m)
    <3> SUFFICES ASSUME NEW m \in RateKey PROVE Found(m)' = Found(m)
        OBVIOUS
    <3>1. \A i \in 0..(RateProbes - 1) : rates'[RateSlot(m, i)].key = rates[RateSlot(m, i)].key
        BY <1>5, SlotInSegment
    <3> QED
        BY <3>1, RateBounds DEF Found, RateProbed, RateSlot
  <2>2. \A s \in Slot : rates[s].key # NoKey => rates[s].key \in RateKey
      BY <1>1 DEF RatesTypeOK, Slot
  <2> QED
      BY <1>1, <1>5, <2>1, <2>2 DEF ChainInv, RateSlot
<1>8. LevelInv'
  <2> SUFFICES ASSUME NEW m \in RateKey, m \notin displaced' PROVE Agrees(m)'
      BY DEF LevelInv
  <2>1. CASE m = k
    <3>1. Level(bucket'[k], now') = Capacity
        BY <1>1, NewIsFull DEF Reset, RatesTypeOK
    <3>2. Bucket(ResetSlot(k), now) /\ now - ResetSlot(k).last >= RateWindow
        BY <1>1, CapacityIsNat, RateBounds DEF Bucket, ResetSlot
    <3>3. Level(ResetSlot(k), now) = Capacity
        BY <1>1, <3>2, UnusedIsFull
    <3> QED
        BY <1>1, <1>3, <1>4, <1>5, <2>1, <3>1, <3>3 DEF Agrees, Level, Capacity
  <2>2. CASE m # k
    <3>1. bucket'[m] = bucket[m] /\ m \notin displaced
        BY <1>1, <2>2 DEF Reset, RatesTypeOK
    <3>2. Agrees(m)
        BY <1>1, <3>1 DEF LevelInv
    <3>3. \A s \in Slot : rates[s].key = m => rates'[s] = rates[s]
        BY <1>3, <1>4, <2>2
    <3> QED
        BY <1>1, <1>5, <3>1, <3>2, <3>3 DEF Agrees, Level, Capacity
  <2> QED
      BY <2>1, <2>2
<1> QED
    BY <1>1, <1>6, <1>7, <1>8 DEF RatesInv

LEMMA ResetAllStep == RatesInv /\ ResetAll => RatesInv'
<1> SUFFICES ASSUME RatesInv, ResetAll PROVE RatesInv'
    OBVIOUS
<1>1. now \in Nat /\ now > RateLife /\ RatesTypeOK /\ now' = now
    BY DEF RatesInv, RatesTypeOK, ResetAll
<1>2. \A s \in Slot : rates'[s] = EmptySlot
    BY <1>1 DEF ResetAll, RatesTypeOK, Slot
<1>3. RatesTypeOK'
    BY <1>1, CapacityIsNat DEF RatesTypeOK, ResetAll, EmptySlot, NewBucket
<1>4. ChainInv'
    BY <1>2 DEF ChainInv, EmptySlot
<1>5. LevelInv'
  <2> SUFFICES ASSUME NEW k \in RateKey PROVE Agrees(k)'
      BY DEF LevelInv
  <2>1. Level(bucket'[k], now') = Capacity
      BY <1>1, NewIsFull DEF ResetAll
  <2>2. \A s \in Slot : rates'[s].key # k
      BY <1>2, RateBounds DEF EmptySlot
  <2> QED
      BY <2>1, <2>2 DEF Agrees, Level, Capacity
<1> QED
    BY <1>1, <1>3, <1>4, <1>5 DEF RatesInv

LEMMA TickStep == RatesInv /\ RatesTick => RatesInv'
<1> SUFFICES ASSUME RatesInv, RatesTick PROVE RatesInv'
    OBVIOUS
<1>1. now \in Nat /\ now > RateLife /\ RatesTypeOK /\ ChainInv /\ LevelInv
    BY DEF RatesInv, RatesTypeOK
<1>2. now' = now + 1 /\ rates' = rates /\ bucket' = bucket /\ displaced' = displaced
    BY DEF RatesTick
<1>3. RatesTypeOK'
    BY <1>1, <1>2 DEF RatesTypeOK
<1>4. ChainInv'
    BY <1>1, <1>2 DEF ChainInv, Found, RateProbed, RateSlot
<1>5. LevelInv'
  <2> SUFFICES ASSUME NEW k \in RateKey, k \notin displaced PROVE Agrees(k)'
      BY <1>2 DEF LevelInv
  <2>1. Agrees(k)
      BY <1>1 DEF LevelInv
  <2>2. Level(bucket[k], now + 1) = AtMost(Capacity, Level(bucket[k], now) + Requests)
      BY <1>1, BucketOfKey, LevelOfNextTick
  <2>3. \A s \in Slot : Level(rates[s], now + 1) = AtMost(Capacity, Level(rates[s], now) + Requests)
      BY <1>1, BucketOfSlot, LevelOfNextTick
  <2>4. AtMost(Capacity, Capacity + Requests) = Capacity
      BY CapacityIsNat, RateBounds DEF AtMost
  <2>5. \A s \in Slot : rates'[s].key = k => Level(rates[s], now + 1) = Level(bucket[k], now + 1)
      BY <1>2, <2>1, <2>2, <2>3 DEF Agrees
  <2>6. (\A s \in Slot : rates'[s].key # k) => Level(bucket[k], now + 1) = Capacity
      BY <1>2, <2>1, <2>2, <2>4 DEF Agrees
  <2> QED
      BY <1>2, <2>5, <2>6 DEF Agrees, Level, Capacity
<1> QED
    BY <1>1, <1>2, <1>3, <1>4, <1>5, RateBounds DEF RatesInv

-----------------------------------------------------------------------------
LEMMA RatesAlways == RatesSpec => []RatesInv
<1>1. RatesInv /\ [RatesNext]_ratesVars => RatesInv'
  <2> SUFFICES ASSUME RatesInv, [RatesNext]_ratesVars PROVE RatesInv'
      OBVIOUS
  <2>1. CASE UNCHANGED ratesVars
      BY <2>1 DEF ratesVars, RatesInv, RatesTypeOK, ChainInv, LevelInv, Agrees, Found, RateProbed, RateSlot, Level
  <2> QED
      BY <2>1, CheckStep, ResetStep, ResetAllStep, TickStep DEF RatesNext
<1> QED
    BY <1>1, RatesStart, PTL DEF RatesSpec

\* The variables keep their types: no bucket ever holds less than nothing or more than its capacity.
THEOREM RatesTypeCorrect == RatesSpec => []RatesTypeOK
<1>1. RatesInv => RatesTypeOK
    BY DEF RatesInv
<1> QED
    BY <1>1, RatesAlways, PTL

\* Sharing the table between the workers and the keys changes no rate, except for a key whose slot
\* was taken while it was in use.
THEOREM SharingIsExact == RatesSpec => []SharedRateIsExact
<1>1. RatesInv => SharedRateIsExact
  <2> SUFFICES ASSUME RatesInv, NEW k \in RateKey, k \notin displaced
               PROVE  Level(SharedBucket(k), now) = Level(bucket[k], now)
      BY DEF SharedRateIsExact
  <2>1. Agrees(k) /\ ChainInv /\ now \in Nat /\ now > RateLife
      BY DEF RatesInv, LevelInv, RatesTypeOK
  <2>2. CASE Found(k) = {}
    <3>1. \A s \in Slot : rates[s].key # k
        BY <2>1, <2>2, RateBounds DEF ChainInv
    <3> QED
        BY <2>1, <2>2, <3>1, NewIsFull DEF Agrees, SharedBucket
  <2>3. CASE Found(k) # {}
    <3>1. PICK i \in Found(k) : i = CHOOSE j \in Found(k) : TRUE
        BY <2>3
    <3>2. RateSlot(k, i) \in Slot /\ rates[RateSlot(k, i)].key = k
        BY SlotInSegment, <3>1 DEF Found, RateProbed
    <3>3. Level(SharedBucket(k), now) = Level(rates[RateSlot(k, i)], now)
        BY <2>3, <3>1 DEF SharedBucket, Level
    <3> QED
        BY <2>1, <3>2, <3>3 DEF Agrees
  <2> QED
      BY <2>2, <2>3
<1> QED
    BY <1>1, RatesAlways, PTL

-----------------------------------------------------------------------------
(* The hits: the inductive invariant.                                       *)

HitsSlot == 0..(HitSlots - 1)

\* Every slot in use is found by the search of its address.
HitsChainInv ==
    \A s \in HitsSlot : hits[s].key # NoAddress =>
        \E i \in Located(hits[s].key) : s = HitSlot(hits[s].key, i)

\* Where the ring holds the hit that is the j-th from the last.
Place(head, j) == IF j <= head THEN head - j ELSE head + RingSize - j

\* Such a hit is in no window any more.
TooOld(t) == time - t > HitLife

\* A slot holds the last hits of a history; when it has room, those before them are gone.
Matches(slot, h) ==
    /\ slot.count <= Len(h)
    /\ \A j \in 1..slot.count : slot.ring[Place(slot.head, j)] = h[Len(h) + 1 - j]
    /\ slot.count < RingSize => slot.head = slot.count /\ \A n \in 1..(Len(h) - slot.count) : TooOld(h[n])

MatchInv == \A s \in HitsSlot : hits[s].key # NoAddress => Matches(hits[s], history[hits[s].key])

\* An address without a slot, that lost none in use, has no hit that counts.
GoneInv ==
    \A a \in Address \ ousted :
        (\A s \in HitsSlot : hits[s].key # a) => \A n \in DOMAIN history[a] : TooOld(history[a][n])

\* Hits are in the order of their times.
Ordered(h) == \A n \in DOMAIN h : \A m \in 1..n : h[m] <= h[n]
OrderInv == \A a \in Address : Ordered(history[a])

\* An address whose slot was taken has none.
OustedInv == \A a \in ousted : \A s \in HitsSlot : hits[s].key # a

HitsInv ==
    HitsTypeOK /\ time > HitLife /\ HitsChainInv /\ MatchInv /\ GoneInv /\ OrderInv /\ OustedInv

-----------------------------------------------------------------------------
(* Rings.                                                                   *)

LEMMA HitBounds ==
    /\ HitSlots \in Nat \ {0} /\ HitProbes \in Nat \ {0} /\ RingSize \in Nat \ {0}
    /\ HitWindow \in Nat /\ HitLife \in Nat /\ HitWindow <= HitLife /\ MaxHits \in Nat
    /\ FirstHitSlot \in [Address -> HitsSlot] /\ NoAddress \notin Address
BY HitsAssumption DEF HitsSlot

\* What the slots are.
HitsSlotType == [key : Address \cup {NoAddress}, head : 0..(RingSize - 1), count : 0..RingSize,
                 ring : [0..(RingSize - 1) -> 0..time]]

LEMMA NextPosition ==
    ASSUME NEW R \in Nat \ {0}, NEW head \in 0..(R - 1)
    PROVE  (head + 1) % R = IF head + 1 = R THEN 0 ELSE head + 1
OBVIOUS

\* Two of the last hits have two places, and the places of the last hits fill the ring from its start.
LEMMA Places ==
    ASSUME NEW head \in 0..(RingSize - 1)
    PROVE  /\ \A j \in 1..RingSize : Place(head, j) \in 0..(RingSize - 1)
           /\ \A j, l \in 1..RingSize : Place(head, j) = Place(head, l) => j = l
           /\ \A p \in 0..(RingSize - 1) : \E j \in 1..RingSize : p = Place(head, j)
           /\ \A p \in 0..(head - 1) : \E j \in 1..head : p = Place(head, j)
           /\ \A j \in 1..head : Place(head, j) \in 0..(head - 1)
<1>1. \A p \in 0..(RingSize - 1) : \E j \in 1..RingSize : p = Place(head, j)
  <2> SUFFICES ASSUME NEW p \in 0..(RingSize - 1) PROVE \E j \in 1..RingSize : p = Place(head, j)
      OBVIOUS
  <2>1. CASE p < head
    <3>1. head - p \in 1..RingSize
        BY <2>1, HitBounds
    <3> WITNESS head - p \in 1..RingSize
    <3> QED
        BY <2>1, HitBounds DEF Place
  <2>2. CASE ~(p < head)
    <3>1. head + RingSize - p \in 1..RingSize
        BY <2>2, HitBounds
    <3> WITNESS head + RingSize - p \in 1..RingSize
    <3> QED
        BY <2>2, HitBounds DEF Place
  <2> QED
      BY <2>1, <2>2
<1>2. \A p \in 0..(head - 1) : \E j \in 1..head : p = Place(head, j)
  <2> SUFFICES ASSUME NEW p \in 0..(head - 1) PROVE \E j \in 1..head : p = Place(head, j)
      OBVIOUS
  <2> WITNESS head - p \in 1..head
  <2> QED
      BY HitBounds DEF Place
<1> QED
    BY <1>1, <1>2, HitBounds DEF Place

\* The places after one more hit.
LEMMA PlacesShift ==
    ASSUME NEW head \in 0..(RingSize - 1), NEW next, next = IF head + 1 = RingSize THEN 0 ELSE head + 1
    PROVE  /\ Place(next, 1) = head
           /\ \A j \in 2..RingSize : Place(next, j) = Place(head, j - 1)
           /\ \A j \in 1..(RingSize - 1) : Place(head, j) \in 0..(RingSize - 1) /\ Place(head, j) # head
BY HitBounds DEF Place

LEMMA AppendFacts ==
    ASSUME NEW t \in Nat, NEW h \in Seq(0..t)
    PROVE  /\ Append(h, t) \in Seq(0..t) /\ Len(Append(h, t)) = Len(h) + 1 /\ Len(h) \in Nat
           /\ DOMAIN Append(h, t) = 1..(Len(h) + 1) /\ DOMAIN h = 1..Len(h)
           /\ Append(h, t)[Len(h) + 1] = t /\ \A n \in 1..Len(h) : Append(h, t)[n] = h[n] /\ h[n] \in 0..t
OBVIOUS

\* A hit that is added to a slot and to a history leaves them alike.
LEMMA AddHitMatches ==
    ASSUME time \in Nat, NEW a \in Address, NEW slot \in HitsSlotType, NEW h \in Seq(0..time), Matches(slot, h)
    PROVE  AddHit(slot, a) \in HitsSlotType /\ Matches(AddHit(slot, a), Append(h, time))
<1> DEFINE new == AddHit(slot, a)
           g   == Append(h, time)
<1>1. slot.head \in 0..(RingSize - 1) /\ slot.count \in 0..RingSize /\ slot.ring \in [0..(RingSize - 1) -> 0..time]
    BY DEF HitsSlotType
<1>2. new.head = (IF slot.head + 1 = RingSize THEN 0 ELSE slot.head + 1)
    BY <1>1, HitBounds, NextPosition DEF AddHit
<1>3. /\ new.count = (IF slot.count < RingSize THEN slot.count + 1 ELSE RingSize)
      /\ new.ring = [slot.ring EXCEPT ![slot.head] = time]
    BY DEF AddHit
<1>4. new \in HitsSlotType
  <2> RingSize \in Nat \ {0}
      BY HitBounds
  <2> HIDE DEF new
  <2>1. new.head \in 0..(RingSize - 1) /\ new.count \in 0..RingSize
    <3>1. new.head \in 0..(RingSize - 1)
        BY <1>1, <1>2
    <3>2. new.count \in 0..RingSize
        BY <1>1, <1>3
    <3> QED
        BY <3>1, <3>2
  <2>2. new.ring \in [0..(RingSize - 1) -> 0..time]
    <3> DEFINE positions == 0..(RingSize - 1)
               times == 0..time
    <3>1. slot.ring \in [positions -> times] /\ slot.head \in positions /\ time \in times
        BY <1>1
    <3> HIDE DEF positions, times
    <3>2. [slot.ring EXCEPT ![slot.head] = time] \in [positions -> times]
        BY <3>1
    <3> QED
        BY <1>3, <3>2 DEF positions, times
  <2>3. new = [key |-> a, head |-> new.head, count |-> new.count, ring |-> new.ring]
      BY DEF AddHit, new
  <2> QED
      BY <2>1, <2>2, <2>3 DEF HitsSlotType
<1>5. Len(g) = Len(h) + 1 /\ Len(h) \in Nat /\ g[Len(h) + 1] = time /\ \A n \in 1..Len(h) : g[n] = h[n]
    BY AppendFacts
<1> HIDE DEF new, g
<1>6. new.count <= Len(g)
    BY <1>1, <1>3, <1>5, HitBounds DEF Matches
<1>7. ASSUME NEW j \in 1..new.count PROVE new.ring[Place(new.head, j)] = g[Len(g) + 1 - j]
  <2>1. CASE j = 1
    <3>1. Place(new.head, j) = slot.head
        BY <1>1, <1>2, <2>1, PlacesShift
    <3>2. new.ring[slot.head] = time
        BY <1>1, <1>3
    <3>3. Len(g) + 1 - j = Len(h) + 1
        BY <1>5, <2>1
    <3> QED
        BY <1>5, <3>1, <3>2, <3>3
  <2>2. CASE j # 1
    <3>1. j - 1 \in 1..slot.count /\ j - 1 \in 1..(RingSize - 1) /\ j \in 2..RingSize
        BY <1>1, <1>3, <1>7, <2>2, HitBounds
    <3>2. Place(new.head, j) = Place(slot.head, j - 1)
      <4> DEFINE head == slot.head
                 next == new.head
      <4>1. head \in 0..(RingSize - 1) /\ next = IF head + 1 = RingSize THEN 0 ELSE head + 1
          BY <1>1, <1>2
      <4> HIDE DEF head, next
      <4>2. \A l \in 2..RingSize : Place(next, l) = Place(head, l - 1)
          BY <4>1, PlacesShift
      <4> QED
          BY <3>1, <4>2 DEF head, next
    <3>3. Place(slot.head, j - 1) \in 0..(RingSize - 1) /\ Place(slot.head, j - 1) # slot.head
        BY <1>1, <1>2, <3>1, PlacesShift
    <3>4. new.ring[Place(new.head, j)] = slot.ring[Place(slot.head, j - 1)]
        BY <1>1, <1>3, <3>2, <3>3
    <3>5. slot.ring[Place(slot.head, j - 1)] = h[Len(h) + 1 - (j - 1)]
        BY <3>1 DEF Matches
    <3>6. Len(h) + 1 - (j - 1) \in 1..Len(h) /\ Len(g) + 1 - j = Len(h) + 1 - (j - 1)
        BY <1>1, <1>5, <3>1 DEF Matches
    <3> QED
        BY <1>5, <3>4, <3>5, <3>6
  <2> QED
      BY <2>1, <2>2
<1>8. ASSUME new.count < RingSize
      PROVE  new.head = new.count /\ \A n \in 1..(Len(g) - new.count) : TooOld(g[n])
  <2>1. slot.count < RingSize /\ new.count = slot.count + 1
      BY <1>1, <1>3, <1>8, HitBounds
  <2>2. slot.head = slot.count /\ \A n \in 1..(Len(h) - slot.count) : TooOld(h[n])
      BY <2>1 DEF Matches
  <2>3. Len(g) - new.count = Len(h) - slot.count
      BY <1>1, <1>5, <2>1, SMTT(30)
  <2>4. \A n \in 1..(Len(h) - slot.count) : n \in 1..Len(h)
      BY <1>1, <1>5
  <2> QED
      BY <1>1, <1>2, <1>5, <1>8, <2>1, <2>2, <2>3, <2>4
<1> QED
    BY <1>4, <1>6, <1>7, <1>8 DEF Matches, new, g

\* The time of the last hit of a slot is one of its times, and none is later.
LEMMA LastHitFacts ==
    ASSUME time \in Nat, NEW slot \in HitsSlotType, NEW h \in Seq(0..time), Ordered(h), Matches(slot, h)
    PROVE  /\ LastHit(slot) \in 0..time
           /\ \A n \in 1..Len(h) : n > Len(h) - slot.count => h[n] <= LastHit(slot)
           /\ slot.count > 0 => \A n \in 1..Len(h) : h[n] <= LastHit(slot)
<1>1. /\ slot.head \in 0..(RingSize - 1) /\ slot.count \in 0..RingSize /\ slot.ring \in [0..(RingSize - 1) -> 0..time]
      /\ Len(h) \in Nat /\ DOMAIN h = 1..Len(h) /\ slot.count <= Len(h)
    BY DEF HitsSlotType, Matches
<1>2. \A p \in 0..(slot.count - 1) : \E n \in 1..Len(h) : slot.ring[p] = h[n] /\ n > Len(h) - slot.count
  <2> SUFFICES ASSUME NEW p \in 0..(slot.count - 1)
               PROVE  \E n \in 1..Len(h) : slot.ring[p] = h[n] /\ n > Len(h) - slot.count
      OBVIOUS
  <2>1. PICK j \in 1..slot.count : p = Place(slot.head, j)
    <3>1. CASE slot.count = RingSize
        BY <1>1, <3>1, Places, HitBounds, SMTT(30)
    <3>2. CASE slot.count < RingSize
        BY <1>1, <3>2, Places DEF Matches
    <3> QED
        BY <1>1, <3>1, <3>2, HitBounds
  <2>2. slot.ring[p] = h[Len(h) + 1 - j]
      BY <2>1 DEF Matches
  <2>3. Len(h) + 1 - j \in 1..Len(h) /\ Len(h) + 1 - j > Len(h) - slot.count
      BY <1>1
  <2> QED
      BY <2>2, <2>3
<1>3. \A j \in 1..slot.count : Place(slot.head, j) \in 0..(slot.count - 1)
  <2>1. CASE slot.count = RingSize
      BY <1>1, <2>1, Places, HitBounds
  <2>2. CASE slot.count < RingSize
      BY <1>1, <2>2, Places DEF Matches
  <2> QED
      BY <1>1, <2>1, <2>2, HitBounds
<1> DEFINE Is(t) == /\ t = 0 \/ \E p \in 0..(slot.count - 1) : slot.ring[p] = t
                    /\ \A p \in 0..(slot.count - 1) : slot.ring[p] <= t
<1>4. \E t \in 0..time : Is(t)
  <2>1. CASE slot.count = 0
    <3>1. 0 \in 0..time /\ \A p \in 0..(slot.count - 1) : FALSE
        BY <2>1
    <3> QED
        BY <3>1
  <2>2. CASE slot.count # 0
    <3>1. 1 \in 1..slot.count /\ Len(h) \in 1..Len(h) /\ Len(h) + 1 - 1 = Len(h)
        BY <1>1, <2>2
    <3>2. slot.ring[Place(slot.head, 1)] = h[Len(h)]
        BY <3>1 DEF Matches
    <3>3. \A n \in 1..Len(h) : h[n] <= h[Len(h)]
        BY <1>1, <3>1 DEF Ordered
    <3>4. h[Len(h)] \in 0..time
        BY <3>1
    <3> QED
        BY <1>2, <1>3, <3>1, <3>2, <3>3, <3>4
  <2> QED
      BY <2>1, <2>2
<1>5. LastHit(slot) \in 0..time /\ Is(LastHit(slot))
    BY <1>4 DEF LastHit
<1>6. ASSUME NEW n \in 1..Len(h), n > Len(h) - slot.count PROVE h[n] <= LastHit(slot)
  <2>1. Len(h) + 1 - n \in 1..slot.count /\ Len(h) + 1 - (Len(h) + 1 - n) = n
      BY <1>1, <1>6, SMTT(30)
  <2>2. slot.ring[Place(slot.head, Len(h) + 1 - n)] = h[n]
      BY <2>1 DEF Matches
  <2> QED
      BY <1>3, <1>5, <2>1, <2>2
<1>7. ASSUME slot.count > 0, NEW n \in 1..Len(h) PROVE h[n] <= LastHit(slot)
  <2>1. Len(h) \in 1..Len(h) /\ Len(h) > Len(h) - slot.count
      BY <1>1, <1>7
  <2>2. h[Len(h)] <= LastHit(slot) /\ h[n] <= h[Len(h)]
      BY <1>1, <1>6, <2>1 DEF Ordered
  <2>3. h[n] \in 0..time /\ h[Len(h)] \in 0..time
      BY <2>1
  <2> QED
      BY <1>5, <2>2, <2>3
<1> QED
    BY <1>5, <1>6, <1>7

-----------------------------------------------------------------------------
(* The hits: the slots of a search.                                         *)

LEMMA HitSlotInSegment == ASSUME NEW a \in Address, NEW i \in Nat PROVE HitSlot(a, i) \in HitsSlot
BY HitBounds DEF HitSlot, HitsSlot

\* What a slot and a history are.
LEMMA HitsTypes ==
    ASSUME HitsTypeOK
    PROVE  /\ time \in Nat
           /\ \A s \in HitsSlot : hits[s] \in HitsSlotType /\ hits[s].key \in Address \cup {NoAddress}
           /\ \A a \in Address : history[a] \in Seq(0..time)
BY DEF HitsTypeOK, HitsSlot, HitsSlotType

\* The last hit of a slot in use is between the beginning and now.
LEMMA LastHitOfSlot ==
    ASSUME HitsTypeOK, OrderInv, MatchInv, NEW s \in HitsSlot, hits[s].key # NoAddress
    PROVE  LastHit(hits[s]) \in 0..time
<1>1. hits[s] \in HitsSlotType /\ hits[s].key \in Address /\ time \in Nat
    BY HitsTypes
<1>2. history[hits[s].key] \in Seq(0..time) /\ Ordered(history[hits[s].key])
    BY <1>1, HitsTypes DEF OrderInv
<1>3. Matches(hits[s], history[hits[s].key])
    BY DEF MatchInv
<1> QED
    BY <1>1, <1>2, <1>3, LastHitFacts

\* A search meets its address at most once.
LEMMA LocatedOnce ==
    ASSUME NEW a \in Address, NEW i \in Located(a), NEW j \in Located(a)
    PROVE  i = j
BY HitBounds DEF Located, HitsProbed

\* An address has at most one slot, at the probe where its search finds it.
LEMMA SlotOfLocated ==
    ASSUME HitsChainInv, NEW a \in Address, NEW i \in Located(a), NEW s \in HitsSlot, hits[s].key = a
    PROVE  s = HitSlot(a, i)
<1>1. PICK j \in Located(a) : s = HitSlot(a, j)
    BY HitBounds DEF HitsChainInv
<1> QED
    BY <1>1, LocatedOnce

\* The search has not met the slot it chooses before it reaches it.
LEMMA PlaceIsNew ==
    ASSUME HitsTypeOK, OrderInv, MatchInv, NEW a \in Address, NEW i \in 0..(HitProbes - 1), IsPlace(a, i)
    PROVE  i \in HitsProbed(a) /\ \A j \in 0..(i - 1) : HitSlot(a, j) # HitSlot(a, i)
<1>1. i \in HitsProbed(a)
    BY DEF IsPlace, Located, Vacant
<1>2. ASSUME NEW j \in 0..(i - 1), HitSlot(a, j) = HitSlot(a, i)
      PROVE  FALSE
  <2>1. j \in HitsProbed(a) /\ ~(i <= j)
      BY <1>1, HitBounds DEF HitsProbed
  <2>2. CASE Located(a) # {}
      BY <1>1, <1>2, <2>2, HitBounds DEF IsPlace, Located, HitsProbed
  <2>3. CASE Located(a) = {} /\ Vacant(a) # {}
      BY <1>2, <2>1, <2>3 DEF IsPlace, Vacant, LastHitAt
  <2>4. CASE Located(a) = {} /\ Vacant(a) = {}
    <3>1. LastHitAt(a, i) < LastHitAt(a, j) \/ (LastHitAt(a, i) = LastHitAt(a, j) /\ i <= j)
        BY <2>1, <2>4 DEF IsPlace
    <3>2. hits[HitSlot(a, i)].key # NoAddress
        BY <1>1, <2>4 DEF Vacant
    <3>3. LastHitAt(a, i) \in 0..time /\ LastHitAt(a, j) = LastHitAt(a, i) /\ time \in Nat
        BY <1>2, <3>2, HitSlotInSegment, LastHitOfSlot, HitsTypes DEF LastHitAt
    <3> QED
        BY <2>1, <3>1, <3>3
  <2> QED
      BY <2>2, <2>3, <2>4
<1> QED
    BY <1>1, <1>2

-----------------------------------------------------------------------------
(* The hits: the three actions.                                             *)

LEMMA HitsStart == HitsInit => HitsInv
<1> SUFFICES ASSUME HitsInit PROVE HitsInv
    OBVIOUS
<1>1. EmptyRing \in [0..(RingSize - 1) -> 0..time]
    BY HitBounds DEF HitsInit, EmptyRing
<1>2. \A a \in Address : history[a] = <<>>
    BY DEF HitsInit
<1>3. \A s \in HitsSlot : hits[s].key = NoAddress
    BY DEF HitsInit, HitsSlot
<1>4. HitsTypeOK /\ time > HitLife
  <2>1. HitLife \in Nat /\ RingSize \in Nat \ {0}
      BY HitBounds
  <2>2. time \in Nat /\ time > HitLife /\ 0 \in 0..(RingSize - 1) /\ 0 \in 0..RingSize /\ 0 \in 0..time
      BY <2>1 DEF HitsInit
  <2>3. [key |-> NoAddress, head |-> 0, count |-> 0, ring |-> EmptyRing] \in HitsSlotType
      BY <1>1, <2>2 DEF HitsSlotType
  <2>4. hits \in [0..(HitSlots - 1) -> HitsSlotType]
      BY <2>3 DEF HitsInit
  <2>5. <<>> \in Seq(0..time)
      OBVIOUS
  <2>6. history \in [Address -> Seq(0..time)]
      BY <2>5 DEF HitsInit
  <2>7. ousted \subseteq Address /\ recorded \in 0..MaxHits
      BY HitBounds DEF HitsInit
  <2> QED
      BY <2>2, <2>4, <2>6, <2>7 DEF HitsTypeOK, HitsSlotType
<1>5. HitsChainInv /\ MatchInv
    BY <1>3 DEF HitsChainInv, MatchInv
<1>6. \A a \in Address : DOMAIN history[a] = {}
    BY <1>2
<1>7. GoneInv /\ OrderInv
    BY <1>6 DEF GoneInv, OrderInv, Ordered
<1>8. OustedInv
    BY DEF HitsInit, OustedInv
<1> QED
    BY <1>4, <1>5, <1>7, <1>8 DEF HitsInv

LEMMA RecordHitStep ==
    ASSUME HitsInv, NEW a \in Address, RecordHit(a)
    PROVE  HitsInv'
<1>1. PICK i \in 0..(HitProbes - 1) :
        /\ IsPlace(a, i)
        /\ hits' = [hits EXCEPT ![HitSlot(a, i)] = AddHit(Base(hits[HitSlot(a, i)], a), a)]
        /\ history' = [history EXCEPT ![a] = Append(Past(a), time)]
        /\ ousted' = (ousted \ {a})
               \cup (IF hits[HitSlot(a, i)].key \in Address \ {a} /\ time - LastHit(hits[HitSlot(a, i)]) <= HitLife
                     THEN {hits[HitSlot(a, i)].key} ELSE {})
        /\ time' = time
    BY DEF RecordHit
<1> DEFINE s0   == HitSlot(a, i)
           base == Base(hits[s0], a)
<1>2. s0 \in HitsSlot
    BY HitSlotInSegment
<1>3. HitsTypeOK /\ time \in Nat /\ time > HitLife /\ HitsChainInv /\ MatchInv /\ GoneInv /\ OrderInv /\ OustedInv
    BY HitsTypes DEF HitsInv
<1>4. i \in HitsProbed(a) /\ \A j \in 0..(i - 1) : HitSlot(a, j) # s0
    BY <1>1, <1>3, PlaceIsNew
\* no slot but s0 is that of a, nor that of the address it takes the slot from
<1>5. \A s \in HitsSlot : hits[s].key = a => s = s0
  <2> SUFFICES ASSUME NEW s \in HitsSlot, hits[s].key = a PROVE s = s0
      OBVIOUS
  <2>1. Located(a) # {}
      BY <1>3, HitBounds DEF HitsChainInv
  <2>2. i \in Located(a)
      BY <1>1, <2>1 DEF IsPlace
  <2> QED
      BY <1>3, <2>2, SlotOfLocated
<1>6. \A s \in HitsSlot : hits[s].key = hits[s0].key /\ hits[s].key # NoAddress => s = s0
  <2> SUFFICES ASSUME NEW s \in HitsSlot, hits[s].key = hits[s0].key, hits[s].key # NoAddress PROVE s = s0
      OBVIOUS
  <2>1. PICK m \in Address : m = hits[s].key
      BY <1>3, HitsTypes
  <2>2. PICK j \in Located(m) : s = HitSlot(m, j)
      BY <1>3, <2>1 DEF HitsChainInv
  <2> QED
      BY <1>2, <1>3, <2>1, <2>2, SlotOfLocated
\* the ring and the history to which the hit is added
<1>7. Past(a) \in Seq(0..time) /\ Ordered(Past(a))
  <2>1. CASE a \in ousted
      BY <2>1 DEF Past, Ordered
  <2>2. CASE a \notin ousted
      BY <1>3, <2>2, HitsTypes DEF Past, OrderInv
  <2> QED
      BY <2>1, <2>2
<1>8. base \in HitsSlotType /\ Matches(base, Past(a))
  <2>1. CASE hits[s0].key = a
    <3>1. a \notin ousted
        BY <1>2, <1>3, <2>1 DEF OustedInv
    <3>2. base = hits[s0] /\ Past(a) = history[a]
        BY <2>1, <3>1 DEF Base, Past
    <3> QED
        BY <1>2, <1>3, <2>1, <3>2, HitsTypes, HitBounds DEF MatchInv
  <2>2. CASE hits[s0].key # a
    <3>1. \A n \in DOMAIN Past(a) : TooOld(Past(a)[n])
        BY <1>3, <1>5, <2>2 DEF GoneInv, Past
    <3>2. base = [key |-> a, head |-> 0, count |-> 0, ring |-> EmptyRing]
        BY <2>2 DEF Base
    <3>3. EmptyRing \in [0..(RingSize - 1) -> 0..time]
        BY <1>3, HitBounds DEF EmptyRing
    <3>4. Len(Past(a)) \in Nat /\ DOMAIN Past(a) = 1..Len(Past(a))
        BY <1>7
    <3>5. base \in HitsSlotType
        BY <3>2, <3>3, HitBounds DEF HitsSlotType
    <3> QED
        BY <3>1, <3>2, <3>4, <3>5, HitBounds DEF Matches
  <2> QED
      BY <2>1, <2>2
<1>9. AddHit(base, a) \in HitsSlotType /\ Matches(AddHit(base, a), Append(Past(a), time)) /\ AddHit(base, a).key = a
    BY <1>3, <1>7, <1>8, AddHitMatches DEF AddHit
<1>10. /\ hits'[s0] = AddHit(base, a)
       /\ \A s \in HitsSlot : s # s0 => hits'[s] = hits[s]
    BY <1>1, <1>2, <1>3 DEF HitsTypeOK, HitsSlot
<1>11. /\ history'[a] = Append(Past(a), time)
       /\ \A m \in Address : m # a => history'[m] = history[m]
    BY <1>1, <1>3 DEF HitsTypeOK
<1> HIDE DEF s0, base
<1>12. HitsTypeOK'
  <2>1. hits' \in [HitsSlot -> HitsSlotType]
      BY <1>1, <1>2, <1>3, <1>9 DEF HitsTypeOK, HitsSlot, HitsSlotType, s0, base
  <2>2. history' \in [Address -> Seq(0..time)]
      BY <1>1, <1>3, <1>7, AppendFacts DEF HitsTypeOK
  <2>3. ousted' \subseteq Address
      BY <1>1, <1>3 DEF HitsTypeOK
  <2>4. recorded' \in 0..MaxHits
      BY <1>3, HitBounds DEF HitsTypeOK, RecordHit
  <2> QED
      BY <1>1, <1>3, <2>1, <2>2, <2>3, <2>4 DEF HitsTypeOK, HitsSlot, HitsSlotType
<1>13. HitsChainInv'
  <2> SUFFICES ASSUME NEW s \in HitsSlot, NEW m, m = hits'[s].key, m # NoAddress
               PROVE  \E j \in Located(m)' : s = HitSlot(m, j)
      BY DEF HitsChainInv, HitSlot
  <2>1. CASE s = s0
    <3>1. m = a
        BY <1>9, <1>10, <2>1
    <3>2. \A j \in 0..(i - 1) : hits'[HitSlot(a, j)].key \notin {a, NoAddress}
      <4> SUFFICES ASSUME NEW j \in 0..(i - 1) PROVE hits'[HitSlot(a, j)] = hits[HitSlot(a, j)]
          BY <1>4 DEF HitsProbed
      <4>1. HitSlot(a, j) \in HitsSlot
          BY HitSlotInSegment
      <4> QED
          BY <1>4, <1>10, <4>1
    <3>3. i \in Located(a)'
        BY <1>9, <1>10, <3>2 DEF Located, HitsProbed, HitSlot, s0
    <3> QED
        BY <2>1, <3>1, <3>3 DEF s0
  <2>2. CASE s # s0
    <3>1. hits[s].key = m
        BY <1>10, <2>2
    <3>2. PICK j \in Located(m) : s = HitSlot(m, j)
        BY <1>3, <3>1 DEF HitsChainInv
    <3>3. m \in Address /\ m # a
        BY <1>3, <1>5, <2>2, <3>1, HitsTypes
    <3>4. \A l \in 0..(j - 1) : hits'[HitSlot(m, l)].key \notin {m, NoAddress}
      <4> SUFFICES ASSUME NEW l \in 0..(j - 1) PROVE hits'[HitSlot(m, l)].key \notin {m, NoAddress}
          OBVIOUS
      <4>1. hits[HitSlot(m, l)].key \notin {m, NoAddress}
          BY <3>2 DEF Located, HitsProbed
      <4>2. HitSlot(m, l) \in HitsSlot
          BY <3>3, HitSlotInSegment, <3>2 DEF Located, HitsProbed
      <4> QED
          BY <1>9, <1>10, <3>3, <4>1, <4>2, HitBounds, SMTT(30)
    <3>5. j \in Located(m)'
        BY <1>10, <2>2, <3>1, <3>2, <3>4 DEF Located, HitsProbed, HitSlot
    <3> QED
        BY <3>2, <3>5
  <2> QED
      BY <2>1, <2>2
<1>14. MatchInv'
  <2> SUFFICES ASSUME NEW s \in HitsSlot, hits'[s].key # NoAddress
               PROVE  Matches(hits'[s], history'[hits'[s].key])
      BY <1>1 DEF MatchInv, Matches, Place, TooOld
  <2>1. CASE s = s0
      BY <1>9, <1>10, <1>11, <2>1
  <2>2. CASE s # s0
    <3>1. hits'[s] = hits[s] /\ hits[s].key \in Address /\ hits[s].key # a
        BY <1>3, <1>5, <1>10, <2>2, HitsTypes
    <3> QED
        BY <1>3, <1>11, <3>1, HitBounds DEF MatchInv
  <2> QED
      BY <2>1, <2>2
<1>15. GoneInv'
  <2> SUFFICES ASSUME NEW m \in Address, m \notin ousted', \A s \in HitsSlot : hits'[s].key # m
               PROVE  \A n \in DOMAIN history'[m] : TooOld(history'[m][n])
      BY <1>1 DEF GoneInv, TooOld
  <2>1. m # a
      BY <1>2, <1>9, <1>10
  <2>2. m \notin ousted /\ history'[m] = history[m]
      BY <1>1, <1>11, <2>1
  <2>3. CASE \A s \in HitsSlot : hits[s].key # m
      BY <1>3, <2>2, <2>3 DEF GoneInv
  <2>4. CASE \E s \in HitsSlot : hits[s].key = m
    <3>1. hits[s0].key = m
        BY <1>10, <2>4
    <3>2. ~(time - LastHit(hits[s0]) <= HitLife)
        BY <1>1, <2>1, <3>1 DEF s0
    <3>3. /\ hits[s0] \in HitsSlotType /\ Matches(hits[s0], history[m])
          /\ history[m] \in Seq(0..time) /\ Ordered(history[m])
        BY <1>2, <1>3, <3>1, HitsTypes, HitBounds DEF MatchInv, OrderInv
    <3>4. /\ LastHit(hits[s0]) \in 0..time
          /\ hits[s0].count > 0 => \A n \in 1..Len(history[m]) : history[m][n] <= LastHit(hits[s0])
        BY <1>3, <3>3, LastHitFacts
    <3> SUFFICES ASSUME NEW n \in DOMAIN history[m] PROVE TooOld(history[m][n])
        BY <2>2
    <3>5. n \in 1..Len(history[m]) /\ history[m][n] \in 0..time /\ Len(history[m]) \in Nat
        BY <1>3, <3>3, AppendFacts
    <3>6. hits[s0].count \in 0..RingSize
        BY <3>3 DEF HitsSlotType
    <3>7. CASE hits[s0].count = 0
        BY <3>3, <3>5, <3>7, HitBounds DEF Matches
    <3>8. CASE hits[s0].count > 0
      <4>1. history[m][n] <= LastHit(hits[s0])
          BY <3>4, <3>5, <3>8
      <4> QED
          BY <1>3, <3>2, <3>4, <3>5, <4>1, HitBounds DEF TooOld
    <3> QED
        BY <3>6, <3>7, <3>8, HitBounds
  <2> QED
      BY <2>3, <2>4
<1>16. OrderInv'
  <2> SUFFICES ASSUME NEW m \in Address PROVE Ordered(history'[m])
      BY DEF OrderInv, Ordered
  <2>1. CASE m = a
    <3>1. PICK h \in Seq(0..time) : h = Past(a)
        BY <1>7
    <3>2. /\ DOMAIN Append(h, time) = 1..(Len(h) + 1) /\ DOMAIN h = 1..Len(h) /\ Len(h) \in Nat
          /\ Append(h, time)[Len(h) + 1] = time
          /\ \A n \in 1..Len(h) : Append(h, time)[n] = h[n] /\ h[n] \in 0..time
        BY <1>3, AppendFacts
    <3>3. \A n \in 1..Len(h) : \A l \in 1..n : h[l] <= h[n]
        BY <1>7, <3>1, <3>2 DEF Ordered
    <3> SUFFICES ASSUME NEW n \in 1..(Len(h) + 1), NEW l \in 1..n
                 PROVE  Append(h, time)[l] <= Append(h, time)[n]
        BY <1>11, <2>1, <3>1, <3>2 DEF Ordered
    <3>4. CASE n = Len(h) + 1
        BY <1>3, <3>2, <3>4
    <3>5. CASE n \in 1..Len(h)
        BY <3>2, <3>3, <3>5
    <3> QED
        BY <3>2, <3>4, <3>5
  <2>2. CASE m # a
      BY <1>3, <1>11, <2>2 DEF OrderInv
  <2> QED
      BY <2>1, <2>2
<1>17. OustedInv'
  <2> SUFFICES ASSUME NEW m \in ousted', NEW s \in HitsSlot, hits'[s].key = m PROVE FALSE
      BY DEF OustedInv
  <2>1. m # a /\ m \in Address
      BY <1>1, <1>3 DEF HitsTypeOK
  <2>2. s # s0 /\ hits[s].key = m
      BY <1>9, <1>10, <2>1
  <2>3. m \notin ousted
      BY <1>3, <2>2 DEF OustedInv
  <2>4. hits[s0].key = m
      BY <1>1, <2>3 DEF s0
  <2> QED
      BY <1>6, <2>1, <2>2, <2>4, HitBounds
<1> QED
    BY <1>1, <1>3, <1>12, <1>13, <1>14, <1>15, <1>16, <1>17 DEF HitsInv

LEMMA ResetHitsStep ==
    ASSUME HitsInv, NEW addresses \in SUBSET Address, ResetHits(addresses)
    PROVE  HitsInv'
<1>1. HitsTypeOK /\ time \in Nat /\ time > HitLife /\ HitsChainInv /\ MatchInv /\ GoneInv /\ OrderInv /\ OustedInv
    BY HitsTypes DEF HitsInv
<1>2. time' = time /\ recorded' = recorded /\ ousted' = ousted \ addresses
    BY DEF ResetHits
<1>3. \A s \in HitsSlot :
          /\ hits'[s].key = hits[s].key
          /\ hits[s].key \notin addresses => hits'[s] = hits[s]
          /\ hits[s].key \in addresses => hits'[s].count = 0 /\ hits'[s].head = 0
  <2> SUFFICES ASSUME NEW s \in HitsSlot
               PROVE  /\ hits'[s].key = hits[s].key
                      /\ hits[s].key \notin addresses => hits'[s] = hits[s]
                      /\ hits[s].key \in addresses => hits'[s].count = 0 /\ hits'[s].head = 0
      OBVIOUS
  <2>1. s \in DOMAIN hits /\ hits[s] \in HitsSlotType
      BY <1>1, HitsTypes DEF HitsTypeOK, HitsSlot
  <2>2. hits'[s] = IF hits[s].key \in addresses THEN [hits[s] EXCEPT !.head = 0, !.count = 0] ELSE hits[s]
      BY <2>1 DEF ResetHits
  <2> QED
      BY <2>1, <2>2 DEF HitsSlotType
<1>4. \A m \in Address : history'[m] = IF m \in addresses THEN <<>> ELSE history[m]
    BY DEF ResetHits
<1>5. HitsTypeOK'
  <2>1. \A s \in HitsSlot : [hits[s] EXCEPT !.head = 0, !.count = 0] \in HitsSlotType
    <3> SUFFICES ASSUME NEW slot \in HitsSlotType PROVE [slot EXCEPT !.head = 0, !.count = 0] \in HitsSlotType
        BY <1>1, HitsTypes
    <3>2. 0 \in 0..(RingSize - 1) /\ 0 \in 0..RingSize
        BY HitBounds
    <3> QED
        BY <3>2 DEF HitsSlotType
  <2>2. hits' \in [HitsSlot -> HitsSlotType]
    <3>1. DOMAIN hits = HitsSlot /\ \A s \in HitsSlot : hits[s] \in HitsSlotType
        BY <1>1, HitsTypes DEF HitsTypeOK, HitsSlot
    <3> QED
        BY <2>1, <3>1 DEF ResetHits
  <2>3. history' \in [Address -> Seq(0..time)]
    <3>1. <<>> \in Seq(0..time)
        OBVIOUS
    <3> QED
        BY <1>1, <3>1, HitsTypes DEF ResetHits
  <2> QED
      BY <1>1, <1>2, <2>2, <2>3 DEF HitsTypeOK, HitsSlot, HitsSlotType
<1>6. HitsChainInv'
  <2>1. \A m \in Address : Located(m)' = Located(m)
    <3> SUFFICES ASSUME NEW m \in Address PROVE Located(m)' = Located(m)
        OBVIOUS
    <3>1. \A i \in 0..(HitProbes - 1) : hits'[HitSlot(m, i)].key = hits[HitSlot(m, i)].key
        BY <1>3, HitSlotInSegment
    <3> QED
        BY <3>1, HitBounds DEF Located, HitsProbed, HitSlot
  <2> QED
      BY <1>1, <1>3, <2>1, HitsTypes DEF HitsChainInv, HitSlot
<1>7. MatchInv'
  <2> SUFFICES ASSUME NEW s \in HitsSlot, hits[s].key # NoAddress
               PROVE  Matches(hits'[s], history'[hits[s].key])
      BY <1>2, <1>3 DEF MatchInv, Matches, Place, TooOld
  <2>1. hits[s].key \in Address
      BY <1>1, HitsTypes
  <2>2. CASE hits[s].key \in addresses
    <3>1. history'[hits[s].key] = <<>> /\ hits'[s].count = 0 /\ hits'[s].head = 0
        BY <1>3, <1>4, <2>1, <2>2
    <3> QED
        BY <3>1, HitBounds DEF Matches
  <2>3. CASE hits[s].key \notin addresses
      BY <1>1, <1>3, <1>4, <2>1, <2>3 DEF MatchInv
  <2> QED
      BY <2>2, <2>3
<1>8. GoneInv'
    BY <1>1, <1>2, <1>3, <1>4 DEF GoneInv, TooOld
<1>9. OrderInv'
    BY <1>1, <1>4 DEF OrderInv, Ordered
<1>10. OustedInv'
    BY <1>1, <1>2, <1>3 DEF OustedInv
<1> QED
    BY <1>1, <1>2, <1>5, <1>6, <1>7, <1>8, <1>9, <1>10 DEF HitsInv

LEMMA HitsTickStep == HitsInv /\ HitsTick => HitsInv'
<1> SUFFICES ASSUME HitsInv, HitsTick PROVE HitsInv'
    OBVIOUS
<1>1. HitsTypeOK /\ time \in Nat /\ time > HitLife /\ HitsChainInv /\ MatchInv /\ GoneInv /\ OrderInv /\ OustedInv
    BY HitsTypes DEF HitsInv
<1>2. time' = time + 1 /\ hits' = hits /\ history' = history /\ ousted' = ousted /\ recorded' = recorded
    BY DEF HitsTick
<1>3. HitsTypeOK'
  <2>1. \A h \in Seq(0..time) : h \in Seq(0..(time + 1))
      BY <1>1
  <2>2. history' \in [Address -> Seq(0..time')]
      BY <1>1, <1>2, <2>1 DEF HitsTypeOK
  <2>3. [0..(RingSize - 1) -> 0..time] \subseteq [0..(RingSize - 1) -> 0..time']
      BY <1>1, <1>2
  <2>4. hits' \in [HitsSlot -> [key : Address \cup {NoAddress}, head : 0..(RingSize - 1), count : 0..RingSize,
                                ring : [0..(RingSize - 1) -> 0..time']]]
      BY <1>1, <1>2, <2>3 DEF HitsTypeOK, HitsSlot
  <2> QED
      BY <1>1, <1>2, <2>2, <2>4 DEF HitsTypeOK, HitsSlot
<1>4. HitsChainInv'
    BY <1>1, <1>2 DEF HitsChainInv, Located, HitsProbed, HitSlot
<1>5. \A t \in 0..time : TooOld(t) => TooOld(t)'
    BY <1>1, <1>2, HitBounds DEF TooOld
<1>6. MatchInv'
  <2> SUFFICES ASSUME NEW s \in HitsSlot, hits[s].key # NoAddress
               PROVE  Matches(hits[s], history[hits[s].key])'
      BY <1>2 DEF MatchInv
  <2>1. PICK h \in Seq(0..time) : h = history[hits[s].key]
      BY <1>1, HitsTypes
  <2>2. Matches(hits[s], h) /\ hits[s] \in HitsSlotType
      BY <1>1, <2>1, HitsTypes DEF MatchInv
  <2>3. hits[s].count \in 0..RingSize /\ Len(h) \in Nat /\ \A n \in 1..Len(h) : h[n] \in 0..time
      BY <1>1, <2>2, AppendFacts DEF HitsSlotType
  <2>4. \A n \in 1..(Len(h) - hits[s].count) : n \in 1..Len(h)
      BY <2>3
  <2> QED
      BY <1>2, <1>5, <2>1, <2>2, <2>3, <2>4 DEF Matches, Place
<1>7. GoneInv'
  <2>1. \A m \in Address : \A n \in DOMAIN history[m] : history[m][n] \in 0..time
      BY <1>1, HitsTypes
  <2> QED
      BY <1>1, <1>2, <1>5, <2>1 DEF GoneInv
<1>8. OrderInv' /\ OustedInv'
    BY <1>1, <1>2 DEF OrderInv, OustedInv
<1> QED
    BY <1>1, <1>2, <1>3, <1>4, <1>6, <1>7, <1>8, HitBounds DEF HitsInv

-----------------------------------------------------------------------------
LEMMA HitsAlways == HitsSpec => []HitsInv
<1>1. HitsInv /\ [HitsNext]_hitsVars => HitsInv'
  <2> SUFFICES ASSUME HitsInv, [HitsNext]_hitsVars PROVE HitsInv'
      OBVIOUS
  <2>1. CASE UNCHANGED hitsVars
      BY <2>1 DEF hitsVars, HitsInv, HitsTypeOK, HitsChainInv, MatchInv, GoneInv, OrderInv, OustedInv, Located,
                  HitsProbed, HitSlot, Matches, TooOld
  <2>2. CASE ResetHits(Address)
      BY <2>2, ResetHitsStep
  <2>3. ASSUME NEW a \in Address, ResetHits({a}) PROVE HitsInv'
      BY <2>3, ResetHitsStep
  <2> QED
      BY <2>1, <2>2, <2>3, RecordHitStep, HitsTickStep DEF HitsNext
<1> QED
    BY <1>1, HitsStart, PTL DEF HitsSpec

\* The variables of the shared hits keep their types: no position and no count leaves the ring.
THEOREM HitsTypeCorrect == HitsSpec => []HitsTypeOK
<1>1. HitsInv => HitsTypeOK
    BY DEF HitsInv
<1> QED
    BY <1>1, HitsAlways, PTL

\* The hits of a ring that are in a window are as many as those of the history that are among its
\* last ones.
LEMMA RingCount ==
    ASSUME time \in Nat, NEW slot \in HitsSlotType, NEW h \in Seq(0..time), Matches(slot, h), NEW cut \in Int
    PROVE  LET inRing == {p \in 0..(slot.count - 1) : slot.ring[p] >= cut}
               last   == {n \in (Len(h) - slot.count + 1)..Len(h) : h[n] >= cut} IN
           IsFiniteSet(inRing) /\ Cardinality(inRing) = Cardinality(last)
<1> DEFINE inRing == {p \in 0..(slot.count - 1) : slot.ring[p] >= cut}
           last   == {n \in (Len(h) - slot.count + 1)..Len(h) : h[n] >= cut}
           f      == [n \in last |-> Place(slot.head, Len(h) + 1 - n)]
<1>1. /\ slot.head \in 0..(RingSize - 1) /\ slot.count \in 0..RingSize /\ Len(h) \in Nat
      /\ slot.count <= Len(h) /\ RingSize \in Nat
    BY HitBounds DEF HitsSlotType, Matches
<1>2. /\ \A j \in 1..slot.count : Place(slot.head, j) \in 0..(slot.count - 1)
      /\ \A p \in 0..(slot.count - 1) : \E j \in 1..slot.count : p = Place(slot.head, j)
      /\ \A j, l \in 1..slot.count : Place(slot.head, j) = Place(slot.head, l) => j = l
  <2>1. CASE slot.count = RingSize
      BY <1>1, <2>1, Places, ZenonT(60)
  <2>2. CASE slot.count < RingSize
    <3>1. slot.head = slot.count
        BY <2>2 DEF Matches
    <3>2. \A j \in 1..slot.count : j \in 1..RingSize
        BY <1>1
    <3> QED
        BY <1>1, <3>1, <3>2, Places
  <2> QED
      BY <1>1, <2>1, <2>2
<1>3. \A j \in 1..slot.count : slot.ring[Place(slot.head, j)] = h[Len(h) + 1 - j]
    BY DEF Matches
<1>4. \A n \in (Len(h) - slot.count + 1)..Len(h) :
          Len(h) + 1 - n \in 1..slot.count /\ Len(h) + 1 - (Len(h) + 1 - n) = n
    BY <1>1
<1>5. \A j \in 1..slot.count : /\ Len(h) + 1 - j \in (Len(h) - slot.count + 1)..Len(h)
                              /\ Len(h) + 1 - (Len(h) + 1 - j) = j
    BY <1>1
<1>6. \A n \in last : f[n] \in inRing
    BY <1>2, <1>3, <1>4
<1>7. \A n, m \in last : f[n] = f[m] => n = m
  <2> SUFFICES ASSUME NEW n \in last, NEW m \in last, f[n] = f[m] PROVE n = m
      OBVIOUS
  <2>1. Len(h) + 1 - n = Len(h) + 1 - m
      BY <1>2, <1>4
  <2> QED
      BY <1>4, <2>1
<1>8. \A p \in inRing : \E n \in last : f[n] = p
  <2> SUFFICES ASSUME NEW p \in inRing PROVE \E n \in last : f[n] = p
      OBVIOUS
  <2>1. PICK j \in 1..slot.count : p = Place(slot.head, j)
      BY <1>2
  <2>2. Len(h) + 1 - j \in last
      BY <1>3, <1>5, <2>1
  <2>3. f[Len(h) + 1 - j] = p
      BY <1>5, <2>1, <2>2
  <2> QED
      BY <2>2, <2>3
<1>9. f \in Bijection(last, inRing)
  <2>1. f \in [last -> inRing]
      BY <1>6
  <2> HIDE DEF f, last, inRing
  <2> QED
      BY <1>7, <1>8, <2>1 DEF Bijection, Injection, IsInjective, Surjection
<1>10. IsFiniteSet(last)
  <2>1. IsFiniteSet((Len(h) - slot.count + 1)..Len(h))
    <3>1. Len(h) - slot.count + 1 \in Int /\ Len(h) \in Int
        BY <1>1
    <3> QED
        BY <3>1, FS_Interval
  <2> QED
      BY <2>1, FS_Subset
<1> HIDE DEF f, last, inRing
<1>11. IsFiniteSet(inRing) /\ Cardinality(inRing) = Cardinality(last)
    BY <1>9, <1>10, FS_Bijection DEF ExistsBijection
<1> QED
    BY <1>11 DEF last, inRing

\* A threshold that a ring can hold is reached in the ring when it is in the history.
LEMMA RingThreshold ==
    ASSUME time \in Nat, time > HitLife, NEW slot \in HitsSlotType, NEW h \in Seq(0..time),
           Matches(slot, h), Ordered(h), NEW threshold \in 1..RingSize
    PROVE  Cardinality({p \in 0..(slot.count - 1) : slot.ring[p] >= time - HitWindow}) >= threshold
           <=> Cardinality({n \in DOMAIN h : h[n] >= time - HitWindow}) >= threshold
<1> DEFINE cut    == time - HitWindow
           inRing == {p \in 0..(slot.count - 1) : slot.ring[p] >= cut}
           first  == Len(h) - slot.count + 1
           last   == {n \in first..Len(h) : h[n] >= cut}
           all    == {n \in DOMAIN h : h[n] >= cut}
<1>1. /\ slot.count \in 0..RingSize /\ Len(h) \in Nat /\ DOMAIN h = 1..Len(h)
      /\ slot.count <= Len(h) /\ RingSize \in Nat \ {0} /\ cut \in Int
      /\ \A n \in 1..Len(h) : h[n] \in 0..time
    BY HitBounds, AppendFacts DEF HitsSlotType, Matches
<1>2. Cardinality(inRing) = Cardinality(last)
    BY <1>1, RingCount
<1>3. last \subseteq all
    BY <1>1
<1>4. IsFiniteSet(all) /\ IsFiniteSet(last)
  <2>1. IsFiniteSet(1..Len(h))
      BY <1>1, FS_Interval
  <2>2. all \subseteq 1..Len(h)
      BY <1>1
  <2> HIDE DEF all, last
  <2> QED
      BY <1>3, <2>1, <2>2, FS_Subset
<1>5. CASE last = all
    BY <1>2, <1>5
<1>6. CASE last # all
  <2>1. PICK n \in all : n \notin last
      BY <1>3, <1>6
  <2>2. n \in 1..Len(h) /\ n < first /\ h[n] >= cut
      BY <1>1, <2>1
  \* a hit of the window is not in the ring any more: the ring is full of later ones
  <2>3. slot.count = RingSize
    <3> SUFFICES ASSUME slot.count < RingSize PROVE FALSE
        BY <1>1
    <3>1. n \in 1..(Len(h) - slot.count)
        BY <1>1, <2>2
    <3>2. TooOld(h[n])
        BY <3>1 DEF Matches
    <3> QED
        BY <1>1, <2>2, <3>2, HitBounds DEF TooOld
  <2>4. \A m \in first..Len(h) : h[m] >= cut
    <3> SUFFICES ASSUME NEW m \in first..Len(h) PROVE h[m] >= cut
        OBVIOUS
    <3>1. m \in 1..Len(h) /\ n \in 1..m
        BY <1>1, <2>2
    <3>2. h[n] <= h[m]
        BY <1>1, <3>1 DEF Ordered
    <3> QED
        BY <1>1, <2>2, <3>1, <3>2
  <2>5. last = first..Len(h)
      BY <2>4
  <2>6. Cardinality(last) = RingSize
    <3>1. first \in Int /\ Len(h) \in Int /\ ~(first > Len(h)) /\ Len(h) - first + 1 = RingSize
        BY <1>1, <2>3
    <3> HIDE DEF first, last
    <3> QED
        BY <2>5, <3>1, FS_Interval
  <2>7. Cardinality(all) >= RingSize /\ Cardinality(all) \in Nat
    <3> HIDE DEF all, last
    <3>1. Cardinality(last) <= Cardinality(all)
        BY <1>3, <1>4, FS_Subset
    <3>2. Cardinality(all) \in Nat
        BY <1>4, FS_CardinalityType
    <3> QED
        BY <1>1, <2>6, <3>1, <3>2
  <2> HIDE DEF all, last, inRing
  <2>8. Cardinality(inRing) >= threshold /\ Cardinality(all) >= threshold
      BY <1>1, <1>2, <2>6, <2>7
  <2> QED
      BY <2>8 DEF all, inRing
<1> QED
    BY <1>5, <1>6

\* No threshold of hits is crossed sooner or later because the workers and the addresses share the
\* table, except by an address whose slot was taken while it was in use.
LEMMA HitsAreExact == HitsInv => SharedHitsAreExact
<1> SUFFICES ASSUME HitsInv, NEW a \in Address, a \notin ousted, NEW threshold \in 1..RingSize
             PROVE  Counted(a) >= threshold <=> HitsInWindow(a) >= threshold
    BY DEF SharedHitsAreExact
<1>1. HitsTypeOK /\ time \in Nat /\ time > HitLife /\ HitsChainInv /\ MatchInv /\ GoneInv /\ OrderInv
    BY HitsTypes DEF HitsInv
<1>2. history[a] \in Seq(0..time) /\ Ordered(history[a])
    BY <1>1, HitsTypes DEF OrderInv
<1>3. CASE Located(a) = {}
  <2>1. \A s \in HitsSlot : hits[s].key # a
      BY <1>1, <1>3, HitBounds DEF HitsChainInv
  <2>2. \A n \in DOMAIN history[a] : TooOld(history[a][n])
      BY <1>1, <2>1 DEF GoneInv
  <2>3. {n \in DOMAIN history[a] : history[a][n] >= time - HitWindow} = {}
    <3> SUFFICES ASSUME NEW n \in DOMAIN history[a], history[a][n] >= time - HitWindow PROVE FALSE
        OBVIOUS
    <3>1. history[a][n] \in 0..time
        BY <1>1, <1>2, AppendFacts
    <3> QED
        BY <1>1, <2>2, <3>1, HitBounds DEF TooOld
  <2>4. HitsInWindow(a) = 0
      BY <2>3, FS_EmptySet DEF HitsInWindow
  <2> QED
      BY <1>3, <2>4 DEF Counted
<1>4. CASE Located(a) # {}
  <2>1. PICK i \in Located(a) : i = CHOOSE j \in Located(a) : TRUE
      BY <1>4
  <2>2. HitSlot(a, i) \in HitsSlot /\ hits[HitSlot(a, i)].key = a
      BY <2>1, HitSlotInSegment DEF Located, HitsProbed
  <2>3. PICK slot \in HitsSlotType : slot = hits[HitSlot(a, i)]
      BY <1>1, <2>2, HitsTypes
  <2>4. Matches(slot, history[a])
      BY <1>1, <2>2, <2>3, HitBounds DEF MatchInv
  <2>5. Counted(a) = Cardinality({p \in 0..(slot.count - 1) : slot.ring[p] >= time - HitWindow})
      BY <1>4, <2>1, <2>3 DEF Counted
  <2> QED
      BY <1>1, <1>2, <2>4, <2>5, RingThreshold DEF HitsInWindow
<1> QED
    BY <1>3, <1>4

-----------------------------------------------------------------------------
\* Sharing the table between the workers, the keys and the addresses changes no rate and no count of
\* hits, except for a key or an address whose slot was taken while it was in use.
THEOREM CountersAreExact == RatesSpec /\ HitsSpec => []SharedCountersAreExact
<1>1. SharedRateIsExact /\ HitsInv => SharedCountersAreExact
    BY HitsAreExact DEF SharedCountersAreExact
<1> QED
    BY <1>1, SharingIsExact, HitsAlways, PTL

-----------------------------------------------------------------------------
(* RiposteHistory: the numbers of the policies and of the memory.           *)

LEMMA HistoryConstants ==
    /\ Gap \in Nat /\ Within \in Nat /\ Recidive \in Nat /\ Retention \in Nat /\ Lateness \in Nat /\ MaxActs \in Nat
    /\ LureTime \in Nat \ {0} /\ LastMoment \in Nat \ {0} /\ MaxEpisodes \in Nat \ {0} /\ MaxPast \in Nat \ {0}
    /\ BanTimes \in Seq(Nat \ {0}) /\ Len(BanTimes) \in Nat \ {0}
    /\ Retention >= Recidive + 2 * Lateness /\ Retention >= Within + Lateness /\ Retention >= Gap + Lateness
BY HistoryAssumption

LEMMA HistoryNumbers ==
    /\ Gap \in Nat /\ Within \in Nat /\ Recidive \in Nat /\ Retention \in Nat /\ Lateness \in Nat /\ MaxActs \in Nat
    /\ LastMoment \in Nat \ {0} /\ MaxEpisodes \in Nat \ {0} /\ MaxPast \in Nat \ {0}
    /\ Retention >= Recidive + 2 * Lateness /\ Retention >= Within + Lateness /\ Retention >= Gap + Lateness
BY HistoryConstants

-----------------------------------------------------------------------------
(* Lists.                                                                   *)

\* The ranks of the members of a finite set of numbers are the numbers up to its cardinality, in their order.
LEMMA RankFacts ==
    ASSUME NEW n \in Nat, NEW keep \in SUBSET (1..n)
    PROVE  /\ IsFiniteSet(keep) /\ Cardinality(keep) \in 0..n
           /\ \A i \in keep : Rank(keep, i) \in 1..Cardinality(keep)
           /\ \A i, j \in keep : i < j => Rank(keep, i) < Rank(keep, j)
           /\ \A r \in 1..Cardinality(keep) : \E i \in keep : Rank(keep, i) = r
<1>1. IsFiniteSet(keep) /\ Cardinality(keep) \in 0..n
  <2>1. IsFiniteSet(1..n) /\ Cardinality(1..n) = n
    BY FS_Interval
  <2>2. IsFiniteSet(keep) /\ Cardinality(keep) <= n
    BY <2>1, FS_Subset
  <2>3. Cardinality(keep) \in Nat
    BY <2>2, FS_CardinalityType
  <2> QED BY <2>2, <2>3
<1>0. \A i \in keep : i \in 1..n /\ i \in Nat
    OBVIOUS
<1> DEFINE below(i) == {k \in keep : k <= i}
<1>2. \A i \in keep : IsFiniteSet(below(i)) /\ Cardinality(below(i)) \in Nat /\ Rank(keep, i) = Cardinality(below(i))
    BY <1>1, FS_Subset, FS_CardinalityType DEF Rank
<1>3. \A i \in keep : Rank(keep, i) \in 1..Cardinality(keep)
  <2> SUFFICES ASSUME NEW i \in keep PROVE Rank(keep, i) \in 1..Cardinality(keep)
    OBVIOUS
  <2>0. i \in Nat /\ i <= i
    BY <1>0
  <2>1. i \in below(i) /\ below(i) \in SUBSET keep
    BY <2>0
  <2> HIDE DEF below
  <2>2. Cardinality(below(i)) # 0 /\ Cardinality(below(i)) <= Cardinality(keep)
    BY <1>1, <1>2, <2>1, FS_EmptySet, FS_Subset
  <2> QED BY <1>1, <1>2, <2>2
<1>4. \A i, j \in keep : i < j => Rank(keep, i) < Rank(keep, j)
  <2> SUFFICES ASSUME NEW i \in keep, NEW j \in keep, i < j PROVE Rank(keep, i) < Rank(keep, j)
    OBVIOUS
  <2>0. j <= j /\ ~(j <= i) /\ \A k \in keep : k <= i => k <= j
    BY <1>0
  <2>1. below(i) \in SUBSET below(j) /\ j \in below(j) /\ j \notin below(i)
    BY <2>0
  <2> HIDE DEF below
  <2>2. Cardinality(below(i)) <= Cardinality(below(j)) /\ Cardinality(below(i)) # Cardinality(below(j))
    BY <1>2, <2>1, FS_Subset
  <2> QED BY <1>2, <2>2
<1> DEFINE R == [i \in keep |-> Rank(keep, i)]
<1>5. R \in [keep -> 1..Cardinality(keep)] /\ \A i, j \in keep : R[i] = R[j] => i = j
  <2>1. \A i, j \in keep : Rank(keep, i) = Rank(keep, j) => i = j
    <3> SUFFICES ASSUME NEW i \in keep, NEW j \in keep, Rank(keep, i) = Rank(keep, j) PROVE i = j
      OBVIOUS
    <3>1. Rank(keep, i) \in Nat /\ i \in Nat /\ j \in Nat
      BY <1>1, <1>3
    <3>2. ~(i < j) /\ ~(j < i)
      BY <1>4, <3>1
    <3> QED BY <3>1, <3>2
  <2> QED BY <1>3, <2>1
<1>6. R \in Injection(keep, 1..Cardinality(keep))
    BY <1>5 DEF Injection, IsInjective
<1>7. IsFiniteSet(1..Cardinality(keep)) /\ Cardinality(1..Cardinality(keep)) = Cardinality(keep)
    BY <1>1, FS_Interval
<1>8. R \in Surjection(keep, 1..Cardinality(keep))
    BY <1>6, <1>7, FS_Injection
<1>9. \A r \in 1..Cardinality(keep) : \E i \in keep : Rank(keep, i) = r
    BY <1>8 DEF Surjection
<1> QED BY <1>1, <1>3, <1>4, <1>9

\* The entries selected from a sequence are a sequence, in the same order.
LEMMA SelectedFacts ==
    ASSUME NEW T, NEW s \in Seq(T), NEW keep \in SUBSET (1..Len(s))
    PROVE  /\ Selected(s, keep) \in Seq(T) /\ Len(Selected(s, keep)) = Cardinality(keep)
           /\ Len(Selected(s, keep)) <= Len(s)
           /\ \E f \in [1..Len(Selected(s, keep)) -> keep] :
                /\ \A j, k \in 1..Len(Selected(s, keep)) : j < k => f[j] < f[k]
                /\ \A i \in keep : \E j \in 1..Len(Selected(s, keep)) : f[j] = i
                /\ \A j \in 1..Len(Selected(s, keep)) : Selected(s, keep)[j] = s[f[j]]
<1> DEFINE c == Cardinality(keep)
           f == [j \in 1..c |-> CHOOSE i \in keep : Rank(keep, i) = j]
<1>1. /\ c \in 0..Len(s) /\ Len(s) \in Nat
      /\ \A i \in keep : Rank(keep, i) \in 1..c
      /\ \A i, j \in keep : i < j => Rank(keep, i) < Rank(keep, j)
      /\ \A r \in 1..c : \E i \in keep : Rank(keep, i) = r
  <2>1. Len(s) \in Nat
    OBVIOUS
  <2> QED BY <2>1, RankFacts
<1>2. \A j \in 1..c : f[j] \in keep /\ Rank(keep, f[j]) = j
    BY <1>1
<1>3. Selected(s, keep) = [j \in 1..c |-> s[f[j]]]
    BY DEF Selected
<1> HIDE DEF f, c
<1>0. /\ \A i \in keep : i \in 1..Len(s) /\ i \in Nat
      /\ \A j \in 1..c : f[j] \in 1..Len(s) /\ f[j] \in Nat /\ j \in Nat
  <2>1. Len(s) \in Nat
    BY <1>1
  <2>2. \A i \in keep : i \in 1..Len(s)
    OBVIOUS
  <2>3. \A i \in keep : i \in Nat
    BY <2>1, <2>2
  <2>4. \A j \in 1..c : f[j] \in 1..Len(s) /\ f[j] \in Nat
    BY <1>2, <2>2, <2>3
  <2>5. \A j \in 1..c : j \in Nat
    BY <1>1
  <2> QED BY <2>2, <2>3, <2>4, <2>5
<1>4. \A j \in 1..c : s[f[j]] \in T
    BY <1>0
<1>5. Selected(s, keep) \in Seq(T) /\ Len(Selected(s, keep)) = c
    BY <1>1, <1>3, <1>4
<1>6. \A j, k \in 1..c : j < k => f[j] < f[k]
  <2> SUFFICES ASSUME NEW j \in 1..c, NEW k \in 1..c, j < k PROVE f[j] < f[k]
    OBVIOUS
  <2>1. f[j] \in Nat /\ f[k] \in Nat /\ c \in Nat
    BY <1>0, <1>1
  <2>2. ~(f[k] < f[j]) /\ f[k] # f[j]
    BY <1>1, <1>2, <2>1
  <2> QED BY <2>1, <2>2
<1>7. \A i \in keep : \E j \in 1..c : f[j] = i
  <2> SUFFICES ASSUME NEW i \in keep PROVE f[Rank(keep, i)] = i
    BY <1>1
  <2> DEFINE j == Rank(keep, i)
  <2>1. j \in 1..c /\ f[j] \in keep /\ Rank(keep, f[j]) = j
    BY <1>1, <1>2
  <2>2. ~(f[j] < i) /\ ~(i < f[j]) /\ i \in Nat /\ f[j] \in Nat
    BY <1>0, <1>1, <2>1
  <2> QED BY <2>2
<1>8. f \in [1..c -> keep]
    BY <1>2 DEF f
<1>9. \A j \in 1..c : Selected(s, keep)[j] = s[f[j]]
    BY <1>3
<1>10. Len(Selected(s, keep)) <= Len(s)
    BY <1>1, <1>5
<1>11. /\ Selected(s, keep) \in Seq(T) /\ Len(Selected(s, keep)) = c
       /\ Len(Selected(s, keep)) <= Len(s)
       /\ \E g \in [1..c -> keep] :
            /\ \A j, k \in 1..c : j < k => g[j] < g[k]
            /\ \A i \in keep : \E j \in 1..c : g[j] = i
            /\ \A j \in 1..c : Selected(s, keep)[j] = s[g[j]]
    BY <1>5, <1>6, <1>7, <1>8, <1>9, <1>10
<1>12. c = Len(Selected(s, keep)) /\ c = Cardinality(keep)
    BY <1>5 DEF c
<1> QED BY <1>11, <1>12, SMT

\* Growing maps of the first numbers: the last value is the greatest.
LEMMA LastIsGreatest ==
    ASSUME NEW n \in Nat \ {0}, NEW keep \in SUBSET Nat, NEW f \in [1..n -> keep],
           \A j, k \in 1..n : j < k => f[j] < f[k]
    PROVE  \A j \in 1..n : f[j] <= f[n]
<1> SUFFICES ASSUME NEW j \in 1..n PROVE f[j] <= f[n]
    OBVIOUS
<1>1. n \in 1..n /\ j \in 1..n
    OBVIOUS
<1>2. f[j] \in keep /\ f[n] \in keep
    BY <1>1
<1>3. f[j] \in Nat /\ f[n] \in Nat
    BY <1>2
<1> QED BY <1>1, <1>3

\* Keeping the newest entries of a sequence that is too long by one at most.
LEMMA NewestFacts ==
    ASSUME NEW T, NEW s \in Seq(T), s # << >>, Len(s) <= MaxEpisodes + 1
    PROVE  /\ Newest(s, MaxEpisodes) \in Seq(T) /\ Newest(s, MaxEpisodes) # << >>
           /\ Len(Newest(s, MaxEpisodes)) <= MaxEpisodes
           /\ \E f \in [1..Len(Newest(s, MaxEpisodes)) -> 1..Len(s)] :
                /\ \A j, k \in 1..Len(Newest(s, MaxEpisodes)) : j < k => f[j] < f[k]
                /\ \A j \in 1..Len(Newest(s, MaxEpisodes)) : Newest(s, MaxEpisodes)[j] = s[f[j]]
                /\ f[Len(Newest(s, MaxEpisodes))] = Len(s)
                /\ \A i \in 1..Len(s) : \/ \E j \in 1..Len(Newest(s, MaxEpisodes)) : f[j] = i
                                        \/ /\ Len(Newest(s, MaxEpisodes)) = MaxEpisodes
                                           /\ \A j \in 1..Len(Newest(s, MaxEpisodes)) : i < f[j]
                /\ Len(s) > MaxEpisodes => Len(Newest(s, MaxEpisodes)) = MaxEpisodes
<1> DEFINE n == Len(s)
           m == MaxEpisodes
           low == IF n > m THEN n - m + 1 ELSE 1
           keep == low..n
           new == Newest(s, m)
<1>1. n \in Nat \ {0} /\ m \in Nat \ {0} /\ n <= m + 1
    BY HistoryNumbers
<1>2. {i \in DOMAIN s : i + m > n} = keep
    BY <1>1
<1>3. keep \in SUBSET (1..n) /\ Cardinality(keep) = n - low + 1 /\ n \in keep
  <2>1. low \in Int /\ n \in Int /\ low <= n /\ low >= 1
    BY <1>1
  <2> HIDE DEF low, n
  <2> QED BY <2>1, FS_Interval
<1>4. new = Selected(s, keep)
    BY <1>2 DEF Newest
<1> HIDE DEF keep, new
<1>5. PICK f \in [1..Len(new) -> keep] :
        /\ \A j, k \in 1..Len(new) : j < k => f[j] < f[k]
        /\ \A i \in keep : \E j \in 1..Len(new) : f[j] = i
        /\ \A j \in 1..Len(new) : new[j] = s[f[j]]
    BY <1>3, <1>4, SelectedFacts
<1>6. new \in Seq(T) /\ Len(new) = n - low + 1
    BY <1>3, <1>4, SelectedFacts
<1>7. Len(new) \in Nat \ {0} /\ Len(new) <= m /\ (n > m => Len(new) = m) /\ new # << >>
    BY <1>1, <1>6
<1>8. f[Len(new)] = n
  <2>1. PICK j \in 1..Len(new) : f[j] = n
    BY <1>3, <1>5
  <2>0. keep \in SUBSET Nat
    BY <1>3
  <2>2. f[j] <= f[Len(new)]
    BY <1>5, <1>7, <2>0, LastIsGreatest
  <2>3. f[Len(new)] \in 1..n
    <3>1. Len(new) \in 1..Len(new)
      BY <1>7
    <3>2. f[Len(new)] \in keep
      BY <3>1
    <3> QED BY <1>3, <3>2
  <2> QED BY <1>1, <2>1, <2>2, <2>3
<1>9. ASSUME NEW i \in 1..n
      PROVE  (\E j \in 1..Len(new) : f[j] = i) \/ (Len(new) = m /\ \A j \in 1..Len(new) : i < f[j])
  <2>1. CASE i \in keep
    BY <1>5, <2>1
  <2>2. CASE i \notin keep
    <3>1. n > m /\ i < low
      BY <1>1, <2>2 DEF keep
    <3>2. \A j \in 1..Len(new) : f[j] >= low /\ f[j] \in Nat
      <4> SUFFICES ASSUME NEW j \in 1..Len(new) PROVE f[j] >= low /\ f[j] \in Nat
        OBVIOUS
      <4>1. f[j] \in low..n /\ low \in Nat /\ n \in Nat
        BY <1>1 DEF keep
      <4> HIDE DEF low, n
      <4> QED BY <4>1
    <3> QED BY <1>1, <1>7, <3>1, <3>2
  <2> QED BY <2>1, <2>2
<1>10. f \in [1..Len(new) -> 1..n]
    BY <1>3, <1>5
<1> QED BY <1>5, <1>6, <1>7, <1>8, <1>9, <1>10 DEF new

\* Keeping the newest of the actions with one more.
LEMMA PastWithFacts ==
    ASSUME NEW n \in Nat, NEW kept, DOMAIN kept \in SUBSET (1..n), Cardinality(DOMAIN kept) <= MaxPast, NEW act
    PROVE  LET after == PastWith(kept, n + 1, act) IN
           /\ DOMAIN after \subseteq DOMAIN kept \cup {n + 1} /\ n + 1 \in DOMAIN after /\ after[n + 1] = act
           /\ \A i \in DOMAIN after \ {n + 1} : after[i] = kept[i]
           /\ IsFiniteSet(DOMAIN after) /\ Cardinality(DOMAIN after) <= MaxPast
           /\ Cardinality(DOMAIN kept) = MaxPast => Cardinality(DOMAIN after) = MaxPast
           /\ \A i \in DOMAIN kept \ DOMAIN after :
                Cardinality(DOMAIN after) = MaxPast /\ \A k \in DOMAIN after : i < k
<1> DEFINE id == n + 1
           D == DOMAIN kept
           c == Cardinality(D)
           all == D \cup {id}
           newer(i) == {j \in all : j > i}
           left == {i \in all : Cardinality(newer(i)) < MaxPast}
           after == PastWith(kept, id, act)
<1>1. IsFiniteSet(D) /\ c \in Nat /\ c <= MaxPast /\ id \notin D /\ MaxPast \in Nat \ {0} /\ id \in Nat
  <2>1. IsFiniteSet(D) /\ c \in 0..n
    BY RankFacts
  <2> QED BY <2>1, HistoryNumbers
<1>2. IsFiniteSet(all) /\ Cardinality(all) = c + 1 /\ all \in SUBSET (1..id)
  <2>1. IsFiniteSet(all) /\ Cardinality(all) = c + 1
    BY <1>1, FS_AddElement
  <2> QED BY <2>1
<1>3. after = [i \in left |-> IF i = id THEN act ELSE kept[i]]
    BY DEF PastWith
<1>4. DOMAIN after = left /\ \A i \in left : after[i] = IF i = id THEN act ELSE kept[i]
    BY <1>3
<1>5. \A i \in all : IsFiniteSet(newer(i)) /\ Cardinality(newer(i)) \in Nat /\ newer(i) \in SUBSET (all \ {i})
  <2>1. \A i \in all : newer(i) \in SUBSET (all \ {i}) /\ newer(i) \in SUBSET all
    BY <1>2
  <2> HIDE DEF newer
  <2> QED BY <1>2, <2>1, FS_Subset, FS_CardinalityType
<1>6. \A i \in all : IsFiniteSet(all \ {i}) /\ Cardinality(all \ {i}) = c
  <2> HIDE DEF all
  <2>1. \A i \in all : IsFiniteSet(all \ {i}) /\ Cardinality(all \ {i}) = Cardinality(all) - 1
    BY <1>2, FS_RemoveElement
  <2> QED BY <1>1, <1>2, <2>1
<1>7. CASE c < MaxPast
  <2>1. ASSUME NEW i \in all PROVE Cardinality(newer(i)) <= c
    <3>1. newer(i) \in SUBSET (all \ {i}) /\ IsFiniteSet(all \ {i}) /\ Cardinality(all \ {i}) = c
      BY <1>5, <1>6
    <3> HIDE DEF newer, all
    <3> QED BY <3>1, FS_Subset
  <2>2. left = all
    BY <1>1, <1>5, <1>7, <2>1
  <2> HIDE DEF left, all
  <2> QED BY <1>1, <1>2, <1>4, <1>7, <2>2 DEF all
<1>8. CASE c = MaxPast
  <2>1. PICK first \in all : Rank(all, first) = 1
    <3>1. 1 \in 1..Cardinality(all)
      BY <1>1, <1>2
    <3> QED BY <1>1, <1>2, <3>1, RankFacts
  <2>2. \A i \in all \ {first} : first < i
    <3> SUFFICES ASSUME NEW i \in all \ {first}, i < first PROVE FALSE
      BY <1>2
    <3>1. Rank(all, i) < Rank(all, first) /\ Rank(all, i) \in 1..Cardinality(all)
      BY <1>1, <1>2, RankFacts
    <3> QED BY <1>1, <1>2, <2>1, <3>1
  <2>3. newer(first) = all \ {first}
    BY <1>2, <2>2
  <2>4. first \notin left
    BY <1>1, <1>6, <1>8, <2>3
  <2>5. ASSUME NEW i \in all, i # first PROVE i \in left
    <3>1. newer(i) \in SUBSET ((all \ {i}) \ {first})
      BY <1>2, <2>2, <2>5
    <3>2. IsFiniteSet((all \ {i}) \ {first}) /\ Cardinality((all \ {i}) \ {first}) = c - 1
      <4> HIDE DEF all
      <4>1. first \in all \ {i}
        BY <2>5
      <4> QED BY <1>6, <2>5, <4>1, FS_RemoveElement
    <3>3. Cardinality(newer(i)) <= c - 1
      <4> HIDE DEF newer
      <4> QED BY <3>1, <3>2, FS_Subset
    <3> QED BY <1>1, <1>5, <1>8, <3>3
  <2>6. left = all \ {first}
    BY <2>4, <2>5
  <2>7. first # id
    <3>1. PICK i \in D : TRUE
      BY <1>1, <1>8, FS_EmptySet
    <3> QED BY <1>1, <2>2, <3>1
  <2> HIDE DEF left
  <2>8. IsFiniteSet(left) /\ Cardinality(left) = MaxPast
    BY <1>6, <1>8, <2>6
  <2>9. \A i \in D \ left : i = first
    BY <2>6
  <2> QED BY <1>1, <1>2, <1>4, <1>8, <2>2, <2>6, <2>7, <2>8, <2>9
<1> QED BY <1>1, <1>7, <1>8

-----------------------------------------------------------------------------
(* The types of the memory.                                                 *)

Episode == [start : Nat, last : Nat, acted : BOOLEAN]
Act     == [taken : Nat, ends : Nat, counts : BOOLEAN]
Known   == [starts : Seq(Nat), latest : Nat, acted : BOOLEAN, decided : 0..2, seen : Nat]
Kinds   == {"activity", "escalation"}

\* What is remembered of the actions is what is known of them.
SameActs(list, ac) ==
    /\ DOMAIN list \subseteq DOMAIN ac /\ Cardinality(DOMAIN list) <= MaxPast
    /\ \A i \in DOMAIN list : list[i] = ac[i]

LEMMA HistoryTypes ==
    ASSUME HistoryTypeOK
    PROVE  /\ moment \in Nat \ {0} /\ saved \in Nat
           /\ episodes \in Seq(Episode) /\ Len(episodes) <= MaxEpisodes
           /\ acts \in Seq(Act) /\ Len(acts) \in Nat /\ DOMAIN acts = 1..Len(acts) /\ \A i \in DOMAIN acts : acts[i] \in Act
           /\ SameActs(past, acts) /\ truth \in Known
<1>1. moment \in Nat \ {0} /\ saved \in Nat
    BY HistoryNumbers DEF HistoryTypeOK
<1>2. episodes \in Seq(Episode) /\ Len(episodes) <= MaxEpisodes /\ truth \in Known
    BY DEF HistoryTypeOK, Episode, Known
<1>3. acts \in Seq(Act)
    BY DEF HistoryTypeOK, Act
<1>4. Len(acts) \in Nat /\ DOMAIN acts = 1..Len(acts) /\ \A i \in DOMAIN acts : acts[i] \in Act
    BY <1>3
<1>5. SameActs(past, acts)
    BY DEF HistoryTypeOK, SameActs
<1> QED BY <1>1, <1>2, <1>3, <1>4, <1>5

LEMMA KeptPastFacts ==
    ASSUME HistoryTypeOK, NEW t \in Nat
    PROVE  /\ SameActs(KeptPast(t), acts) /\ DOMAIN KeptPast(t) \subseteq DOMAIN past
           /\ \A i \in DOMAIN past \ DOMAIN KeptPast(t) : acts[i].ends + Retention < t
<1> DEFINE keep == {i \in DOMAIN past : past[i].ends + Retention >= t}
<1>1. KeptPast(t) = [i \in keep |-> past[i]]
    BY DEF KeptPast
<1>2. SameActs(past, acts) /\ Len(acts) \in Nat /\ DOMAIN acts = 1..Len(acts) /\ \A i \in DOMAIN acts : acts[i].ends \in Nat
    BY HistoryTypes DEF Act
<1>3. keep \in SUBSET DOMAIN past /\ DOMAIN past \in SUBSET (1..Len(acts))
    BY <1>2 DEF SameActs
<1>4. \A i \in DOMAIN past \ keep : acts[i].ends + Retention < t
  <2> SUFFICES ASSUME NEW i \in DOMAIN past, i \notin keep PROVE acts[i].ends + Retention < t
    OBVIOUS
  <2>1. past[i] = acts[i] /\ acts[i].ends \in Nat
    BY <1>2, <1>3 DEF SameActs
  <2> QED BY <2>1, HistoryNumbers
<1> HIDE DEF keep
<1>5. DOMAIN KeptPast(t) = keep /\ \A i \in keep : KeptPast(t)[i] = past[i]
    BY <1>1
<1>6. Cardinality(keep) <= MaxPast
  <2>1. IsFiniteSet(DOMAIN past) /\ Cardinality(DOMAIN past) \in Nat
    BY <1>2, <1>3, RankFacts
  <2>2. Cardinality(keep) <= Cardinality(DOMAIN past) /\ Cardinality(keep) \in Nat
    BY <1>3, <2>1, FS_Subset, FS_CardinalityType
  <2> QED BY <1>2, <2>1, <2>2, HistoryNumbers DEF SameActs
<1> QED BY <1>2, <1>3, <1>4, <1>5, <1>6 DEF SameActs

LEMMA KeptEpisodesFacts ==
    ASSUME HistoryTypeOK, NEW t \in Nat
    PROVE  LET eps == KeptEpisodes(t) IN
           /\ eps \in Seq(Episode) /\ Len(eps) <= Len(episodes)
           /\ (\A i \in 1..Len(episodes) : episodes[i].last + Retention >= t) => Len(eps) = Len(episodes)
           /\ \E f \in [1..Len(eps) -> 1..Len(episodes)] :
                /\ \A j, k \in 1..Len(eps) : j < k => f[j] < f[k]
                /\ \A j \in 1..Len(eps) : eps[j] = episodes[f[j]] /\ eps[j].last + Retention >= t
                /\ \A i \in 1..Len(episodes) :
                    (\E j \in 1..Len(eps) : f[j] = i) \/ episodes[i].last + Retention < t
<1> DEFINE keep == {i \in DOMAIN episodes : episodes[i].last + Retention >= t}
           eps  == KeptEpisodes(t)
<1>1. episodes \in Seq(Episode) /\ DOMAIN episodes = 1..Len(episodes)
    BY HistoryTypes
<1>2. keep \in SUBSET (1..Len(episodes)) /\ eps = Selected(episodes, keep)
    BY <1>1 DEF KeptEpisodes
<1>3. \A i \in 1..Len(episodes) : /\ i \in keep => episodes[i].last + Retention >= t
                                  /\ i \notin keep => episodes[i].last + Retention < t
  <2> SUFFICES ASSUME NEW i \in 1..Len(episodes)
               PROVE  /\ i \in keep => episodes[i].last + Retention >= t
                      /\ i \notin keep => episodes[i].last + Retention < t
    OBVIOUS
  <2>0. episodes[i] \in Episode
    BY <1>1
  <2>1. episodes[i].last \in Nat
    BY <2>0 DEF Episode
  <2> QED BY <1>1, <2>1, HistoryNumbers
<1> HIDE DEF keep, eps
<1>4. eps \in Seq(Episode) /\ Len(eps) <= Len(episodes)
    BY <1>1, <1>2, SelectedFacts
<1>5. PICK f \in [1..Len(eps) -> keep] :
        /\ \A j, k \in 1..Len(eps) : j < k => f[j] < f[k]
        /\ \A i \in keep : \E j \in 1..Len(eps) : f[j] = i
        /\ \A j \in 1..Len(eps) : eps[j] = episodes[f[j]]
    BY <1>1, <1>2, SelectedFacts
<1>6. f \in [1..Len(eps) -> 1..Len(episodes)]
    BY <1>2
<1>7. \A j \in 1..Len(eps) : eps[j] = episodes[f[j]] /\ eps[j].last + Retention >= t
    BY <1>2, <1>3, <1>5
<1>8. (\A i \in 1..Len(episodes) : episodes[i].last + Retention >= t) => Len(eps) = Len(episodes)
  <2> SUFFICES ASSUME \A i \in 1..Len(episodes) : episodes[i].last + Retention >= t
               PROVE  Len(eps) = Len(episodes)
    OBVIOUS
  <2>1. keep = 1..Len(episodes)
    BY <1>1 DEF keep
  <2>2. Len(eps) = Cardinality(keep)
    BY <1>1, <1>2, SelectedFacts
  <2>3. Len(episodes) \in Nat
    BY <1>1
  <2>4. Cardinality(1..Len(episodes)) = Len(episodes)
    <3> DEFINE n == Len(episodes)
    <3> HIDE DEF n
    <3>1. n \in Nat => Cardinality(1..n) = n
      BY FS_Interval
    <3> QED BY <2>3, <3>1 DEF n
  <2> QED BY <2>1, <2>2, <2>4
<1> QED BY <1>3, <1>4, <1>5, <1>6, <1>7, <1>8 DEF eps

\* The memory after an event, before a decision.
LEMMA EpisodesAfterType ==
    ASSUME HistoryTypeOK, NEW t \in Nat, NEW kind \in Kinds
    PROVE  EpisodesAfter(t, kind) \in Seq(Episode) /\ Len(EpisodesAfter(t, kind)) <= MaxEpisodes
<1> DEFINE eps == KeptEpisodes(t)
           new == [start |-> t, last |-> t, acted |-> FALSE]
<1>1. eps \in Seq(Episode) /\ Len(eps) \in Nat /\ Len(eps) <= MaxEpisodes
  <2>1. eps \in Seq(Episode) /\ Len(eps) <= Len(episodes)
    BY KeptEpisodesFacts
  <2>2. Len(eps) \in Nat /\ Len(episodes) \in Nat /\ Len(episodes) <= MaxEpisodes
    BY <2>1, HistoryTypes
  <2> QED BY <2>1, <2>2, HistoryNumbers
<1>2. new \in Episode
    BY DEF Episode
<1> HIDE DEF new
<1>3. Newest(Append(eps, new), MaxEpisodes) \in Seq(Episode) /\ Len(Newest(Append(eps, new), MaxEpisodes)) <= MaxEpisodes
  <2>1. Append(eps, new) \in Seq(Episode) /\ Append(eps, new) # << >> /\ Len(Append(eps, new)) <= MaxEpisodes + 1
    BY <1>1, <1>2, HistoryNumbers
  <2> QED BY <2>1, NewestFacts
<1>4. eps # << >> => /\ [eps EXCEPT ![Len(eps)].last = LatestOf(@, t)] \in Seq(Episode)
                     /\ Len([eps EXCEPT ![Len(eps)].last = LatestOf(@, t)]) = Len(eps)
  <2> SUFFICES ASSUME eps # << >>
               PROVE  /\ [eps EXCEPT ![Len(eps)].last = LatestOf(@, t)] \in Seq(Episode)
                      /\ Len([eps EXCEPT ![Len(eps)].last = LatestOf(@, t)]) = Len(eps)
    OBVIOUS
  <2> HIDE DEF eps
  <2>1. Len(eps) \in 1..Len(eps) /\ eps[Len(eps)] \in Episode
    BY <1>1
  <2>2. [eps[Len(eps)] EXCEPT !.last = LatestOf(@, t)] \in Episode
    BY <2>1 DEF Episode, LatestOf
  <2> QED BY <1>1, <2>1, <2>2
<1>5. eps = << >> => NewEpisode(t)
    BY DEF NewEpisode
<1>6. EpisodesAfter(t, kind) = IF kind = "escalation" THEN eps
        ELSE IF NewEpisode(t) THEN Newest(Append(eps, new), MaxEpisodes)
             ELSE [eps EXCEPT ![Len(eps)].last = LatestOf(@, t)]
    BY DEF EpisodesAfter, new
<1> HIDE DEF eps
<1> QED BY <1>1, <1>3, <1>4, <1>5, <1>6

LEMMA TruthAfterFacts ==
    ASSUME truth \in Known, NEW t \in Nat, NEW kind \in Kinds
    PROVE  LET known == TruthAfter(t, kind)
               new   == kind # "escalation" /\ TrulyNew(t) IN
           /\ known \in Known
           /\ known.starts = IF new THEN Append(truth.starts, t) ELSE truth.starts
           /\ known.latest = IF kind = "escalation" THEN truth.latest ELSE LatestOf(truth.latest, t)
           /\ known.acted = IF new THEN FALSE ELSE truth.acted
           /\ known.decided = IF new THEN 0 ELSE truth.decided
           /\ known.seen = LatestOf(truth.seen, t)
<1> DEFINE new == kind # "escalation" /\ TrulyNew(t)
           s == IF new THEN Append(truth.starts, t) ELSE truth.starts
           l == IF kind = "escalation" THEN truth.latest ELSE LatestOf(truth.latest, t)
           a == IF new THEN FALSE ELSE truth.acted
           d == IF new THEN 0 ELSE truth.decided
           n == LatestOf(truth.seen, t)
<1>1. TruthAfter(t, kind) = [starts |-> s, latest |-> l, acted |-> a, decided |-> d, seen |-> n]
    BY DEF TruthAfter, Known
<1>2. /\ truth.starts \in Seq(Nat) /\ truth.latest \in Nat /\ truth.acted \in BOOLEAN
      /\ truth.decided \in 0..2 /\ truth.seen \in Nat
    BY DEF Known
<1> HIDE DEF new
<1>3. s \in Seq(Nat)
    BY <1>2
<1>4. l \in Nat /\ n \in Nat
    BY <1>2 DEF LatestOf
<1>5. a \in BOOLEAN
    BY <1>2
<1>6. d \in 0..2
    BY <1>2
<1> HIDE DEF s, l, a, d, n
<1>7. [starts |-> s, latest |-> l, acted |-> a, decided |-> d, seen |-> n] \in Known
    BY <1>3, <1>4, <1>5, <1>6 DEF Known
<1>8. /\ TruthAfter(t, kind) \in Known /\ TruthAfter(t, kind).starts = s /\ TruthAfter(t, kind).latest = l
      /\ TruthAfter(t, kind).acted = a /\ TruthAfter(t, kind).decided = d /\ TruthAfter(t, kind).seen = n
    BY <1>1, <1>7
<1> QED BY <1>8 DEF s, l, a, d, n, new

LEMMA DecidedType ==
    ASSUME NEW known \in Known, NEW acted \in BOOLEAN
    PROVE  /\ Decided(known, acted) \in Known
           /\ Decided(known, acted).acted = (known.acted \/ acted)
           /\ Decided(known, acted).decided = AtMostOf(known.decided + 1, 2)
           /\ Decided(known, acted).starts = known.starts /\ Decided(known, acted).latest = known.latest
           /\ Decided(known, acted).seen = known.seen
<1>1. known.acted \in BOOLEAN /\ known.decided \in 0..2
    BY DEF Known
<1> DEFINE a == known.acted \/ acted
           d == AtMostOf(known.decided + 1, 2)
<1>2. a \in BOOLEAN /\ d \in 0..2
    BY <1>1 DEF AtMostOf
<1>3. Decided(known, acted) = [known EXCEPT !.acted = a, !.decided = d]
    BY DEF Decided, Known
<1> HIDE DEF a, d
<1>4. /\ Decided(known, acted) \in Known
      /\ Decided(known, acted).acted = a /\ Decided(known, acted).decided = d
      /\ Decided(known, acted).starts = known.starts /\ Decided(known, acted).latest = known.latest
      /\ Decided(known, acted).seen = known.seen
    BY <1>2, <1>3 DEF Known
<1> QED BY <1>4 DEF a, d

LEMMA ActedFacts ==
    ASSUME NEW eps \in Seq(Episode), eps # << >>
    PROVE  /\ Acted(eps) \in Seq(Episode) /\ Len(Acted(eps)) = Len(eps) /\ Acted(eps) # << >> /\ Len(eps) \in Nat \ {0}
           /\ Final(Acted(eps)).acted = TRUE /\ Final(Acted(eps)).last = Final(eps).last
           /\ \A k \in 1..Len(eps) : Acted(eps)[k].start = eps[k].start /\ Acted(eps)[k].last = eps[k].last
<1> DEFINE n == Len(eps)
           final == [eps[n] EXCEPT !.acted = TRUE]
<1>1. n \in Nat \ {0} /\ n \in 1..n /\ eps[n] \in Episode
    OBVIOUS
<1>2. final \in Episode /\ final.acted = TRUE /\ final.last = eps[n].last /\ final.start = eps[n].start
    BY <1>1 DEF Episode
<1>3. Acted(eps) = [eps EXCEPT ![n] = final]
    BY DEF Acted
<1> HIDE DEF final
<1>4. Acted(eps) \in Seq(Episode) /\ Len(Acted(eps)) = n
    BY <1>1, <1>2, <1>3
<1>5. Acted(eps)[n] = final /\ \A k \in 1..n : k # n => Acted(eps)[k] = eps[k]
    BY <1>1, <1>3
<1>6. \A k \in 1..n : Acted(eps)[k].start = eps[k].start /\ Acted(eps)[k].last = eps[k].last
    BY <1>2, <1>5
<1> QED BY <1>1, <1>2, <1>4, <1>5, <1>6 DEF Final

\* An action that is lifted, or no more counted, in a list of them.
LEMMA EndedAtFacts ==
    ASSUME NEW list, NEW id, NEW m
    PROVE  /\ DOMAIN EndedAt(list, id, m) = DOMAIN list
           /\ \A i \in DOMAIN list : EndedAt(list, id, m)[i] =
                IF i = id THEN [list[i] EXCEPT !.ends = AtMostOf(@, m)] ELSE list[i]
BY DEF EndedAt

LEMMA ExcludedFacts ==
    ASSUME NEW list, NEW id
    PROVE  /\ DOMAIN Excluded(list, id) = DOMAIN list
           /\ \A i \in DOMAIN list : Excluded(list, id)[i] =
                IF i = id THEN [list[i] EXCEPT !.counts = FALSE] ELSE list[i]
BY DEF Excluded

-----------------------------------------------------------------------------
(* The types are kept.                                                      *)

LEMMA TypesInit == HistoryInit => HistoryTypeOK
<1> SUFFICES ASSUME HistoryInit PROVE HistoryTypeOK
    OBVIOUS
<1>1. Unknown \in Known /\ << >> \in Seq(Episode) /\ << >> \in Seq(Act)
    BY DEF Unknown, Known
<1>2. DOMAIN past = {} /\ Cardinality(DOMAIN past) = 0 /\ Len(acts) = 0 /\ Len(episodes) = 0
    BY FS_EmptySet DEF HistoryInit
<1>3. moment \in 1..LastMoment /\ saved \in 0..LastMoment /\ MaxPast \in Nat /\ MaxEpisodes \in Nat /\ MaxActs \in Nat
    BY HistoryNumbers DEF HistoryInit
<1>4. /\ episodes = << >> /\ acts = << >> /\ truth = Unknown /\ ongoing = {} /\ astray = FALSE
    BY DEF HistoryInit
<1>5. SameActs(past, acts)
    BY <1>2, <1>3, <1>4 DEF SameActs
<1>6. /\ episodes \in Seq(Episode) /\ Len(episodes) <= MaxEpisodes /\ acts \in Seq(Act) /\ Len(acts) <= MaxActs
      /\ ongoing \subseteq DOMAIN acts /\ astray \in BOOLEAN /\ truth \in Known
  <2>1. episodes \in Seq(Episode) /\ acts \in Seq(Act) /\ truth \in Known
    BY <1>1, <1>4
  <2>2. Len(episodes) <= MaxEpisodes /\ Len(acts) <= MaxActs
    BY <1>2, <1>3
  <2>3. ongoing \subseteq DOMAIN acts /\ astray \in BOOLEAN
    BY <1>4
  <2> QED BY <2>1, <2>2, <2>3
<1> QED BY <1>3, <1>5, <1>6 DEF HistoryTypeOK, Known, Episode, Act, SameActs

\* The handling of an event, but for the decision.
LEMMA EventTypes ==
    ASSUME HistoryTypeOK, NEW t \in 1..moment, NEW kind \in Kinds
    PROVE  /\ t \in Nat \ {0} /\ t \in 1..LastMoment
           /\ EpisodesAfter(t, kind) \in Seq(Episode) /\ Len(EpisodesAfter(t, kind)) <= MaxEpisodes
           /\ SameActs(KeptPast(t), acts) /\ TruthAfter(t, kind) \in Known
<1>1. t \in Nat \ {0} /\ t \in 1..LastMoment
    BY HistoryTypes, HistoryNumbers DEF HistoryTypeOK
<1> QED BY <1>1, HistoryTypes, EpisodesAfterType, KeptPastFacts, TruthAfterFacts

LEMMA WatchTypes ==
    ASSUME HistoryTypeOK, NEW t \in 1..moment, NEW kind \in Kinds, Watch(t, kind)
    PROVE  HistoryTypeOK'
<1>1. /\ moment' \in 1..LastMoment /\ ongoing' \subseteq DOMAIN acts' /\ astray' \in BOOLEAN
      /\ acts' \in Seq(Act) /\ Len(acts') <= MaxActs
    BY HistoryTypes DEF HistoryTypeOK, Watch, Tardy
<1>2. episodes' \in Seq(Episode) /\ Len(episodes') <= MaxEpisodes /\ truth' \in Known /\ saved' \in 0..LastMoment
    BY EventTypes DEF Watch
<1>3. SameActs(past', acts')
    BY EventTypes DEF Watch
<1> QED BY <1>1, <1>2, <1>3 DEF HistoryTypeOK, SameActs, Episode, Act, Known

\* The action of a strike.
LEMMA StrikeFacts ==
    ASSUME HistoryTypeOK, NEW t \in 1..moment, NEW kind \in Kinds, NEW ban \in BOOLEAN, Strike(t, kind, ban)
    PROVE  LET id == Len(acts) + 1 IN
           /\ id \in 1..MaxActs /\ acts' \in Seq(Act) /\ Len(acts') = id /\ DOMAIN acts' = 1..id
           /\ \A i \in 1..Len(acts) : acts'[i] = acts[i]
           /\ acts'[id].taken = moment /\ acts'[id].ends \in Nat /\ acts'[id].ends >= moment
           /\ past' = PastWith(KeptPast(t), id, acts'[id])
<1> DEFINE tier == TierAt(KeptPast(t), t)
           ends == moment + IF ban THEN BanTimes[tier] ELSE LureTime
           id   == Len(acts) + 1
           act  == [taken |-> moment, ends |-> ends, counts |-> ban]
           previous == {i \in DOMAIN KeptPast(t) : KeptPast(t)[i].counts /\ KeptPast(t)[i].taken + Recidive >= t}
<1>1. acts' = Append(acts, act) /\ past' = PastWith(KeptPast(t), id, act) /\ id <= MaxActs
    BY DEF Strike
<1>2. tier \in 1..Len(BanTimes)
  <2>1. DOMAIN KeptPast(t) \in SUBSET (1..Len(acts)) /\ Len(acts) \in Nat
    BY HistoryTypes, EventTypes DEF SameActs
  <2>2. previous \in SUBSET (1..Len(acts))
    BY <2>1
  <2>3. Cardinality(previous) \in Nat
    BY <2>1, <2>2, RankFacts
  <2>4. tier = AtMostOf(1 + Cardinality(previous), Len(BanTimes))
    BY DEF TierAt
  <2>5. Len(BanTimes) \in Nat \ {0}
    BY HistoryConstants
  <2> HIDE DEF previous, tier
  <2> QED BY <2>3, <2>4, <2>5 DEF AtMostOf
<1> HIDE DEF tier
<1>3. BanTimes[tier] \in Nat \ {0}
    BY <1>2, HistoryConstants
<1>4. ends \in Nat /\ ends >= moment /\ moment \in Nat
  <2>1. moment \in Nat /\ LureTime \in Nat
    BY HistoryTypes, HistoryConstants
  <2> QED BY <1>3, <2>1
<1> HIDE DEF ends
<1>5. act \in Act /\ act.taken = moment /\ act.ends = ends
    BY <1>4 DEF Act
<1> HIDE DEF act
<1>6. acts \in Seq(Act) /\ Len(acts) \in Nat /\ MaxActs \in Nat
    BY HistoryTypes, HistoryNumbers
<1>7. /\ acts' \in Seq(Act) /\ Len(acts') = id /\ DOMAIN acts' = 1..id /\ acts'[id] = act
      /\ \A i \in 1..Len(acts) : acts'[i] = acts[i]
    BY <1>1, <1>5, <1>6
<1> QED BY <1>1, <1>4, <1>5, <1>6, <1>7

\* What is remembered after a strike.
LEMMA StrikePast ==
    ASSUME HistoryTypeOK, NEW t \in 1..moment, NEW kind \in Kinds, NEW ban \in BOOLEAN, Strike(t, kind, ban)
    PROVE  LET id == Len(acts) + 1 IN
           /\ SameActs(past', acts') /\ id \in DOMAIN past'
           /\ DOMAIN past' \subseteq DOMAIN KeptPast(t) \cup {id}
           /\ Cardinality(DOMAIN KeptPast(t)) = MaxPast => Cardinality(DOMAIN past') = MaxPast
           /\ \A i \in DOMAIN KeptPast(t) \ DOMAIN past' :
                Cardinality(DOMAIN past') = MaxPast /\ \A k \in DOMAIN past' : i < k
<1> DEFINE kept == KeptPast(t)
           id == Len(acts) + 1
           after == PastWith(kept, id, acts'[id])
<1>1. SameActs(kept, acts) /\ Len(acts) \in Nat /\ DOMAIN acts = 1..Len(acts)
    BY EventTypes, HistoryTypes
<1>2. DOMAIN kept \in SUBSET (1..Len(acts)) /\ Cardinality(DOMAIN kept) <= MaxPast
    BY <1>1 DEF SameActs
<1> HIDE DEF kept
<1>3. /\ DOMAIN after \subseteq DOMAIN kept \cup {id} /\ id \in DOMAIN after /\ after[id] = acts'[id]
      /\ \A i \in DOMAIN after \ {id} : after[i] = kept[i]
      /\ IsFiniteSet(DOMAIN after) /\ Cardinality(DOMAIN after) <= MaxPast
      /\ Cardinality(DOMAIN kept) = MaxPast => Cardinality(DOMAIN after) = MaxPast
      /\ \A i \in DOMAIN kept \ DOMAIN after :
           Cardinality(DOMAIN after) = MaxPast /\ \A k \in DOMAIN after : i < k
    BY <1>1, <1>2, PastWithFacts
<1>4. past' = after
    BY StrikeFacts DEF kept
<1> HIDE DEF after
<1>5. DOMAIN acts' = 1..id /\ \A i \in 1..Len(acts) : acts'[i] = acts[i]
    BY StrikeFacts
<1>6. \A i \in DOMAIN after \ {id} : after[i] = acts'[i]
    BY <1>1, <1>2, <1>3, <1>5 DEF SameActs
<1>7. DOMAIN after \subseteq 1..id
    BY <1>1, <1>2, <1>3
<1>8. SameActs(after, acts')
    BY <1>3, <1>5, <1>6, <1>7 DEF SameActs
<1> QED BY <1>3, <1>4, <1>8 DEF kept

LEMMA StrikeTypes ==
    ASSUME HistoryTypeOK, NEW t \in 1..moment, NEW kind \in Kinds, NEW ban \in BOOLEAN, Strike(t, kind, ban)
    PROVE  HistoryTypeOK'
<1> DEFINE eps == EpisodesAfter(t, kind)
<1>1. eps \in Seq(Episode) /\ Len(eps) <= MaxEpisodes /\ eps # << >> /\ episodes' = Acted(eps)
    BY EventTypes DEF Strike, MayStrike
<1> HIDE DEF eps
<1>2. episodes' \in Seq(Episode) /\ Len(episodes') <= MaxEpisodes
    BY <1>1, ActedFacts
<1>3. truth' \in Known
    BY EventTypes, DecidedType DEF Strike
<1>4. SameActs(past', acts') /\ acts' \in Seq(Act) /\ Len(acts') <= MaxActs
    BY StrikePast, StrikeFacts, HistoryNumbers
<1>5. ongoing' \subseteq DOMAIN acts'
  <2>1. ongoing' = ongoing \cup {Len(acts) + 1} /\ ongoing \subseteq 1..Len(acts) /\ Len(acts) \in Nat
    BY HistoryTypes DEF Strike, HistoryTypeOK
  <2>2. DOMAIN acts' = 1..(Len(acts) + 1)
    BY StrikeFacts
  <2>3. \A i \in 1..Len(acts) : i \in 1..(Len(acts) + 1)
    BY <2>1
  <2>4. Len(acts) + 1 \in 1..(Len(acts) + 1)
    BY <2>1
  <2> QED BY <2>1, <2>2, <2>3, <2>4, Zenon
<1>6. moment' \in 1..LastMoment /\ saved' \in 0..LastMoment
    BY EventTypes DEF Strike, HistoryTypeOK
<1>7. astray' \in BOOLEAN
    BY DEF Strike, HistoryTypeOK, Tardy, DropsRunning
<1> QED BY <1>2, <1>3, <1>4, <1>5, <1>6, <1>7 DEF HistoryTypeOK, SameActs, Episode, Act, Known

LEMMA MissTypes ==
    ASSUME HistoryTypeOK, NEW t \in 1..moment, NEW kind \in Kinds, Miss(t, kind)
    PROVE  HistoryTypeOK'
<1> DEFINE eps == EpisodesAfter(t, kind)
<1>1. eps \in Seq(Episode) /\ Len(eps) <= MaxEpisodes /\ eps # << >> /\ episodes' = Acted(eps)
    BY EventTypes DEF Miss, MayStrike
<1> HIDE DEF eps
<1>2. episodes' \in Seq(Episode) /\ Len(episodes') <= MaxEpisodes
    BY <1>1, ActedFacts
<1>3. truth' \in Known
    BY EventTypes, DecidedType DEF Miss
<1>4. SameActs(past', acts')
    BY EventTypes DEF Miss
<1>5. /\ moment' \in 1..LastMoment /\ saved' \in 0..LastMoment /\ astray' \in BOOLEAN
      /\ ongoing' \subseteq DOMAIN acts' /\ acts' \in Seq(Act) /\ Len(acts') <= MaxActs
    BY EventTypes, HistoryTypes DEF Miss, HistoryTypeOK, Tardy
<1> QED BY <1>2, <1>3, <1>4, <1>5 DEF HistoryTypeOK, SameActs, Episode, Act, Known

\* A change of one action that keeps its type is made alike in the memory and in the truth.
LEMMA ChangedTypes ==
    ASSUME HistoryTypeOK, NEW id, NEW act, id \in DOMAIN acts => act \in Act,
           DOMAIN past' = DOMAIN past, \A i \in DOMAIN past : past'[i] = IF i = id THEN act ELSE past[i],
           acts' = [i \in DOMAIN acts |-> IF i = id THEN act ELSE acts[i]]
    PROVE  /\ SameActs(past', acts') /\ acts' \in Seq(Act) /\ Len(acts') = Len(acts) /\ DOMAIN acts' = DOMAIN acts
<1>1. acts \in Seq(Act) /\ Len(acts) \in Nat /\ DOMAIN acts = 1..Len(acts) /\ SameActs(past, acts)
    BY HistoryTypes
<1>2. acts' \in Seq(Act) /\ Len(acts') = Len(acts) /\ DOMAIN acts' = DOMAIN acts
    BY <1>1
<1>3. SameActs(past', acts')
    BY <1>1, <1>2 DEF SameActs
<1> QED BY <1>2, <1>3

LEMMA LiftFacts ==
    ASSUME HistoryTypeOK, NEW id, LiftAction(id)
    PROVE  /\ SameActs(past', acts') /\ acts' \in Seq(Act) /\ Len(acts') = Len(acts) /\ DOMAIN acts' = DOMAIN acts
           /\ DOMAIN past' = DOMAIN past
           /\ \A i \in DOMAIN acts : /\ acts'[i].taken = acts[i].taken
                                     /\ acts'[i].ends = IF i = id THEN AtMostOf(acts[i].ends, moment) ELSE acts[i].ends
<1> DEFINE act == [acts[id] EXCEPT !.ends = AtMostOf(@, moment)]
<1>1. acts \in Seq(Act) /\ DOMAIN acts = 1..Len(acts) /\ SameActs(past, acts) /\ moment \in Nat
    BY HistoryTypes
<1>2. id \in DOMAIN acts => /\ act \in Act /\ act.taken = acts[id].taken
                            /\ act.ends = AtMostOf(acts[id].ends, moment)
  <2> SUFFICES ASSUME id \in DOMAIN acts
               PROVE  act \in Act /\ act.taken = acts[id].taken /\ act.ends = AtMostOf(acts[id].ends, moment)
    OBVIOUS
  <2>1. acts[id] \in Act
    BY <1>1
  <2> QED BY <1>1, <2>1 DEF Act, AtMostOf
<1>3. acts' = [i \in DOMAIN acts |-> IF i = id THEN act ELSE acts[i]]
    BY DEF LiftAction, EndedAt
<1>4. DOMAIN past' = DOMAIN past /\ \A i \in DOMAIN past : past'[i] = IF i = id THEN act ELSE past[i]
  <2>1. \A i \in DOMAIN past : past[i] = acts[i]
    BY <1>1 DEF SameActs
  <2> QED BY <2>1 DEF LiftAction, EndedAt
<1> HIDE DEF act
<1>5. /\ SameActs(past', acts') /\ acts' \in Seq(Act) /\ Len(acts') = Len(acts) /\ DOMAIN acts' = DOMAIN acts
    BY <1>2, <1>3, <1>4, ChangedTypes
<1> QED BY <1>2, <1>3, <1>4, <1>5

LEMMA NotCountedFacts ==
    ASSUME HistoryTypeOK, NEW id, NotCounted(id)
    PROVE  /\ SameActs(past', acts') /\ acts' \in Seq(Act) /\ Len(acts') = Len(acts) /\ DOMAIN acts' = DOMAIN acts
           /\ DOMAIN past' = DOMAIN past
           /\ \A i \in DOMAIN acts : acts'[i].taken = acts[i].taken /\ acts'[i].ends = acts[i].ends
<1> DEFINE act == [acts[id] EXCEPT !.counts = FALSE]
<1>1. acts \in Seq(Act) /\ DOMAIN acts = 1..Len(acts) /\ SameActs(past, acts)
    BY HistoryTypes
<1>2. id \in DOMAIN acts => act \in Act /\ act.taken = acts[id].taken /\ act.ends = acts[id].ends
  <2> SUFFICES ASSUME id \in DOMAIN acts
               PROVE  act \in Act /\ act.taken = acts[id].taken /\ act.ends = acts[id].ends
    OBVIOUS
  <2>1. acts[id] \in Act
    BY <1>1
  <2> QED BY <2>1 DEF Act
<1>3. acts' = [i \in DOMAIN acts |-> IF i = id THEN act ELSE acts[i]]
    BY DEF NotCounted, Excluded
<1>4. DOMAIN past' = DOMAIN past /\ \A i \in DOMAIN past : past'[i] = IF i = id THEN act ELSE past[i]
  <2>1. \A i \in DOMAIN past : past[i] = acts[i]
    BY <1>1 DEF SameActs
  <2> QED BY <2>1 DEF NotCounted, Excluded
<1> HIDE DEF act
<1>5. /\ SameActs(past', acts') /\ acts' \in Seq(Act) /\ Len(acts') = Len(acts) /\ DOMAIN acts' = DOMAIN acts
    BY <1>2, <1>3, <1>4, ChangedTypes
<1> QED BY <1>2, <1>3, <1>4, <1>5

LEMMA OtherTypes ==
    ASSUME HistoryTypeOK,
           \/ \E id \in 1..MaxActs : Leaves(id) \/ LiftAction(id) \/ NotCounted(id)
           \/ ForgetSource \/ PurgeSource \/ MomentPasses
    PROVE  HistoryTypeOK'
<1>1. CASE \E id \in 1..MaxActs : Leaves(id)
    BY <1>1 DEF Leaves, memoryVars, HistoryTypeOK
<1>2. CASE \E id \in 1..MaxActs : LiftAction(id)
  <2>1. PICK id \in 1..MaxActs : LiftAction(id)
    BY <1>2
  <2>2. saved' \in 0..LastMoment
    BY <2>1 DEF LiftAction, Saves, HistoryTypeOK
  <2>3. /\ moment' \in 1..LastMoment /\ astray' \in BOOLEAN /\ truth' \in Known /\ ongoing' \subseteq DOMAIN acts
        /\ episodes' \in Seq(Episode) /\ Len(episodes') <= MaxEpisodes /\ Len(acts) <= MaxActs
    BY <2>1, HistoryTypes DEF LiftAction, HistoryTypeOK
  <2>4. SameActs(past', acts') /\ acts' \in Seq(Act) /\ Len(acts') = Len(acts) /\ DOMAIN acts' = DOMAIN acts
    BY <2>1, LiftFacts
  <2> QED BY <2>2, <2>3, <2>4 DEF HistoryTypeOK, SameActs, Episode, Act, Known
<1>3. CASE \E id \in 1..MaxActs : NotCounted(id)
  <2>1. PICK id \in 1..MaxActs : NotCounted(id)
    BY <1>3
  <2>2. saved' \in 0..LastMoment
    BY <2>1 DEF NotCounted, Saves, HistoryTypeOK
  <2>3. /\ moment' \in 1..LastMoment /\ astray' \in BOOLEAN /\ truth' \in Known /\ ongoing' \subseteq DOMAIN acts
        /\ episodes' \in Seq(Episode) /\ Len(episodes') <= MaxEpisodes /\ Len(acts) <= MaxActs
    BY <2>1, HistoryTypes DEF NotCounted, HistoryTypeOK
  <2>4. SameActs(past', acts') /\ acts' \in Seq(Act) /\ Len(acts') = Len(acts) /\ DOMAIN acts' = DOMAIN acts
    BY <2>1, NotCountedFacts
  <2> QED BY <2>2, <2>3, <2>4 DEF HistoryTypeOK, SameActs, Episode, Act, Known
<1>0. /\ DOMAIN << >> = {} /\ Cardinality({}) = 0 /\ Unknown \in Known
      /\ << >> \in Seq(Episode) /\ << >> \in Seq(Act) /\ Len(<< >>) = 0
    BY FS_EmptySet DEF Unknown, Known
<1>4. CASE ForgetSource
  <2>1. moment' \in 1..LastMoment /\ saved' \in 0..LastMoment
    BY <1>4, HistoryNumbers DEF ForgetSource, Forgotten, HistoryTypeOK
  <2>2. /\ astray' = FALSE /\ ongoing' = {} /\ episodes' = << >> /\ acts' = << >> /\ past' = << >> /\ truth' = Unknown
    BY <1>4 DEF ForgetSource, Forgotten
  <2>3. SameActs(past', acts')
    BY <1>0, <2>2, HistoryNumbers DEF SameActs
  <2>4. /\ episodes' \in Seq(Episode) /\ Len(episodes') <= MaxEpisodes /\ acts' \in Seq(Act) /\ Len(acts') <= MaxActs
        /\ ongoing' \subseteq DOMAIN acts' /\ astray' \in BOOLEAN /\ truth' \in Known
    <3>1. episodes' \in Seq(Episode) /\ acts' \in Seq(Act) /\ truth' \in Known
      BY <1>0, <2>2
    <3>2. Len(episodes') <= MaxEpisodes /\ Len(acts') <= MaxActs
      BY <1>0, <2>2, HistoryNumbers
    <3>3. ongoing' \subseteq DOMAIN acts' /\ astray' \in BOOLEAN
      BY <2>2
    <3> QED BY <3>1, <3>2, <3>3
  <2> QED BY <2>1, <2>3, <2>4 DEF HistoryTypeOK, Episode, Act, Known, SameActs
<1>5. CASE PurgeSource
  <2>1. /\ moment' \in 1..LastMoment /\ saved' \in 0..LastMoment /\ astray' \in BOOLEAN /\ ongoing' \subseteq DOMAIN acts'
        /\ episodes' = << >> /\ acts' = acts /\ past' = << >> /\ truth' \in Known
    BY <1>5, HistoryTypes, HistoryNumbers DEF PurgeSource, Forgotten, HistoryTypeOK, DropsRunning
  <2>2. acts' \in Seq(Act) /\ Len(acts') <= MaxActs
    BY <2>1, HistoryTypes DEF HistoryTypeOK
  <2>3. SameActs(past', acts')
    BY <1>0, <2>1, HistoryNumbers DEF SameActs
  <2>4. episodes' \in Seq(Episode) /\ Len(episodes') <= MaxEpisodes
    BY <1>0, <2>1, HistoryNumbers
  <2> QED BY <2>1, <2>2, <2>3, <2>4 DEF HistoryTypeOK, Episode, Act, Known, SameActs
<1>6. CASE MomentPasses
    BY <1>6, HistoryTypes, HistoryNumbers DEF MomentPasses, memoryVars, HistoryTypeOK
<1> QED BY <1>1, <1>2, <1>3, <1>4, <1>5, <1>6

LEMMA TypesKept == HistoryTypeOK /\ [HistoryNext]_historyVars => HistoryTypeOK'
<1> SUFFICES ASSUME HistoryTypeOK, [HistoryNext]_historyVars PROVE HistoryTypeOK'
    OBVIOUS
<1>1. CASE UNCHANGED historyVars
    BY <1>1 DEF historyVars, memoryVars, HistoryTypeOK
<1>2. ASSUME NEW t \in 1..moment, NEW kind \in Kinds,
             Watch(t, kind) \/ Miss(t, kind) \/ \E ban \in BOOLEAN : Strike(t, kind, ban)
      PROVE  HistoryTypeOK'
    BY <1>2, WatchTypes, MissTypes, StrikeTypes
<1> QED BY <1>1, <1>2, OtherTypes DEF HistoryNext, Kinds

\* The memory, the truth and the registry keep their types: RiposteEngine and history.py.
THEOREM HistoryTypeCorrect == HistorySpec => []HistoryTypeOK
BY TypesInit, TypesKept, PTL DEF HistorySpec

-----------------------------------------------------------------------------
(* The actions: those that left the memory are too old to count, or older   *)
(* than everything in a memory that is full.                                *)

ActsOK(ac, m, sv) ==
    /\ \A i \in DOMAIN ac : /\ ac[i].taken <= m /\ ac[i].taken <= ac[i].ends
                            /\ sv # 0 => ac[i].taken <= sv + Lateness
    /\ \A i, j \in DOMAIN ac : i < j => ac[i].taken <= ac[j].taken

GoneOK(dom, ac, m) ==
    \A i \in DOMAIN ac \ dom :
        \/ ac[i].taken + Recidive + Lateness < m
        \/ Cardinality(dom) = MaxPast /\ \A k \in dom : i < k

RememberInv ==
    /\ ActsOK(acts, moment, saved) /\ GoneOK(DOMAIN past, acts, moment)
    /\ saved = 0 => DOMAIN past = {} /\ episodes = << >>

LEMMA ActFields ==
    ASSUME HistoryTypeOK
    PROVE  /\ \A i \in DOMAIN acts : i \in Nat /\ acts[i].taken \in Nat /\ acts[i].ends \in Nat
           /\ DOMAIN past \subseteq DOMAIN acts /\ DOMAIN acts = 1..Len(acts) /\ Len(acts) \in Nat
           /\ \A i \in DOMAIN past : past[i] = acts[i]
<1>1. DOMAIN acts = 1..Len(acts) /\ Len(acts) \in Nat /\ \A i \in DOMAIN acts : acts[i] \in Act
    BY HistoryTypes
<1>2. \A i \in DOMAIN acts : i \in Nat /\ acts[i].taken \in Nat /\ acts[i].ends \in Nat
    BY <1>1 DEF Act
<1>3. DOMAIN past \subseteq DOMAIN acts /\ \A i \in DOMAIN past : past[i] = acts[i]
    BY HistoryTypes DEF SameActs
<1> QED BY <1>1, <1>2, <1>3

\* forget_before drops no action that could still count.
LEMMA KeptGone ==
    ASSUME HistoryTypeOK, RememberInv, NEW t \in 1..moment
    PROVE  GoneOK(DOMAIN KeptPast(t), acts, moment)
<1> DEFINE dom == DOMAIN KeptPast(t)
<1>1. /\ dom \subseteq DOMAIN past /\ t \in Nat /\ moment \in Nat /\ t <= moment
      /\ \A i \in DOMAIN past \ dom : acts[i].ends + Retention < t
    BY HistoryTypes, KeptPastFacts
<1>2. /\ ActsOK(acts, moment, saved) /\ GoneOK(DOMAIN past, acts, moment)
    BY DEF RememberInv
<1> HIDE DEF dom
<1>3. \A i \in DOMAIN past \ dom : acts[i].taken + Recidive + Lateness < moment
  <2> SUFFICES ASSUME NEW i \in DOMAIN past, i \notin dom PROVE acts[i].taken + Recidive + Lateness < moment
    OBVIOUS
  <2>1. acts[i].taken \in Nat /\ acts[i].ends \in Nat /\ acts[i].taken <= acts[i].ends /\ acts[i].ends + Retention < t
    BY <1>1, <1>2, ActFields DEF ActsOK
  <2> QED BY <1>1, <2>1, HistoryNumbers
<1>4. ASSUME NEW i \in DOMAIN acts \ dom, ~(acts[i].taken + Recidive + Lateness < moment)
      PROVE  Cardinality(dom) = MaxPast /\ \A k \in dom : i < k
  <2>1. i \notin DOMAIN past
    BY <1>3, <1>4
  <2>2. Cardinality(DOMAIN past) = MaxPast /\ \A k \in DOMAIN past : i < k
    BY <1>2, <1>4, <2>1 DEF GoneOK
  <2>3. ASSUME NEW k \in DOMAIN past PROVE k \in dom
    <3>1. k \in DOMAIN acts /\ i \in DOMAIN acts /\ i < k
      BY <1>4, <2>2, ActFields
    <3>2. acts[i].taken <= acts[k].taken /\ acts[i].taken \in Nat /\ acts[k].taken \in Nat
      BY <1>2, <3>1, ActFields DEF ActsOK
    <3>3. ~(acts[k].taken + Recidive + Lateness < moment)
      <4>1. moment \in Nat /\ Recidive \in Nat /\ Lateness \in Nat
        BY <1>1, HistoryNumbers
      <4>2. ~(acts[i].taken + Recidive + Lateness < moment)
        BY <1>4
      <4> QED BY <3>2, <4>1, <4>2
    <3> QED BY <1>3, <3>3
  <2>4. dom = DOMAIN past
    BY <1>1, <2>3
  <2> QED BY <2>2, <2>4
<1>5. GoneOK(dom, acts, moment)
    BY <1>4 DEF GoneOK
<1> QED BY <1>5 DEF dom

LEMMA ForgettingRemembers ==
    ASSUME HistoryTypeOK, RememberInv, NEW t \in 1..moment, Comes(t),
           past' = KeptPast(t), saved' = t, acts' = acts, moment' = moment
    PROVE  RememberInv'
<1>1. t \in Nat \ {0} /\ moment \in Nat /\ t + Lateness >= moment /\ Lateness \in Nat
    BY HistoryTypes, HistoryNumbers DEF Comes
<1>2. ActsOK(acts', moment', saved')
  <2>1. ActsOK(acts, moment, saved)
    BY DEF RememberInv
  <2>2. \A i \in DOMAIN acts : acts[i].taken <= t + Lateness
    BY <1>1, <2>1, ActFields DEF ActsOK
  <2> QED BY <2>1, <2>2 DEF ActsOK
<1>3. GoneOK(DOMAIN past', acts', moment')
    BY KeptGone
<1>4. saved' # 0
    BY <1>1
<1> QED BY <1>2, <1>3, <1>4 DEF RememberInv

LEMMA StrikeRemembers ==
    ASSUME HistoryTypeOK, RememberInv, NEW t \in 1..moment, NEW kind \in Kinds, NEW ban \in BOOLEAN, Strike(t, kind, ban)
    PROVE  RememberInv'
<1> DEFINE id == Len(acts) + 1
<1>1. t \in Nat \ {0} /\ moment \in Nat /\ t + Lateness >= moment /\ Lateness \in Nat /\ moment' = moment /\ saved' = t
    BY HistoryTypes, HistoryNumbers DEF Comes, Strike
<1>2. /\ \A i \in DOMAIN acts : i \in Nat /\ acts[i].taken \in Nat /\ acts[i].ends \in Nat
      /\ DOMAIN acts = 1..Len(acts) /\ Len(acts) \in Nat
    BY ActFields
<1>3. /\ DOMAIN acts' = 1..id /\ \A i \in 1..Len(acts) : acts'[i] = acts[i]
      /\ acts'[id].taken = moment /\ acts'[id].ends \in Nat /\ acts'[id].ends >= moment
    BY StrikeFacts
<1>4. ActsOK(acts, moment, saved) /\ GoneOK(DOMAIN KeptPast(t), acts, moment)
    BY KeptGone DEF RememberInv
<1>5. \A i \in DOMAIN acts' : i = id \/ (i \in DOMAIN acts /\ acts'[i] = acts[i] /\ i < id)
    BY <1>2, <1>3
<1>6. /\ id \in DOMAIN past' /\ DOMAIN past' \subseteq DOMAIN KeptPast(t) \cup {id}
      /\ Cardinality(DOMAIN KeptPast(t)) = MaxPast => Cardinality(DOMAIN past') = MaxPast
      /\ \A i \in DOMAIN KeptPast(t) \ DOMAIN past' :
           Cardinality(DOMAIN past') = MaxPast /\ \A k \in DOMAIN past' : i < k
    BY StrikePast
<1>0. id \in Nat /\ id \notin DOMAIN acts
    BY <1>2
<1> HIDE DEF id
<1>7. ActsOK(acts', moment', saved')
  <2>1. ASSUME NEW i \in DOMAIN acts'
        PROVE  acts'[i].taken <= moment /\ acts'[i].taken <= acts'[i].ends /\ acts'[i].taken <= t + Lateness
               /\ acts'[i].taken \in Nat
    <3>1. CASE i = id
      BY <1>1, <1>3, <3>1
    <3>2. CASE i \in DOMAIN acts /\ acts'[i] = acts[i]
      <4>1. acts[i].taken \in Nat /\ acts[i].taken <= moment /\ acts[i].taken <= acts[i].ends
        BY <1>2, <1>4, <3>2 DEF ActsOK
      <4> QED BY <1>1, <3>2, <4>1
    <3> QED BY <1>5, <3>1, <3>2
  <2>2. ASSUME NEW i \in DOMAIN acts', NEW j \in DOMAIN acts', i < j
        PROVE  acts'[i].taken <= acts'[j].taken
    <3>1. CASE j = id
      BY <1>3, <2>1, <3>1
    <3>2. CASE j # id
      <4>1. j \in DOMAIN acts /\ acts'[j] = acts[j] /\ j < id /\ j \in Nat
        BY <1>2, <1>5, <3>2
      <4>2. i # id
        BY <1>0, <2>2, <4>1
      <4>3. i \in DOMAIN acts /\ acts'[i] = acts[i]
        BY <1>5, <4>2
      <4> QED BY <1>4, <2>2, <4>1, <4>3 DEF ActsOK
    <3> QED BY <3>1, <3>2
  <2> QED BY <1>1, <2>1, <2>2 DEF ActsOK
<1>8. GoneOK(DOMAIN past', acts', moment')
  <2> SUFFICES ASSUME NEW i \in DOMAIN acts', i \notin DOMAIN past'
               PROVE  \/ acts'[i].taken + Recidive + Lateness < moment
                      \/ Cardinality(DOMAIN past') = MaxPast /\ \A k \in DOMAIN past' : i < k
    BY <1>1 DEF GoneOK
  <2>1. i \in DOMAIN acts /\ acts'[i] = acts[i] /\ i < id
    BY <1>5, <1>6
  <2>2. CASE i \in DOMAIN KeptPast(t)
    BY <1>6, <2>2
  <2>3. CASE i \notin DOMAIN KeptPast(t)
    <3>1. CASE acts[i].taken + Recidive + Lateness < moment
      BY <2>1, <3>1
    <3>2. CASE Cardinality(DOMAIN KeptPast(t)) = MaxPast /\ \A k \in DOMAIN KeptPast(t) : i < k
      BY <1>6, <2>1, <3>2
    <3> QED BY <1>4, <2>1, <2>3, <3>1, <3>2 DEF GoneOK
  <2> QED BY <2>2, <2>3
<1> QED BY <1>1, <1>7, <1>8 DEF RememberInv

LEMMA OtherRemembers ==
    ASSUME HistoryTypeOK, RememberInv,
           \/ \E id \in 1..MaxActs : Leaves(id) \/ LiftAction(id) \/ NotCounted(id)
           \/ ForgetSource \/ PurgeSource \/ MomentPasses
    PROVE  RememberInv'
<1>0. /\ ActsOK(acts, moment, saved) /\ GoneOK(DOMAIN past, acts, moment)
      /\ saved = 0 => DOMAIN past = {} /\ episodes = << >>
      /\ moment \in Nat \ {0} /\ saved \in Nat
      /\ \A i \in DOMAIN acts : i \in Nat /\ acts[i].taken \in Nat /\ acts[i].ends \in Nat
    BY HistoryTypes, ActFields DEF RememberInv
<1>1. CASE \E id \in 1..MaxActs : Leaves(id)
    BY <1>0, <1>1 DEF Leaves, memoryVars, RememberInv
<1>2. ASSUME DOMAIN acts' = DOMAIN acts, DOMAIN past' = DOMAIN past, moment' = moment, episodes' = episodes, Saves,
             \A i \in DOMAIN acts : /\ acts'[i].taken = acts[i].taken
                                    /\ acts'[i].ends = acts[i].ends \/ acts'[i].ends = AtMostOf(acts[i].ends, moment)
      PROVE  RememberInv'
  <2>1. ASSUME NEW i \in DOMAIN acts'
        PROVE  acts'[i].taken <= moment /\ acts'[i].taken <= acts'[i].ends /\ acts'[i].taken <= moment + Lateness
    <3>1. acts[i].taken \in Nat /\ acts[i].ends \in Nat /\ acts[i].taken <= moment /\ acts[i].taken <= acts[i].ends
      BY <1>0, <1>2 DEF ActsOK
    <3>2. acts'[i].taken = acts[i].taken /\ acts'[i].ends \in {acts[i].ends, AtMostOf(acts[i].ends, moment)}
      BY <1>2
    <3>3. acts[i].taken <= AtMostOf(acts[i].ends, moment) /\ acts[i].taken <= moment + Lateness
      BY <1>0, <3>1, HistoryNumbers, SMTT(30) DEF AtMostOf
    <3> QED BY <3>1, <3>2, <3>3
  <2>2. ActsOK(acts', moment', saved')
    <3>1. saved' = 0 \/ saved' = moment
      BY <1>2 DEF Saves
    <3>2. \A i, j \in DOMAIN acts' : i < j => acts'[i].taken <= acts'[j].taken
      BY <1>0, <1>2 DEF ActsOK
    <3>3. moment' = moment
      BY <1>2
    <3> QED BY <2>1, <3>1, <3>2, <3>3 DEF ActsOK
  <2>3. GoneOK(DOMAIN past', acts', moment')
    <3>1. \A i \in DOMAIN acts : acts'[i].taken = acts[i].taken
      BY <1>2
    <3>2. moment' = moment /\ DOMAIN past' = DOMAIN past /\ DOMAIN acts' = DOMAIN acts
      BY <1>2
    <3> QED BY <1>0, <3>1, <3>2 DEF GoneOK
  <2> QED BY <1>0, <1>2, <2>2, <2>3 DEF RememberInv, Saves
<1>3. CASE \E id \in 1..MaxActs : LiftAction(id) \/ NotCounted(id)
  <2>1. PICK id \in 1..MaxActs : LiftAction(id) \/ NotCounted(id)
    BY <1>3
  <2>2. CASE LiftAction(id)
    <3>1. moment' = moment /\ episodes' = episodes /\ Saves
      BY <2>2 DEF LiftAction
    <3> QED BY <1>2, <2>2, <3>1, LiftFacts
  <2>3. CASE NotCounted(id)
    <3>1. moment' = moment /\ episodes' = episodes /\ Saves
      BY <2>3 DEF NotCounted
    <3> QED BY <1>2, <2>3, <3>1, NotCountedFacts
  <2> QED BY <2>1, <2>2, <2>3
<1>4. CASE ForgetSource
  <2>1. acts' = << >> /\ past' = << >> /\ episodes' = << >>
    BY <1>4 DEF ForgetSource, Forgotten
  <2>2. DOMAIN acts' = {} /\ DOMAIN past' = {}
    BY <2>1
  <2> QED BY <2>1, <2>2 DEF RememberInv, ActsOK, GoneOK
<1>5. CASE PurgeSource
  <2>1. past' = << >> /\ episodes' = << >> /\ saved' = 0 /\ acts' = acts /\ moment' = moment
    BY <1>5 DEF PurgeSource, Forgotten
  <2>2. DOMAIN past' = {}
    BY <2>1
  <2>3. ASSUME NEW i \in DOMAIN acts PROVE acts[i].taken + Recidive + Lateness < moment
    <3>1. saved # 0 /\ moment > saved + Retention
      BY <1>5 DEF PurgeSource
    <3>2. acts[i].taken \in Nat /\ acts[i].taken <= saved + Lateness
      BY <1>0, <3>1 DEF ActsOK
    <3> QED BY <1>0, <3>1, <3>2, HistoryNumbers
  <2>4. ActsOK(acts', moment', saved') /\ GoneOK(DOMAIN past', acts', moment')
    BY <1>0, <2>1, <2>3 DEF ActsOK, GoneOK
  <2> QED BY <2>1, <2>2, <2>4 DEF RememberInv
<1>6. CASE MomentPasses
  <2>1. moment' = moment + 1 /\ past' = past /\ episodes' = episodes /\ saved' = saved /\ acts' = acts
    BY <1>6 DEF MomentPasses, memoryVars
  <2>2. ActsOK(acts', moment', saved')
    BY <1>0, <2>1 DEF ActsOK
  <2>3. GoneOK(DOMAIN past', acts', moment')
    BY <1>0, <2>1, HistoryNumbers DEF GoneOK
  <2> QED BY <1>0, <2>1, <2>2, <2>3 DEF RememberInv
<1> QED BY <1>1, <1>3, <1>4, <1>5, <1>6

LEMMA RememberInit == HistoryInit => RememberInv
BY DEF HistoryInit, RememberInv, ActsOK, GoneOK

LEMMA RememberKept == HistoryTypeOK /\ RememberInv /\ [HistoryNext]_historyVars => RememberInv'
<1> SUFFICES ASSUME HistoryTypeOK, RememberInv, [HistoryNext]_historyVars PROVE RememberInv'
    OBVIOUS
<1>1. CASE UNCHANGED historyVars
    BY <1>1 DEF historyVars, memoryVars, RememberInv
<1>2. ASSUME NEW t \in 1..moment, NEW kind \in Kinds, Watch(t, kind) \/ Miss(t, kind)
      PROVE  RememberInv'
    BY <1>2, ForgettingRemembers DEF Watch, Miss
<1>3. ASSUME NEW t \in 1..moment, NEW kind \in Kinds, NEW ban \in BOOLEAN, Strike(t, kind, ban)
      PROVE  RememberInv'
    BY <1>3, StrikeRemembers
<1> QED BY <1>1, <1>2, <1>3, OtherRemembers DEF HistoryNext, Kinds

\* next_tier_index answers from what is remembered what it would answer from every action.
LEMMA TiersAnswer ==
    ASSUME HistoryTypeOK, RememberInv, MaxPast + 1 >= NotCounting + Len(BanTimes), NEW t \in 1..moment, Comes(t)
    PROVE  TierAt(past, t) = TierAt(acts, t)
<1> DEFINE dom == DOMAIN past
           near == {i \in dom : past[i].counts /\ past[i].taken + Recidive >= t}
           every == {i \in DOMAIN acts : acts[i].counts /\ acts[i].taken + Recidive >= t}
           not == {i \in dom : ~past[i].counts}
           low == Len(BanTimes)
<1>1. /\ \A i \in DOMAIN acts : i \in Nat /\ acts[i].taken \in Nat /\ acts[i].ends \in Nat
      /\ dom \subseteq DOMAIN acts /\ DOMAIN acts = 1..Len(acts) /\ Len(acts) \in Nat
      /\ \A i \in dom : past[i] = acts[i]
    BY ActFields
<1>2. moment \in Nat /\ t \in Nat /\ t + Lateness >= moment /\ low \in Nat /\ MaxPast \in Nat
    BY HistoryTypes, HistoryConstants DEF Comes
<1>3. near \in SUBSET every /\ every \in SUBSET (1..Len(acts)) /\ dom \in SUBSET (1..Len(acts))
    BY <1>1
<1>4. IsFiniteSet(every) /\ IsFiniteSet(dom) /\ Cardinality(every) \in Nat
    BY <1>1, <1>3, RankFacts
<1>5. IsFiniteSet(near) /\ Cardinality(near) \in Nat /\ Cardinality(near) <= Cardinality(every)
    BY <1>3, <1>4, FS_Subset, FS_CardinalityType
<1>6. TierAt(past, t) = AtMostOf(1 + Cardinality(near), low) /\ TierAt(acts, t) = AtMostOf(1 + Cardinality(every), low)
    BY DEF TierAt
<1>7. CASE every \subseteq near
    BY <1>3, <1>6, <1>7
<1>8. CASE ~(every \subseteq near)
  <2>1. PICK i \in every : i \notin near
    BY <1>8
  <2>2. i \in DOMAIN acts /\ i \notin dom /\ acts[i].taken + Recidive >= t /\ acts[i].taken \in Nat
    BY <1>1, <2>1
  <2>3. ~(acts[i].taken + Recidive + Lateness < moment)
    BY <1>2, <2>2, HistoryNumbers
  <2>4. Cardinality(dom) = MaxPast /\ \A k \in dom : i < k
    BY <2>2, <2>3 DEF RememberInv, GoneOK
  <2>5. \A k \in dom : past[k].taken + Recidive >= t
    <3> SUFFICES ASSUME NEW k \in dom PROVE past[k].taken + Recidive >= t
      OBVIOUS
    <3>1. k \in DOMAIN acts /\ i < k /\ past[k].taken = acts[k].taken
      BY <1>1, <2>4
    <3>2. acts[i].taken <= acts[k].taken /\ acts[k].taken \in Nat
      BY <1>1, <2>2, <3>1 DEF RememberInv, ActsOK
    <3> QED BY <1>2, <2>2, <3>1, <3>2, HistoryNumbers
  <2>6. near = dom \ not
    BY <2>5
  <2>7. not \in SUBSET dom
    OBVIOUS
  <2>8. NotCounting = Cardinality(not)
    BY DEF NotCounting
  <2> HIDE DEF near, every, not, dom, low
  <2>9. IsFiniteSet(not) /\ Cardinality(not) \in Nat
    BY <1>4, <2>7, FS_Subset, FS_CardinalityType
  <2>10. dom \cap not = not
    BY <2>7
  <2>11. Cardinality(near) = MaxPast - Cardinality(not)
    BY <1>4, <2>4, <2>6, <2>10, FS_Difference
  <2>12. MaxPast + 1 >= Cardinality(not) + low
    BY <2>8 DEF low
  <2> QED BY <1>2, <1>4, <1>5, <1>6, <2>9, <2>11, <2>12 DEF AtMostOf
<1> QED BY <1>7, <1>8

-----------------------------------------------------------------------------
(* The episodes: those that left the memory are out of the window, or older *)
(* than everything in a memory that is full.                                *)

OrderOK(tr, m, sv) ==
    /\ tr.seen <= m /\ tr.latest <= tr.seen /\ (sv # 0 => tr.seen <= sv)
    /\ tr.starts = << >> <=> tr.latest = 0
    /\ \A i \in DOMAIN tr.starts : tr.starts[i] <= tr.latest
    /\ \A i, j \in DOMAIN tr.starts : i < j => tr.starts[i] <= tr.starts[j]

\* An episode in the memory is the episode of the truth it is linked to; the last ones are the same.
LinkOf(g, eps, starts, latest, newest, m) ==
    /\ \A j, k \in 1..Len(eps) : j < k => g[j] < g[k]
    /\ \A k \in 1..Len(eps) : eps[k].start = starts[g[k]] /\ eps[k].start <= eps[k].last /\ eps[k].last <= latest
    /\ eps # << >> => g[Len(eps)] = Len(starts) /\ Final(eps).last = latest
    /\ \A i \in 1..Len(starts) :
        \/ \E k \in 1..Len(eps) : g[k] = i
        \/ starts[i] + Within < newest \/ starts[i] + Within + Lateness < m
        \/ Len(eps) = MaxEpisodes /\ \A k \in 1..Len(eps) : i < g[k]
LinkOK(eps, starts, latest, newest, m) ==
    \E g \in [1..Len(eps) -> 1..Len(starts)] : LinkOf(g, eps, starts, latest, newest, m)

\* The silence after the last activity is longer than the gap for every event to come.
Stale(tr, m) == tr.latest + Gap < tr.seen \/ tr.latest + Gap + Lateness < m

DecidedOK(eps, dom, tr, ac, m) ==
    /\ tr.decided <= 1 /\ (tr.acted => tr.decided = 1)
    /\ eps = << >> => tr.latest = 0 \/ Stale(tr, m)
    /\ eps # << >> => /\ tr.decided = 1 => Final(eps).acted
                      /\ Final(eps).acted /\ ~tr.acted => dom = {}
    /\ tr.acted => \E i \in DOMAIN ac : tr.latest <= ac[i].ends

EndsOK(dom, tr, ac, m) ==
    \A i \in DOMAIN ac \ dom :
        /\ ac[i].ends <= m
        /\ \/ ac[i].ends + Retention < tr.seen
           \/ \E k \in dom : ac[i].ends <= ac[k].ends
           \/ ~tr.acted
           \/ Stale(tr, m)

EpisodesOK(eps, dom, tr, ac, m, sv) ==
    /\ OrderOK(tr, m, sv) /\ LinkOK(eps, tr.starts, tr.latest, tr.seen, m)
    /\ DecidedOK(eps, dom, tr, ac, m) /\ EndsOK(dom, tr, ac, m)

StraightInv == ~astray => EpisodesOK(episodes, DOMAIN past, truth, acts, moment, saved)

LEMMA EpisodeFields ==
    ASSUME HistoryTypeOK
    PROVE  /\ truth.starts \in Seq(Nat) /\ Len(truth.starts) \in Nat /\ truth.latest \in Nat /\ truth.seen \in Nat
           /\ truth.acted \in BOOLEAN /\ truth.decided \in 0..2
           /\ DOMAIN truth.starts = 1..Len(truth.starts) /\ \A i \in 1..Len(truth.starts) : truth.starts[i] \in Nat
           /\ Len(episodes) \in Nat /\ Len(episodes) <= MaxEpisodes /\ DOMAIN episodes = 1..Len(episodes)
           /\ \A k \in 1..Len(episodes) : /\ episodes[k].start \in Nat /\ episodes[k].last \in Nat
                                          /\ episodes[k].acted \in BOOLEAN
<1>1. truth \in Known /\ episodes \in Seq(Episode) /\ Len(episodes) <= MaxEpisodes
    BY HistoryTypes
<1>2. /\ truth.starts \in Seq(Nat) /\ truth.latest \in Nat /\ truth.seen \in Nat
      /\ truth.acted \in BOOLEAN /\ truth.decided \in 0..2
    BY <1>1 DEF Known
<1>3. \A k \in 1..Len(episodes) : episodes[k] \in Episode
    BY <1>1
<1>4. \A k \in 1..Len(episodes) : /\ episodes[k].start \in Nat /\ episodes[k].last \in Nat
                                  /\ episodes[k].acted \in BOOLEAN
    BY <1>3 DEF Episode
<1>5. Len(episodes) \in Nat /\ DOMAIN episodes = 1..Len(episodes)
    BY <1>1
<1>6. Len(truth.starts) \in Nat /\ DOMAIN truth.starts = 1..Len(truth.starts) /\ \A i \in 1..Len(truth.starts) : truth.starts[i] \in Nat
    BY <1>2
<1> QED BY <1>1, <1>2, <1>4, <1>5, <1>6

\* episodes_since answers from what is remembered what it would answer from every episode, up to the bound.
LEMMA EpisodesAnswer ==
    ASSUME HistoryTypeOK, EpisodesOK(episodes, DOMAIN past, truth, acts, moment, saved),
           NEW t \in Nat, t >= truth.seen, Comes(t)
    PROVE  CountSince(EpisodeStarts, t) = AtMostOf(CountSince(truth.starts, t), MaxEpisodes)
<1> DEFINE n == Len(episodes)
           starts == truth.starts
           near == {k \in 1..n : episodes[k].start + Within >= t}
           every == {i \in 1..Len(starts) : starts[i] + Within >= t}
<1>1. /\ starts \in Seq(Nat) /\ Len(starts) \in Nat /\ DOMAIN starts = 1..Len(starts) /\ truth.seen \in Nat
      /\ \A i \in 1..Len(starts) : starts[i] \in Nat
      /\ n \in Nat /\ n <= MaxEpisodes /\ DOMAIN episodes = 1..n
      /\ \A k \in 1..n : episodes[k].start \in Nat
      /\ moment \in Nat /\ t + Lateness >= moment /\ Lateness \in Nat /\ Within \in Nat /\ MaxEpisodes \in Nat
    BY EpisodeFields, HistoryTypes, HistoryNumbers DEF Comes
<1>2. PICK g \in [1..n -> 1..Len(starts)] : LinkOf(g, episodes, starts, truth.latest, truth.seen, moment)
    BY DEF EpisodesOK, LinkOK
<1>3. \A i, j \in 1..Len(starts) : i < j => starts[i] <= starts[j]
    BY <1>1 DEF EpisodesOK, OrderOK
<1>4. CountSince(EpisodeStarts, t) = Cardinality(near) /\ CountSince(starts, t) = Cardinality(every)
    BY <1>1 DEF CountSince, EpisodeStarts
<1>5. near \in SUBSET (1..n) /\ every \in SUBSET (1..Len(starts))
    OBVIOUS
<1>6. IsFiniteSet(near) /\ Cardinality(near) \in 0..n /\ IsFiniteSet(every) /\ Cardinality(every) \in Nat
  <2>1. n \in Nat /\ Len(starts) \in Nat
    BY <1>1
  <2> HIDE DEF near, every, n
  <2>2. IsFiniteSet(near) /\ Cardinality(near) \in 0..n
    BY <1>5, <2>1, RankFacts
  <2>3. IsFiniteSet(every) /\ Cardinality(every) \in 0..Len(starts)
    BY <1>5, <2>1, RankFacts
  <2> QED BY <2>1, <2>2, <2>3
<1> DEFINE h == [k \in near |-> g[k]]
<1>7. \A k \in near : g[k] \in every
  <2> SUFFICES ASSUME NEW k \in near PROVE g[k] \in every
    OBVIOUS
  <2>1. k \in 1..n /\ g[k] \in 1..Len(starts) /\ episodes[k].start + Within >= t
    OBVIOUS
  <2>2. episodes[k].start = starts[g[k]]
    BY <1>2, <2>1 DEF LinkOf
  <2> QED BY <2>1, <2>2
<1>8. \A j, k \in near : g[j] = g[k] => j = k
  <2> SUFFICES ASSUME NEW j \in near, NEW k \in near, g[j] = g[k] PROVE j = k
    OBVIOUS
  <2>1. j \in 1..n /\ k \in 1..n
    BY <1>5
  <2>2. j \in Int /\ k \in Int /\ g[j] \in 1..Len(starts) /\ g[k] \in 1..Len(starts)
    BY <2>1
  <2>3. g[j] \in Int /\ g[k] \in Int
    BY <2>2
  <2>4. (j < k => g[j] < g[k]) /\ (k < j => g[k] < g[j])
    BY <1>2, <2>1 DEF LinkOf
  <2> HIDE DEF near, every, n
  <2> QED BY <2>2, <2>3, <2>4
<1> HIDE DEF near, every
<1>9. h \in Injection(near, every)
    BY <1>7, <1>8 DEF Injection, IsInjective
<1>10. /\ Cardinality(near) <= Cardinality(every)
       /\ Cardinality(near) = Cardinality(every) <=> h \in Surjection(near, every)
    BY <1>6, <1>9, FS_Injection
<1>11. CASE \A i \in every : \E k \in near : g[k] = i
  <2>1. h \in Surjection(near, every)
    BY <1>7, <1>11 DEF Surjection
  <2> QED BY <1>1, <1>4, <1>6, <1>10, <2>1 DEF AtMostOf
<1>12. ASSUME NEW i \in every, \A k \in near : g[k] # i
       PROVE  CountSince(EpisodeStarts, t) = AtMostOf(CountSince(starts, t), MaxEpisodes)
  <2>1. i \in 1..Len(starts) /\ starts[i] \in Nat /\ starts[i] + Within >= t
    BY <1>1 DEF every
  <2>2. ~(starts[i] + Within < truth.seen) /\ ~(starts[i] + Within + Lateness < moment)
    <3>1. /\ Within \in Nat /\ Lateness \in Nat /\ truth.seen \in Nat /\ moment \in Nat
          /\ t >= truth.seen /\ t + Lateness >= moment
      BY <1>1
    <3> QED BY <2>1, <3>1
  <2>3. ASSUME NEW k \in 1..n PROVE g[k] # i
    <3> SUFFICES ASSUME g[k] = i PROVE FALSE
      OBVIOUS
    <3>1. episodes[k].start = starts[i]
      BY <1>2 DEF LinkOf
    <3>2. k \in near
      BY <2>1, <3>1 DEF near
    <3> QED BY <1>12, <3>2
  <2>4. n = MaxEpisodes /\ \A k \in 1..n : i < g[k]
    BY <1>2, <2>1, <2>2, <2>3 DEF LinkOf
  <2>5. ASSUME NEW k \in 1..n PROVE k \in near
    <3>1. g[k] \in 1..Len(starts) /\ i < g[k] /\ episodes[k].start = starts[g[k]]
      BY <1>2, <2>4 DEF LinkOf
    <3>2. starts[i] <= episodes[k].start /\ episodes[k].start \in Nat
      BY <1>1, <1>3, <2>1, <3>1
    <3>3. Within \in Nat /\ starts[i] \in Nat /\ starts[i] + Within >= t
      BY <1>1, <2>1
    <3>4. episodes[k].start + Within >= t
      BY <3>2, <3>3
    <3> QED BY <3>4 DEF near
  <2>6. near = 1..n
    BY <1>5, <2>5
  <2>7. Cardinality(near) = MaxEpisodes
    <3>1. n \in Nat /\ n = MaxEpisodes
      BY <1>1, <2>4
    <3>2. Cardinality(1..n) = n
      BY <3>1, FS_Interval
    <3> QED BY <2>6, <3>1, <3>2
  <2> QED BY <1>4, <1>6, <1>10, <2>7 DEF AtMostOf
<1> QED BY <1>11, <1>12

\* forget_before drops no episode that could still count, and the last one only after a long silence.
LEMMA ForgettingLinks ==
    ASSUME HistoryTypeOK, EpisodesOK(episodes, DOMAIN past, truth, acts, moment, saved),
           NEW t \in 1..moment, t >= truth.seen, Comes(t)
    PROVE  LET eps == KeptEpisodes(t) IN
           /\ LinkOK(eps, truth.starts, truth.latest, t, moment)
           /\ eps = << >> => truth.latest = 0 \/ truth.latest + Gap < t
           /\ eps # << >> => /\ episodes # << >> /\ Final(eps) = Final(episodes) /\ Final(eps).last = truth.latest
                             /\ truth.latest + Retention >= t /\ truth.latest # 0
<1> DEFINE n == Len(episodes)
           starts == truth.starts
           latest == truth.latest
           eps == KeptEpisodes(t)
<1>1. /\ starts \in Seq(Nat) /\ Len(starts) \in Nat /\ DOMAIN starts = 1..Len(starts)
      /\ \A i \in 1..Len(starts) : starts[i] \in Nat
      /\ n \in Nat /\ n <= MaxEpisodes /\ DOMAIN episodes = 1..n
      /\ \A k \in 1..n : episodes[k].start \in Nat /\ episodes[k].last \in Nat
    BY EpisodeFields
<1>2. /\ moment \in Nat /\ t \in Nat \ {0} /\ t + Lateness >= moment /\ truth.seen \in Nat /\ latest \in Nat
      /\ Lateness \in Nat /\ Within \in Nat /\ Gap \in Nat /\ Retention \in Nat /\ MaxEpisodes \in Nat \ {0}
      /\ Retention >= Within + Lateness /\ Retention >= Gap + Lateness
    BY EpisodeFields, HistoryTypes, HistoryNumbers DEF Comes
<1>3. PICK g \in [1..n -> 1..Len(starts)] : LinkOf(g, episodes, starts, latest, truth.seen, moment)
    BY DEF EpisodesOK, LinkOK
<1>4. /\ \A j, k \in 1..n : j < k => g[j] < g[k]
      /\ \A k \in 1..n : episodes[k].start = starts[g[k]] /\ episodes[k].start <= episodes[k].last /\ episodes[k].last <= latest
      /\ episodes # << >> => g[n] = Len(starts) /\ Final(episodes).last = latest
      /\ \A i \in 1..Len(starts) :
            \/ \E k \in 1..n : g[k] = i
            \/ starts[i] + Within < truth.seen \/ starts[i] + Within + Lateness < moment
            \/ n = MaxEpisodes /\ \A k \in 1..n : i < g[k]
    BY <1>3 DEF LinkOf
<1>5. /\ eps \in Seq(Episode) /\ Len(eps) <= n
      /\ (\A i \in 1..n : episodes[i].last + Retention >= t) => Len(eps) = n
    BY <1>2, KeptEpisodesFacts
<1>6. PICK f \in [1..Len(eps) -> 1..n] :
        /\ \A j, k \in 1..Len(eps) : j < k => f[j] < f[k]
        /\ \A j \in 1..Len(eps) : eps[j] = episodes[f[j]] /\ eps[j].last + Retention >= t
        /\ \A i \in 1..n : (\E j \in 1..Len(eps) : f[j] = i) \/ episodes[i].last + Retention < t
    BY <1>2, KeptEpisodesFacts
<1>7. \A i, j \in 1..Len(starts) : i < j => starts[i] <= starts[j]
    BY <1>1 DEF EpisodesOK, OrderOK
<1>8. Len(eps) \in Nat /\ (eps # << >> <=> Len(eps) # 0) /\ (episodes # << >> <=> n # 0)
    BY <1>1, <1>5
<1> HIDE DEF eps, n, starts, latest
<1>9. ASSUME eps # << >>
      PROVE  /\ episodes # << >> /\ Final(eps) = Final(episodes) /\ Final(eps).last = latest /\ f[Len(eps)] = n
             /\ latest + Retention >= t
  <2>1. n # 0 /\ n \in 1..n /\ Len(eps) \in 1..Len(eps) /\ Len(eps) \in Nat \ {0}
    BY <1>1, <1>5, <1>8, <1>9
  <2>2. f[Len(eps)] \in 1..n /\ eps[Len(eps)] = episodes[f[Len(eps)]] /\ eps[Len(eps)].last + Retention >= t
    BY <1>6, <2>1
  <2>3. episodes[f[Len(eps)]].last <= latest /\ episodes[f[Len(eps)]].last \in Nat
    BY <1>1, <1>4, <2>2
  <2>4. latest + Retention >= t
    <3> DEFINE l == episodes[f[Len(eps)]].last
    <3>1. l \in Nat /\ l <= latest /\ l + Retention >= t
      BY <2>2, <2>3
    <3> HIDE DEF l
    <3> QED BY <1>2, <3>1
  <2>5. episodes[n].last = latest
    BY <1>4, <1>8, <2>1 DEF Final, n
  <2>6. PICK j \in 1..Len(eps) : f[j] = n
    <3>1. ~(episodes[n].last + Retention < t)
      BY <1>2, <2>4, <2>5
    <3> QED BY <1>6, <2>1, <3>1
  <2>7. f[j] <= f[Len(eps)]
    <3>1. 1..n \in SUBSET Nat
      BY <1>1
    <3> QED BY <1>6, <2>1, <3>1, LastIsGreatest
  <2>8. f[Len(eps)] = n
    BY <1>1, <2>2, <2>6, <2>7
  <2> QED BY <1>8, <2>1, <2>2, <2>4, <2>5, <2>8 DEF Final, n
<1>10. eps = << >> => latest = 0 \/ latest + Gap < t
  <2> SUFFICES ASSUME eps = << >> PROVE latest = 0 \/ latest + Gap < t
    OBVIOUS
  <2>1. CASE episodes = << >>
    <3>1. latest = 0 \/ latest + Gap < truth.seen \/ latest + Gap + Lateness < moment
      BY <2>1 DEF EpisodesOK, DecidedOK, Stale, latest
    <3> QED BY <1>2, <3>1
  <2>2. CASE episodes # << >>
    <3>1. n \in 1..n /\ episodes[n].last = latest
      BY <1>1, <1>4, <1>8, <2>2 DEF Final, n
    <3>2. episodes[n].last + Retention < t
      BY <1>6, <1>8, <3>1
    <3> QED BY <1>2, <3>1, <3>2
  <2> QED BY <2>1, <2>2
<1>11. eps # << >> => latest # 0
  <2> SUFFICES ASSUME eps # << >>, latest = 0 PROVE FALSE
    OBVIOUS
  <2>1. n \in 1..n
    BY <1>1, <1>8, <1>9
  <2>2. g[n] \in 1..Len(starts)
    BY <2>1
  <2>3. starts = << >>
    BY DEF EpisodesOK, OrderOK, starts, latest
  <2> QED BY <2>2, <2>3
<1> DEFINE h == [j \in 1..Len(eps) |-> g[f[j]]]
<1>12. h \in [1..Len(eps) -> 1..Len(starts)]
    OBVIOUS
<1>13. LinkOf(h, eps, starts, latest, t, moment)
  <2>1. ASSUME NEW j \in 1..Len(eps), NEW k \in 1..Len(eps), j < k PROVE h[j] < h[k]
    <3>1. f[j] < f[k] /\ f[j] \in 1..n /\ f[k] \in 1..n
      BY <1>6, <2>1
    <3>2. g[f[j]] < g[f[k]]
      BY <1>4, <3>1
    <3> QED BY <3>2
  <2>2. ASSUME NEW k \in 1..Len(eps)
        PROVE  eps[k].start = starts[h[k]] /\ eps[k].start <= eps[k].last /\ eps[k].last <= latest
    <3>1. f[k] \in 1..n /\ eps[k] = episodes[f[k]] /\ h[k] = g[f[k]]
      BY <1>6
    <3>2. /\ episodes[f[k]].start = starts[g[f[k]]] /\ episodes[f[k]].start <= episodes[f[k]].last
          /\ episodes[f[k]].last <= latest
      BY <1>4, <3>1
    <3> QED BY <3>1, <3>2
  <2>3. ASSUME eps # << >> PROVE h[Len(eps)] = Len(starts) /\ Final(eps).last = latest
    <3>1. Len(eps) \in 1..Len(eps)
      BY <1>8, <2>3
    <3> QED BY <1>4, <1>9, <2>3, <3>1
  <2>4. ASSUME NEW i \in 1..Len(starts)
        PROVE  \/ \E k \in 1..Len(eps) : h[k] = i
               \/ starts[i] + Within < t \/ starts[i] + Within + Lateness < moment
               \/ Len(eps) = MaxEpisodes /\ \A k \in 1..Len(eps) : i < h[k]
    <3>0. starts[i] \in Nat
      BY <1>1
    <3>9. ASSUME NEW k \in 1..n, episodes[k].last + Retention < t, starts[i] <= episodes[k].start
          PROVE  starts[i] + Within < t
      <4>1. episodes[k].start <= episodes[k].last /\ episodes[k].start \in Nat /\ episodes[k].last \in Nat
        BY <1>1, <1>4
      <4>2. Within \in Nat /\ Retention \in Nat /\ Lateness \in Nat /\ Retention >= Within + Lateness
        BY <1>2
      <4> DEFINE first == episodes[k].start
                 end == episodes[k].last
                 mine == starts[i]
      <4>3. first \in Nat /\ end \in Nat /\ mine \in Nat /\ first <= end /\ end + Retention < t /\ mine <= first
        BY <3>0, <3>9, <4>1
      <4> HIDE DEF first, end, mine
      <4>4. mine + Within < t
        BY <4>2, <4>3
      <4> QED BY <4>4 DEF mine
    <3>1. CASE \E k \in 1..n : g[k] = i
      <4>1. PICK k \in 1..n : g[k] = i
        BY <3>1
      <4>2. CASE \E j \in 1..Len(eps) : f[j] = k
        BY <4>1, <4>2
      <4>3. CASE episodes[k].last + Retention < t
        <5>1. starts[i] <= episodes[k].start
          BY <1>4, <3>0, <4>1
        <5> QED BY <3>9, <4>3, <5>1
      <4> QED BY <1>6, <4>2, <4>3
    <3>2. CASE starts[i] + Within < truth.seen \/ starts[i] + Within + Lateness < moment
      BY <1>2, <3>0, <3>2
    <3>3. CASE n = MaxEpisodes /\ \A k \in 1..n : i < g[k]
      <4>1. CASE \A k \in 1..n : episodes[k].last + Retention >= t
        BY <1>5, <3>3, <4>1
      <4>2. ASSUME NEW k \in 1..n, ~(episodes[k].last + Retention >= t)
            PROVE  starts[i] + Within < t
        <5>1. starts[i] <= starts[g[k]] /\ episodes[k].start = starts[g[k]]
          BY <1>4, <1>7, <3>3
        <5>2. episodes[k].last + Retention < t
          <6>1. episodes[k].last \in Nat /\ Retention \in Nat /\ t \in Nat
            BY <1>1, <1>2
          <6> QED BY <4>2, <6>1
        <5> QED BY <3>9, <5>1, <5>2
      <4> QED BY <4>1, <4>2
    <3> QED BY <1>4, <3>1, <3>2, <3>3
  <2> HIDE DEF h
  <2> QED BY <2>1, <2>2, <2>3, <2>4 DEF LinkOf
<1>14. LinkOK(eps, starts, latest, t, moment)
    BY <1>12, <1>13 DEF LinkOK
<1> QED BY <1>9, <1>10, <1>11, <1>14 DEF eps, starts, latest

\* The actions that are not in the memory after forget_before.
LEMMA ForgettingEnds ==
    ASSUME HistoryTypeOK, EpisodesOK(episodes, DOMAIN past, truth, acts, moment, saved),
           NEW t \in 1..moment, t >= truth.seen, Comes(t)
    PROVE  \A i \in DOMAIN acts \ DOMAIN KeptPast(t) :
            /\ acts[i].ends <= moment
            /\ \/ acts[i].ends + Retention < t
               \/ \E k \in DOMAIN KeptPast(t) : acts[i].ends <= acts[k].ends
               \/ ~truth.acted
               \/ truth.latest + Gap < t
<1> DEFINE dom == DOMAIN KeptPast(t)
<1>1. /\ \A i \in DOMAIN acts : acts[i].ends \in Nat
      /\ dom \subseteq DOMAIN past /\ DOMAIN past \subseteq DOMAIN acts
      /\ t \in Nat /\ moment \in Nat /\ t <= moment /\ t + Lateness >= moment
      /\ Retention \in Nat /\ Lateness \in Nat /\ Gap \in Nat /\ truth.seen \in Nat /\ truth.latest \in Nat
      /\ \A i \in DOMAIN past \ dom : acts[i].ends + Retention < t
  <2>1. t \in Nat /\ moment \in Nat /\ t <= moment /\ t + Lateness >= moment
    BY HistoryTypes DEF Comes
  <2>2. \A i \in DOMAIN acts : acts[i].ends \in Nat
    BY ActFields
  <2>3. DOMAIN past \subseteq DOMAIN acts
    BY ActFields
  <2>4. /\ dom \subseteq DOMAIN past /\ \A i \in DOMAIN past \ dom : acts[i].ends + Retention < t
    BY <2>1, KeptPastFacts
  <2>5. Retention \in Nat /\ Lateness \in Nat /\ Gap \in Nat /\ truth.seen \in Nat /\ truth.latest \in Nat
    BY HistoryNumbers, EpisodeFields
  <2> QED BY <2>1, <2>2, <2>3, <2>4, <2>5
<1>2. EndsOK(DOMAIN past, truth, acts, moment)
    BY DEF EpisodesOK
<1> HIDE DEF dom
<1>3. ASSUME NEW i \in DOMAIN acts \ dom
      PROVE  /\ acts[i].ends <= moment
             /\ \/ acts[i].ends + Retention < t
                \/ \E k \in dom : acts[i].ends <= acts[k].ends
                \/ ~truth.acted
                \/ truth.latest + Gap < t
  <2>0. acts[i].ends \in Nat
    BY <1>1
  <2>1. CASE i \in DOMAIN past
    <3>1. acts[i].ends + Retention < t
      BY <1>1, <2>1
    <3> QED BY <1>1, <2>0, <3>1
  <2>2. CASE i \notin DOMAIN past
    <3>1. acts[i].ends <= moment
      BY <1>2, <2>2 DEF EndsOK
    <3>2. CASE acts[i].ends + Retention < truth.seen
      BY <1>1, <2>0, <3>1, <3>2
    <3>3. CASE \E k \in DOMAIN past : acts[i].ends <= acts[k].ends
      <4>1. PICK k \in DOMAIN past : acts[i].ends <= acts[k].ends
        BY <3>3
      <4>2. CASE k \in dom
        BY <3>1, <4>1, <4>2
      <4>3. CASE k \notin dom
        <5>1. acts[k].ends + Retention < t /\ acts[k].ends \in Nat
          BY <1>1, <4>3
        <5> QED BY <1>1, <2>0, <3>1, <4>1, <5>1
      <4> QED BY <4>2, <4>3
    <3>4. CASE ~truth.acted
      BY <3>1, <3>4
    <3>5. CASE Stale(truth, moment)
      <4>1. truth.latest + Gap < t
        BY <1>1, <3>5 DEF Stale
      <4> QED BY <3>1, <4>1
    <3> QED BY <1>2, <2>2, <3>2, <3>3, <3>4, <3>5 DEF EndsOK
  <2> QED BY <2>1, <2>2
<1> QED BY <1>3 DEF dom

\* apply_event begins a new episode where the definition begins one.
LEMMA SameNovelty ==
    ASSUME HistoryTypeOK, EpisodesOK(episodes, DOMAIN past, truth, acts, moment, saved),
           NEW t \in 1..moment, t >= truth.seen, Comes(t)
    PROVE  NewEpisode(t) <=> TrulyNew(t)
<1> DEFINE eps == KeptEpisodes(t)
           kept == KeptPast(t)
           latest == truth.latest
<1>1. /\ \A i \in DOMAIN acts : acts[i].ends \in Nat
      /\ DOMAIN kept \subseteq DOMAIN past /\ DOMAIN past \subseteq DOMAIN acts
      /\ \A i \in DOMAIN kept : kept[i] = acts[i]
      /\ t \in Nat /\ Retention \in Nat /\ Gap \in Nat /\ latest \in Nat
    BY HistoryTypes, HistoryNumbers, ActFields, EpisodeFields, KeptPastFacts DEF SameActs
<1>2. /\ eps = << >> => latest = 0 \/ latest + Gap < t
      /\ eps # << >> => /\ episodes # << >> /\ Final(eps) = Final(episodes) /\ Final(eps).last = latest
                        /\ latest + Retention >= t /\ latest # 0
    BY ForgettingLinks
<1>3. \A i \in DOMAIN acts \ DOMAIN kept :
        \/ acts[i].ends + Retention < t
        \/ \E k \in DOMAIN kept : acts[i].ends <= acts[k].ends
        \/ ~truth.acted
        \/ latest + Gap < t
    BY ForgettingEnds
<1>4. /\ truth.acted => truth.decided = 1
      /\ episodes # << >> => /\ truth.decided = 1 => Final(episodes).acted
                             /\ Final(episodes).acted /\ ~truth.acted => DOMAIN past = {}
      /\ truth.acted => \E i \in DOMAIN acts : latest <= acts[i].ends
    BY DEF EpisodesOK, DecidedOK
<1>5. NewEpisode(t) <=> \/ eps = << >>
                        \/ t > Final(eps).last + Gap
                        \/ Final(eps).acted /\ DOMAIN kept # {} /\ \A i \in DOMAIN kept : t >= kept[i].ends
    BY DEF NewEpisode
<1>6. TrulyNew(t) <=> \/ latest = 0 \/ t > latest + Gap
                      \/ truth.acted /\ \A i \in DOMAIN acts : t >= acts[i].ends
    BY DEF TrulyNew
<1> HIDE DEF eps, kept, latest
<1>7. CASE eps = << >>
    BY <1>1, <1>2, <1>5, <1>6, <1>7
<1>8. CASE eps # << >> /\ latest + Gap < t
    BY <1>1, <1>2, <1>5, <1>6, <1>8
<1>9. CASE eps # << >> /\ ~(latest + Gap < t)
  <2>1. ASSUME Final(eps).acted, DOMAIN kept # {}, \A i \in DOMAIN kept : t >= kept[i].ends
        PROVE  truth.acted /\ \A i \in DOMAIN acts : t >= acts[i].ends
    <3>1. truth.acted
      BY <1>1, <1>2, <1>4, <1>9, <2>1
    <3>2. \A i \in DOMAIN kept : t >= acts[i].ends
      BY <1>1, <2>1
    <3>3. ASSUME NEW i \in DOMAIN acts, i \notin DOMAIN kept PROVE t >= acts[i].ends
      <4>0. acts[i].ends \in Nat
        BY <1>1
      <4>1. CASE acts[i].ends + Retention < t
        BY <1>1, <4>0, <4>1
      <4>2. CASE \E k \in DOMAIN kept : acts[i].ends <= acts[k].ends
        <5>1. PICK k \in DOMAIN kept : acts[i].ends <= acts[k].ends
          BY <4>2
        <5>2. t >= acts[k].ends /\ acts[k].ends \in Nat
          BY <1>1, <3>2
        <5> QED BY <1>1, <4>0, <5>1, <5>2
      <4> QED BY <1>3, <1>9, <3>1, <3>3, <4>1, <4>2
    <3> QED BY <3>1, <3>2, <3>3
  <2>2. ASSUME truth.acted, \A i \in DOMAIN acts : t >= acts[i].ends
        PROVE  Final(eps).acted /\ DOMAIN kept # {} /\ \A i \in DOMAIN kept : t >= kept[i].ends
    <3>1. Final(eps).acted
      BY <1>2, <1>4, <1>9, <2>2
    <3>2. \A i \in DOMAIN kept : t >= kept[i].ends
      BY <1>1, <2>2
    <3>3. PICK i \in DOMAIN acts : latest <= acts[i].ends
      BY <1>4, <2>2
    <3>4. ~(acts[i].ends + Retention < t)
      <4>1. acts[i].ends \in Nat /\ latest + Retention >= t
        BY <1>1, <1>2, <1>9
      <4> QED BY <1>1, <3>3, <4>1
    <3>5. i \in DOMAIN kept \/ \E k \in DOMAIN kept : acts[i].ends <= acts[k].ends
      BY <1>3, <1>9, <2>2, <3>4
    <3> QED BY <3>1, <3>2, <3>5
  <2>3. ~(t > latest + Gap) /\ ~(t > Final(eps).last + Gap) /\ latest # 0
    BY <1>1, <1>2, <1>9
  <2> QED BY <1>5, <1>6, <1>9, <2>1, <2>2, <2>3
<1> QED BY <1>7, <1>8, <1>9

\* A new episode in the memory and in the truth.
LEMMA LinkAppended ==
    ASSUME NEW eps \in Seq(Episode), Len(eps) <= MaxEpisodes, NEW starts \in Seq(Nat), NEW t \in Nat, NEW m \in Nat,
           NEW latest \in Nat, latest <= t, LinkOK(eps, starts, latest, t, m)
    PROVE  LET after == Newest(Append(eps, [start |-> t, last |-> t, acted |-> FALSE]), MaxEpisodes) IN
           LinkOK(after, Append(starts, t), t, t, m) /\ after # << >> /\ Final(after).acted = FALSE
<1> DEFINE new == [start |-> t, last |-> t, acted |-> FALSE]
           list == Append(eps, new)
           after == Newest(list, MaxEpisodes)
           all == Append(starts, t)
           n == Len(eps)
           s == Len(starts)
<1>1. new \in Episode /\ new.start = t /\ new.last = t /\ new.acted = FALSE
    BY DEF Episode
<1> HIDE DEF new
<1>2. n \in Nat /\ s \in Nat /\ n <= MaxEpisodes /\ MaxEpisodes \in Nat \ {0} /\ \A i \in 1..s : starts[i] \in Nat
    BY HistoryNumbers
<1>3. /\ list \in Seq(Episode) /\ list # << >> /\ Len(list) = n + 1 /\ list[n + 1] = new /\ \A k \in 1..n : list[k] = eps[k]
      /\ all \in Seq(Nat) /\ Len(all) = s + 1 /\ all[s + 1] = t /\ \A i \in 1..s : all[i] = starts[i]
  <2>1. /\ list \in Seq(Episode) /\ Len(list) = n + 1 /\ list[n + 1] = new /\ \A k \in 1..n : list[k] = eps[k]
    BY <1>1
  <2>2. list # << >>
    BY <1>1
  <2>3. all \in Seq(Nat) /\ Len(all) = s + 1 /\ all[s + 1] = t /\ \A i \in 1..s : all[i] = starts[i]
    OBVIOUS
  <2> QED BY <2>1, <2>2, <2>3
<1>4. PICK g \in [1..n -> 1..s] : LinkOf(g, eps, starts, latest, t, m)
    BY DEF LinkOK
<1>5. /\ \A j, k \in 1..n : j < k => g[j] < g[k]
      /\ \A k \in 1..n : eps[k].start = starts[g[k]] /\ eps[k].start <= eps[k].last /\ eps[k].last <= latest
      /\ \A i \in 1..s :
            \/ \E k \in 1..n : g[k] = i
            \/ starts[i] + Within < t \/ starts[i] + Within + Lateness < m
            \/ n = MaxEpisodes /\ \A k \in 1..n : i < g[k]
    BY <1>4 DEF LinkOf
<1>6. \A k \in 1..n : eps[k] \in Episode /\ eps[k].start \in Nat /\ eps[k].last \in Nat
  <2>1. \A k \in 1..n : eps[k] \in Episode
    OBVIOUS
  <2> QED BY <2>1 DEF Episode
<1> HIDE DEF list, all, n, s
<1>7. after \in Seq(Episode) /\ after # << >> /\ Len(after) <= MaxEpisodes
    BY <1>2, <1>3, NewestFacts
<1>8. PICK f \in [1..Len(after) -> 1..Len(list)] :
        /\ \A j, k \in 1..Len(after) : j < k => f[j] < f[k]
        /\ \A j \in 1..Len(after) : after[j] = list[f[j]]
        /\ f[Len(after)] = Len(list)
        /\ \A i \in 1..Len(list) : \/ \E j \in 1..Len(after) : f[j] = i
                                   \/ Len(after) = MaxEpisodes /\ \A j \in 1..Len(after) : i < f[j]
        /\ Len(list) > MaxEpisodes => Len(after) = MaxEpisodes
  <2>1. Len(list) <= MaxEpisodes + 1
    BY <1>2, <1>3
  <2> QED BY <1>3, <2>1, NewestFacts
<1> HIDE DEF after
<1>9. Len(after) \in Nat \ {0} /\ Len(after) \in 1..Len(after)
    BY <1>7
<1> DEFINE h == [j \in 1..Len(after) |-> IF f[j] = n + 1 THEN s + 1 ELSE g[f[j]]]
<1>10. \A j \in 1..Len(after) : f[j] = n + 1 \/ (f[j] \in 1..n /\ g[f[j]] \in 1..s)
  <2> SUFFICES ASSUME NEW j \in 1..Len(after), f[j] # n + 1 PROVE f[j] \in 1..n /\ g[f[j]] \in 1..s
    OBVIOUS
  <2>1. f[j] \in 1..(n + 1)
    BY <1>3
  <2>2. f[j] \in 1..n
    BY <1>2, <2>1
  <2> QED BY <2>2
<1>11. /\ \A j \in 1..Len(after) : f[j] = n + 1 => h[j] = s + 1
       /\ \A j \in 1..Len(after) : f[j] # n + 1 => h[j] = g[f[j]] /\ f[j] \in 1..n /\ g[f[j]] \in 1..s
    BY <1>10
<1>12. h \in [1..Len(after) -> 1..Len(all)]
    BY <1>2, <1>3, <1>10
<1> HIDE DEF h
<1>13. LinkOf(h, after, all, t, t, m)
  <2>1. ASSUME NEW j \in 1..Len(after), NEW k \in 1..Len(after), j < k PROVE h[j] < h[k]
    <3>1. f[j] < f[k] /\ f[k] \in 1..(n + 1) /\ f[j] \in 1..(n + 1)
      BY <1>3, <1>8, <2>1
    <3>2. f[j] # n + 1
      BY <1>2, <3>1
    <3>3. h[j] = g[f[j]] /\ h[j] \in 1..s /\ f[j] \in 1..n
      BY <1>11, <3>2
    <3>4. CASE f[k] = n + 1
      BY <1>2, <1>11, <3>3, <3>4
    <3>5. CASE f[k] # n + 1
      BY <1>5, <1>11, <3>1, <3>3, <3>5
    <3> QED BY <3>4, <3>5
  <2>2. ASSUME NEW k \in 1..Len(after)
        PROVE  after[k].start = all[h[k]] /\ after[k].start <= after[k].last /\ after[k].last <= t
    <3>1. CASE f[k] = n + 1
      BY <1>1, <1>3, <1>8, <1>11, <3>1
    <3>2. CASE f[k] # n + 1
      <4> DEFINE e == f[k]
      <4>1. e \in 1..n /\ h[k] = g[e] /\ g[e] \in 1..s /\ after[k] = eps[e]
        BY <1>3, <1>8, <1>11, <3>2
      <4> HIDE DEF e
      <4>2. eps[e].start = all[h[k]] /\ eps[e].start <= eps[e].last /\ eps[e].last <= latest /\ eps[e].last \in Nat
        BY <1>3, <1>5, <1>6, <4>1
      <4> QED BY <4>1, <4>2
    <3> QED BY <3>1, <3>2
  <2>3. h[Len(after)] = Len(all) /\ after[Len(after)] = new
    BY <1>3, <1>8, <1>9, <1>11
  <2>4. ASSUME NEW i \in 1..Len(all)
        PROVE  \/ \E k \in 1..Len(after) : h[k] = i
               \/ all[i] + Within < t \/ all[i] + Within + Lateness < m
               \/ Len(after) = MaxEpisodes /\ \A k \in 1..Len(after) : i < h[k]
    <3>1. CASE i = s + 1
      BY <1>3, <1>9, <2>3, <3>1
    <3>2. CASE i # s + 1
      <4>1. i \in 1..s /\ all[i] = starts[i]
        BY <1>2, <1>3, <3>2
      <4>2. CASE \E e \in 1..n : g[e] = i
        <5>1. PICK e \in 1..n : g[e] = i
          BY <4>2
        <5>2. e \in 1..Len(list) /\ e # n + 1 /\ e \in Nat
          BY <1>2, <1>3
        <5>3. CASE \E j \in 1..Len(after) : f[j] = e
          BY <1>11, <5>1, <5>2, <5>3
        <5>4. CASE Len(after) = MaxEpisodes /\ \A j \in 1..Len(after) : e < f[j]
          <6>1. ASSUME NEW k \in 1..Len(after) PROVE i < h[k]
            <7>1. CASE f[k] = n + 1
              <8>1. h[k] = s + 1 /\ s \in Nat
                BY <1>2, <1>11, <7>1
              <8> QED BY <4>1, <8>1
            <7>2. CASE f[k] # n + 1
              BY <1>5, <1>11, <5>1, <5>4, <7>2
            <7> QED BY <7>1, <7>2
          <6> QED BY <5>4, <6>1
        <5> QED BY <1>8, <5>2, <5>3, <5>4
      <4>3. CASE starts[i] + Within < t \/ starts[i] + Within + Lateness < m
        BY <4>1, <4>3
      <4>4. CASE n = MaxEpisodes /\ \A k \in 1..n : i < g[k]
        <5>1. Len(after) = MaxEpisodes
          BY <1>2, <1>3, <1>8, <4>4
        <5>2. ASSUME NEW k \in 1..Len(after) PROVE i < h[k]
          <6>1. CASE f[k] = n + 1
            <7>1. h[k] = s + 1 /\ s \in Nat
              BY <1>2, <1>11, <6>1
            <7> QED BY <4>1, <7>1
          <6>2. CASE f[k] # n + 1
            BY <1>11, <4>4, <6>2
          <6> QED BY <6>1, <6>2
        <5> QED BY <5>1, <5>2
      <4> QED BY <1>5, <4>1, <4>2, <4>3, <4>4
    <3> QED BY <3>1, <3>2
  <2>5. Final(after).last = t
    BY <1>1, <2>3 DEF Final
  <2> QED BY <2>1, <2>2, <2>3, <2>4, <2>5 DEF LinkOf
<1>14. after[Len(after)] = new
  <2>1. after[Len(after)] = list[Len(list)] /\ Len(list) = n + 1
    BY <1>3, <1>8, <1>9
  <2> QED BY <1>3, <2>1
<1>15. LinkOK(after, all, t, t, m) /\ after # << >> /\ Final(after).acted = FALSE
    BY <1>1, <1>7, <1>12, <1>13, <1>14 DEF LinkOK, Final
<1> QED BY <1>15 DEF after, list, new, all

\* The last episode goes on.
Extended(eps, t) == [eps EXCEPT ![Len(eps)].last = LatestOf(@, t)]

LEMMA ExtendedFacts ==
    ASSUME NEW eps \in Seq(Episode), eps # << >>, NEW t \in Nat, Final(eps).last <= t
    PROVE  /\ Len(Extended(eps, t)) = Len(eps) /\ Extended(eps, t) # << >> /\ Len(eps) \in Nat \ {0}
           /\ Final(Extended(eps, t)).last = t /\ Final(Extended(eps, t)).acted = Final(eps).acted
           /\ \A k \in 1..Len(eps) : /\ Extended(eps, t)[k].start = eps[k].start
                                     /\ Extended(eps, t)[k].last \in {eps[k].last, t}
<1> DEFINE n == Len(eps)
           final == [eps[n] EXCEPT !.last = LatestOf(@, t)]
<1>1. n \in Nat \ {0} /\ n \in 1..n /\ eps[n] \in Episode
    OBVIOUS
<1>2. LatestOf(eps[n].last, t) = t
  <2>1. eps[n].last \in Nat /\ eps[n].last <= t
    BY <1>1 DEF Episode, Final
  <2> QED BY <2>1 DEF LatestOf
<1>3. final \in Episode /\ final.last = t /\ final.acted = eps[n].acted /\ final.start = eps[n].start
    BY <1>1, <1>2 DEF Episode
<1>4. Extended(eps, t) = [eps EXCEPT ![n] = final]
    BY DEF Extended
<1> HIDE DEF final
<1>5. Extended(eps, t) \in Seq(Episode) /\ Len(Extended(eps, t)) = n
    BY <1>1, <1>3, <1>4
<1>6. Extended(eps, t)[n] = final /\ \A k \in 1..n : k # n => Extended(eps, t)[k] = eps[k]
    BY <1>1, <1>4
<1>7. \A k \in 1..n : Extended(eps, t)[k].start = eps[k].start /\ Extended(eps, t)[k].last \in {eps[k].last, t}
    BY <1>3, <1>6
<1> QED BY <1>1, <1>3, <1>5, <1>6, <1>7 DEF Final

LEMMA LinkExtended ==
    ASSUME NEW eps \in Seq(Episode), eps # << >>, NEW starts \in Seq(Nat), NEW t \in Nat, NEW m \in Nat,
           NEW latest \in Nat, latest <= t, LinkOK(eps, starts, latest, t, m)
    PROVE  LET after == Extended(eps, t) IN
           LinkOK(after, starts, t, t, m) /\ after # << >> /\ Final(after).acted = Final(eps).acted
<1> DEFINE n == Len(eps)
           after == Extended(eps, t)
<1>1. \A k \in 1..n : eps[k].start \in Nat /\ eps[k].last \in Nat
  <2>1. \A k \in 1..n : eps[k] \in Episode
    OBVIOUS
  <2>2. \A e \in Episode : e.start \in Nat /\ e.last \in Nat
    BY Zenon DEF Episode
  <2> QED BY <2>1, <2>2
<1>2. \A a, b \in Nat : a <= b /\ b <= latest => a <= t /\ b <= t
    OBVIOUS
<1>3. PICK g \in [1..n -> 1..Len(starts)] : LinkOf(g, eps, starts, latest, t, m)
    BY DEF LinkOK
<1>4. /\ \A j, k \in 1..n : j < k => g[j] < g[k]
      /\ \A k \in 1..n : eps[k].start = starts[g[k]] /\ eps[k].start <= eps[k].last /\ eps[k].last <= latest
      /\ g[n] = Len(starts) /\ Final(eps).last = latest
      /\ \A i \in 1..Len(starts) :
            \/ \E k \in 1..n : g[k] = i
            \/ starts[i] + Within < t \/ starts[i] + Within + Lateness < m
            \/ n = MaxEpisodes /\ \A k \in 1..n : i < g[k]
    BY <1>3 DEF LinkOf
<1>5. /\ Len(after) = n /\ after # << >> /\ Final(after).last = t /\ Final(after).acted = Final(eps).acted
      /\ \A k \in 1..n : after[k].start = eps[k].start /\ after[k].last \in {eps[k].last, t}
  <2>1. Final(eps).last <= t
    BY <1>4
  <2> QED BY <2>1, ExtendedFacts
<1> HIDE DEF after, n
<1>6. ASSUME NEW k \in 1..n
      PROVE  after[k].start = starts[g[k]] /\ after[k].start <= after[k].last /\ after[k].last <= t
  <2> DEFINE first == eps[k].start
             end == eps[k].last
  <2>1. first = starts[g[k]] /\ first <= end /\ end <= latest /\ first \in Nat /\ end \in Nat
    BY <1>1, <1>4
  <2>2. after[k].start = first /\ (after[k].last = t \/ after[k].last = end)
    BY <1>5
  <2> HIDE DEF first, end
  <2>3. first <= t /\ end <= t
    BY <1>2, <2>1
  <2> QED BY <2>1, <2>2, <2>3
<1>7. LinkOf(g, after, starts, t, t, m)
    BY <1>4, <1>5, <1>6 DEF LinkOf
<1>8. LinkOK(after, starts, t, t, m)
    BY <1>5, <1>7 DEF LinkOK, n
<1> QED BY <1>5, <1>8 DEF after

\* What an event makes of the memory and of the truth, before a decision.
LEMMA EventKept ==
    ASSUME HistoryTypeOK, EpisodesOK(episodes, DOMAIN past, truth, acts, moment, saved),
           NEW t \in 1..moment, NEW kind \in Kinds, t >= truth.seen, Comes(t)
    PROVE  EpisodesOK(EpisodesAfter(t, kind), DOMAIN KeptPast(t), TruthAfter(t, kind), acts, moment, t)
<1> DEFINE eps == KeptEpisodes(t)
           after == EpisodesAfter(t, kind)
           dom == DOMAIN KeptPast(t)
           known == TruthAfter(t, kind)
           starts == truth.starts
           latest == truth.latest
<1>1. /\ t \in Nat \ {0} /\ moment \in Nat /\ t <= moment /\ Gap \in Nat /\ MaxEpisodes \in Nat
      /\ starts \in Seq(Nat) /\ latest \in Nat /\ truth.seen \in Nat /\ latest <= t
      /\ Len(starts) \in Nat /\ DOMAIN starts = 1..Len(starts) /\ \A i \in 1..Len(starts) : starts[i] \in Nat
      /\ truth.acted \in BOOLEAN /\ truth.decided \in 0..2
  <2>1. truth.seen \in Nat /\ latest \in Nat /\ latest <= truth.seen
    BY EpisodeFields DEF EpisodesOK, OrderOK
  <2>2. t \in Nat \ {0} /\ moment \in Nat /\ t <= moment /\ latest <= t
    BY <2>1, HistoryTypes
  <2> QED BY <2>1, <2>2, EpisodeFields, HistoryNumbers
<1>2. /\ starts = << >> <=> latest = 0
      /\ \A i \in DOMAIN starts : starts[i] <= latest
      /\ \A i, j \in DOMAIN starts : i < j => starts[i] <= starts[j]
    BY DEF EpisodesOK, OrderOK
<1>3. /\ truth.decided <= 1 /\ (truth.acted => truth.decided = 1)
      /\ episodes # << >> => /\ truth.decided = 1 => Final(episodes).acted
                             /\ Final(episodes).acted /\ ~truth.acted => DOMAIN past = {}
      /\ truth.acted => \E i \in DOMAIN acts : latest <= acts[i].ends
    BY DEF EpisodesOK, DecidedOK
<1>4. /\ LinkOK(eps, starts, latest, t, moment)
      /\ eps = << >> => latest = 0 \/ latest + Gap < t
      /\ eps # << >> => episodes # << >> /\ Final(eps) = Final(episodes)
    BY ForgettingLinks
<1>5. \A i \in DOMAIN acts \ dom :
        /\ acts[i].ends <= moment
        /\ \/ acts[i].ends + Retention < t
           \/ \E k \in dom : acts[i].ends <= acts[k].ends
           \/ ~truth.acted
           \/ latest + Gap < t
    BY ForgettingEnds
<1>6. /\ known.starts = IF kind # "escalation" /\ TrulyNew(t) THEN Append(starts, t) ELSE starts
      /\ known.latest = IF kind = "escalation" THEN latest ELSE t
      /\ known.acted = IF kind # "escalation" /\ TrulyNew(t) THEN FALSE ELSE truth.acted
      /\ known.decided = IF kind # "escalation" /\ TrulyNew(t) THEN 0 ELSE truth.decided
      /\ known.seen = t
  <2>1. truth \in Known /\ t \in Nat
    BY <1>1, HistoryTypes
  <2>2. LatestOf(latest, t) = t /\ LatestOf(truth.seen, t) = t
    BY <1>1 DEF LatestOf
  <2> QED BY <2>1, <2>2, TruthAfterFacts
<1>7. NewEpisode(t) <=> TrulyNew(t)
    BY SameNovelty
<1>8. /\ kind = "escalation" => after = eps
      /\ kind # "escalation" /\ TrulyNew(t) =>
            after = Newest(Append(eps, [start |-> t, last |-> t, acted |-> FALSE]), MaxEpisodes)
      /\ kind # "escalation" /\ ~TrulyNew(t) => after = [eps EXCEPT ![Len(eps)].last = LatestOf(@, t)] /\ eps # << >>
    BY <1>7 DEF EpisodesAfter, NewEpisode
<1>9. dom \subseteq DOMAIN past /\ eps \in Seq(Episode) /\ Len(eps) <= MaxEpisodes
  <2>1. eps \in Seq(Episode) /\ Len(eps) <= Len(episodes)
    BY <1>1, KeptEpisodesFacts
  <2>2. Len(eps) \in Nat /\ Len(episodes) \in Nat /\ Len(episodes) <= MaxEpisodes
    BY <2>1, EpisodeFields
  <2>3. dom \subseteq DOMAIN past
    BY <1>1, KeptPastFacts
  <2> QED BY <1>1, <2>1, <2>2, <2>3
<1>10. TrulyNew(t) <=> \/ latest = 0 \/ t > latest + Gap
                       \/ truth.acted /\ \A i \in DOMAIN acts : t >= acts[i].ends
    BY DEF TrulyNew
<1>11. \A i \in DOMAIN acts : acts[i].ends \in Nat
    BY ActFields
<1> HIDE DEF eps, after, dom, known, starts, latest
<1>12. ASSUME kind = "escalation"
      PROVE  EpisodesOK(after, dom, known, acts, moment, t)
  <2>1. /\ known.starts = starts /\ known.latest = latest /\ known.seen = t /\ known.acted = truth.acted
        /\ known.decided = truth.decided /\ after = eps
    BY <1>6, <1>8, <1>12
  <2>2. OrderOK(known, moment, t)
    BY <1>1, <1>2, <2>1 DEF OrderOK
  <2>3. LinkOK(after, known.starts, known.latest, known.seen, moment)
    BY <1>4, <2>1
  <2>4. DecidedOK(after, dom, known, acts, moment)
    BY <1>3, <1>4, <1>9, <2>1 DEF DecidedOK, Stale
  <2>5. EndsOK(dom, known, acts, moment)
    BY <1>5, <2>1 DEF EndsOK, Stale
  <2> QED BY <2>2, <2>3, <2>4, <2>5 DEF EpisodesOK
<1>13. ASSUME kind # "escalation" /\ TrulyNew(t)
      PROVE  EpisodesOK(after, dom, known, acts, moment, t)
  <2>1. /\ known.starts = Append(starts, t) /\ known.latest = t /\ known.seen = t /\ known.acted = FALSE
        /\ known.decided = 0
    BY <1>6, <1>13
  <2>2. LinkOK(after, known.starts, t, t, moment) /\ after # << >> /\ Final(after).acted = FALSE
    <3>1. t \in Nat /\ moment \in Nat /\ latest \in Nat /\ latest <= t /\ starts \in Seq(Nat)
      BY <1>1
    <3>2. eps \in Seq(Episode) /\ Len(eps) <= MaxEpisodes /\ LinkOK(eps, starts, latest, t, moment)
      BY <1>4, <1>9
    <3>3. after = Newest(Append(eps, [start |-> t, last |-> t, acted |-> FALSE]), MaxEpisodes)
      BY <1>8, <1>13
    <3>4. LinkOK(after, Append(starts, t), t, t, moment) /\ after # << >> /\ Final(after).acted = FALSE
      BY <3>1, <3>2, <3>3, LinkAppended
    <3> QED BY <2>1, <3>4
  <2>3. OrderOK(known, moment, t)
    <3> DEFINE all == Append(starts, t)
               s == Len(starts)
    <3>1. Len(all) = s + 1 /\ DOMAIN all = 1..(s + 1) /\ all[s + 1] = t /\ \A i \in 1..s : all[i] = starts[i]
      BY <1>1
    <3>2. s \in Nat /\ DOMAIN starts = 1..s /\ \A i \in 1..s : starts[i] \in Nat
      BY <1>1
    <3>3. known.starts = all
      BY <2>1
    <3> HIDE DEF all, s
    <3>4. \A i \in 1..(s + 1) : i = s + 1 \/ i \in 1..s
      BY <3>2
    <3>5. \A i \in 1..(s + 1) : all[i] <= t
      <4> SUFFICES ASSUME NEW i \in 1..(s + 1) PROVE all[i] <= t
        OBVIOUS
      <4>1. CASE i = s + 1
        BY <1>1, <3>1, <4>1
      <4>2. CASE i \in 1..s
        <5>1. starts[i] <= latest /\ starts[i] \in Nat
          BY <1>2, <3>2, <4>2
        <5> QED BY <1>1, <3>1, <4>2, <5>1
      <4> QED BY <3>4, <4>1, <4>2
    <3>6. \A i, j \in 1..(s + 1) : i < j => all[i] <= all[j]
      <4> SUFFICES ASSUME NEW i \in 1..(s + 1), NEW j \in 1..(s + 1), i < j PROVE all[i] <= all[j]
        OBVIOUS
      <4>1. CASE j = s + 1
        BY <3>1, <3>5, <4>1
      <4>2. CASE j \in 1..s
        <5>1. i \in 1..s
          BY <3>2, <4>2
        <5> QED BY <1>2, <3>1, <3>2, <4>2, <5>1
      <4> QED BY <3>4, <4>1, <4>2
    <3>7. all # << >>
      BY <3>1, <3>2
    <3> QED BY <1>1, <2>1, <3>1, <3>3, <3>5, <3>6, <3>7 DEF OrderOK
  <2>4. DecidedOK(after, dom, known, acts, moment)
    BY <2>1, <2>2 DEF DecidedOK
  <2>5. EndsOK(dom, known, acts, moment)
    BY <1>5, <2>1 DEF EndsOK
  <2>6. LinkOK(after, known.starts, known.latest, known.seen, moment)
    BY <2>1, <2>2
  <2> QED BY <2>3, <2>4, <2>5, <2>6 DEF EpisodesOK
<1>14. ASSUME kind # "escalation" /\ ~TrulyNew(t)
      PROVE  EpisodesOK(after, dom, known, acts, moment, t)
  <2>1. /\ known.starts = starts /\ known.latest = t /\ known.seen = t /\ known.acted = truth.acted
        /\ known.decided = truth.decided /\ eps # << >>
    BY <1>6, <1>8, <1>14
  <2>2. LinkOK(after, starts, t, t, moment) /\ after # << >> /\ Final(after).acted = Final(eps).acted
    <3>1. t \in Nat /\ moment \in Nat /\ latest \in Nat /\ latest <= t /\ starts \in Seq(Nat)
      BY <1>1
    <3>2. eps \in Seq(Episode) /\ eps # << >> /\ LinkOK(eps, starts, latest, t, moment)
      BY <1>4, <1>9, <2>1
    <3>3. after = Extended(eps, t)
      BY <1>8, <1>14 DEF Extended
    <3> QED BY <3>1, <3>2, <3>3, LinkExtended
  <2>3. latest # 0 /\ ~(latest + Gap < t)
    BY <1>1, <1>10, <1>14
  <2>4. OrderOK(known, moment, t)
    <3>1. \A i \in DOMAIN starts : starts[i] <= t
      BY <1>1, <1>2
    <3> QED BY <1>1, <1>2, <2>1, <2>3, <3>1 DEF OrderOK
  <2>5. DecidedOK(after, dom, known, acts, moment)
    <3>1. truth.acted => \E i \in DOMAIN acts : t <= acts[i].ends
      BY <1>1, <1>10, <1>11, <1>14
    <3> QED BY <1>3, <1>4, <1>9, <2>1, <2>2, <3>1 DEF DecidedOK
  <2>6. EndsOK(dom, known, acts, moment)
    BY <1>5, <2>1, <2>3 DEF EndsOK
  <2>7. LinkOK(after, known.starts, known.latest, known.seen, moment)
    BY <2>1, <2>2
  <2> QED BY <2>4, <2>5, <2>6, <2>7 DEF EpisodesOK
<1>15. EpisodesOK(after, dom, known, acts, moment, t)
    BY <1>12, <1>13, <1>14
<1> QED BY <1>15 DEF after, dom, known

\* Deciding for the last episode moves no episode.
LEMMA LinkActed ==
    ASSUME NEW eps \in Seq(Episode), eps # << >>, NEW starts, NEW latest, NEW newest, NEW m,
           LinkOK(eps, starts, latest, newest, m)
    PROVE  LinkOK(Acted(eps), starts, latest, newest, m)
<1>1. PICK g \in [1..Len(eps) -> 1..Len(starts)] : LinkOf(g, eps, starts, latest, newest, m)
    BY DEF LinkOK
<1> DEFINE after == Acted(eps)
<1>2. /\ Len(after) = Len(eps) /\ after # << >> /\ Final(after).last = Final(eps).last
      /\ \A k \in 1..Len(eps) : after[k].start = eps[k].start /\ after[k].last = eps[k].last
    BY ActedFacts
<1> HIDE DEF after
<1>3. LinkOf(g, after, starts, latest, newest, m)
    BY <1>1, <1>2 DEF LinkOf
<1>4. LinkOK(after, starts, latest, newest, m)
    BY <1>2, <1>3 DEF LinkOK
<1> QED BY <1>4 DEF after

\* The memory and the truth at a decision.
LEMMA DecisionKept ==
    ASSUME HistoryTypeOK, EpisodesOK(episodes, DOMAIN past, truth, acts, moment, saved),
           NEW t \in 1..moment, NEW kind \in Kinds, t >= truth.seen, Comes(t),
           MayStrike(EpisodesAfter(t, kind), t), NEW acted \in BOOLEAN
    PROVE  LET after == Acted(EpisodesAfter(t, kind))
               known == TruthAfter(t, kind)
               tr    == Decided(known, acted) IN
           /\ OrderOK(tr, moment, t) /\ LinkOK(after, tr.starts, tr.latest, tr.seen, moment)
           /\ after # << >> /\ Final(after).acted
           /\ tr.decided = 1 /\ tr.acted = acted /\ tr.latest <= moment /\ tr.latest \in Nat
           /\ tr.latest = known.latest /\ tr.seen = known.seen
<1> DEFINE eps == EpisodesAfter(t, kind)
           known == TruthAfter(t, kind)
           tr == Decided(known, acted)
<1>1. eps \in Seq(Episode) /\ known \in Known /\ t \in Nat /\ moment \in Nat /\ t <= moment
    BY EventTypes, HistoryTypes
<1>2. /\ OrderOK(known, moment, t) /\ LinkOK(eps, known.starts, known.latest, known.seen, moment)
      /\ DecidedOK(eps, DOMAIN KeptPast(t), known, acts, moment)
    BY EventKept DEF EpisodesOK
<1>3. eps # << >> /\ ~Final(eps).acted
    BY DEF MayStrike
<1> HIDE DEF eps, known
<1>4. /\ tr.acted = (known.acted \/ acted) /\ tr.decided = AtMostOf(known.decided + 1, 2)
      /\ tr.starts = known.starts /\ tr.latest = known.latest /\ tr.seen = known.seen
    BY <1>1, DecidedType
<1>5. known.latest \in Nat /\ known.seen \in Nat /\ known.decided \in 0..2 /\ known.acted \in BOOLEAN
    BY <1>1 DEF Known
<1> HIDE DEF tr
<1>6. known.decided = 0 /\ ~known.acted
    BY <1>2, <1>3, <1>5 DEF DecidedOK
<1>7. tr.decided = 1 /\ tr.acted = acted
    BY <1>4, <1>6 DEF AtMostOf
<1>8. OrderOK(tr, moment, t)
    BY <1>2, <1>4 DEF OrderOK
<1>9. LinkOK(Acted(eps), tr.starts, tr.latest, tr.seen, moment)
    BY <1>1, <1>2, <1>3, <1>4, LinkActed
<1>10. Acted(eps) # << >> /\ Final(Acted(eps)).acted
    BY <1>1, <1>3, ActedFacts
<1>11. tr.latest <= moment /\ tr.latest \in Nat
    BY <1>1, <1>2, <1>4, <1>5 DEF OrderOK
<1> QED BY <1>4, <1>7, <1>8, <1>9, <1>10, <1>11 DEF eps, known, tr

LEMMA WatchStraight ==
    ASSUME HistoryTypeOK, StraightInv, NEW t \in 1..moment, NEW kind \in Kinds, Watch(t, kind)
    PROVE  StraightInv'
<1> SUFFICES ASSUME ~astray' PROVE EpisodesOK(episodes', DOMAIN past', truth', acts', moment', saved')
    BY DEF StraightInv
<1>1. ~astray /\ ~Tardy(t) /\ Comes(t)
    BY DEF Watch
<1>2. t >= truth.seen
  <2>1. t \in Nat /\ truth.seen \in Nat
    BY HistoryTypes, EpisodeFields
  <2> QED BY <1>1, <2>1 DEF Tardy
<1>3. EpisodesOK(EpisodesAfter(t, kind), DOMAIN KeptPast(t), TruthAfter(t, kind), acts, moment, t)
    BY <1>1, <1>2, EventKept DEF StraightInv
<1> QED BY <1>3 DEF Watch

LEMMA StrikeStraight ==
    ASSUME HistoryTypeOK, StraightInv, NEW t \in 1..moment, NEW kind \in Kinds, NEW ban \in BOOLEAN, Strike(t, kind, ban)
    PROVE  StraightInv'
<1> SUFFICES ASSUME ~astray' PROVE EpisodesOK(episodes', DOMAIN past', truth', acts', moment', saved')
    BY DEF StraightInv
<1> DEFINE id == Len(acts) + 1
           known == TruthAfter(t, kind)
<1>1. /\ ~astray /\ ~Tardy(t) /\ ~DropsRunning /\ Comes(t) /\ MayStrike(EpisodesAfter(t, kind), t)
      /\ episodes' = Acted(EpisodesAfter(t, kind)) /\ truth' = Decided(known, TRUE) /\ saved' = t /\ moment' = moment
    BY DEF Strike
<1>2. t >= truth.seen
  <2>1. t \in Nat /\ truth.seen \in Nat
    BY HistoryTypes, EpisodeFields
  <2> QED BY <1>1, <2>1 DEF Tardy
<1>3. EpisodesOK(episodes, DOMAIN past, truth, acts, moment, saved)
    BY <1>1 DEF StraightInv
<1>4. EndsOK(DOMAIN KeptPast(t), known, acts, moment)
    BY <1>1, <1>2, <1>3, EventKept DEF EpisodesOK
<1>5. /\ OrderOK(truth', moment, t) /\ LinkOK(episodes', truth'.starts, truth'.latest, truth'.seen, moment)
      /\ episodes' # << >> /\ Final(episodes').acted
      /\ truth'.decided = 1 /\ truth'.acted = TRUE /\ truth'.latest <= moment /\ truth'.latest \in Nat
  <2>1. TRUE \in BOOLEAN
    OBVIOUS
  <2> QED BY <1>1, <1>2, <1>3, <2>1, DecisionKept
<1>6. /\ DOMAIN acts' = 1..id /\ \A i \in 1..Len(acts) : acts'[i] = acts[i]
      /\ acts'[id].ends \in Nat /\ acts'[id].ends >= moment
    BY StrikeFacts
<1>7. id \in DOMAIN past' /\ DOMAIN past' \subseteq DOMAIN KeptPast(t) \cup {id}
    BY StrikePast
<1>8. /\ DOMAIN acts = 1..Len(acts) /\ Len(acts) \in Nat /\ moment \in Nat /\ DOMAIN past \subseteq DOMAIN acts
      /\ DOMAIN KeptPast(t) \subseteq DOMAIN past /\ \A i \in DOMAIN acts : acts[i].ends \in Nat
      /\ \A i \in DOMAIN past : past[i] = acts[i]
  <2>1. DOMAIN acts = 1..Len(acts) /\ Len(acts) \in Nat /\ DOMAIN past \subseteq DOMAIN acts
    BY ActFields
  <2>2. (\A i \in DOMAIN acts : acts[i].ends \in Nat) /\ \A i \in DOMAIN past : past[i] = acts[i]
    BY ActFields
  <2>3. t \in Nat /\ moment \in Nat
    BY HistoryTypes
  <2>4. DOMAIN KeptPast(t) \subseteq DOMAIN past
    BY <2>3, KeptPastFacts
  <2> QED BY <2>1, <2>2, <2>3, <2>4
<1>0. id \in DOMAIN acts' /\ \A i \in DOMAIN acts' : i = id \/ i \in DOMAIN acts
    BY <1>6, <1>8
<1>9. DecidedOK(episodes', DOMAIN past', truth', acts', moment)
  <2>1. truth'.latest <= acts'[id].ends
    BY <1>5, <1>6, <1>8
  <2> QED BY <1>0, <1>5, <2>1 DEF DecidedOK
<1>10. ASSUME NEW i \in DOMAIN acts', i \notin DOMAIN past'
       PROVE  acts'[i].ends <= moment
  <2>1. i \in DOMAIN acts /\ acts'[i] = acts[i] /\ acts[i].ends \in Nat
    BY <1>0, <1>6, <1>7, <1>8, <1>10
  <2>2. CASE i \in DOMAIN KeptPast(t)
    <3>1. i \in DOMAIN past \ DOMAIN past' /\ past[i] = acts[i]
      BY <1>8, <1>10, <2>2
    <3>2. ~(past[i].ends > moment)
      BY <1>1, <3>1 DEF DropsRunning
    <3> QED BY <1>8, <2>1, <3>1, <3>2
  <2>3. CASE i \notin DOMAIN KeptPast(t)
    BY <1>4, <2>1, <2>3 DEF EndsOK
  <2> QED BY <2>2, <2>3
<1>11. EndsOK(DOMAIN past', truth', acts', moment)
  <2> SUFFICES ASSUME NEW i \in DOMAIN acts', i \notin DOMAIN past'
               PROVE  acts'[i].ends <= moment /\ \E k \in DOMAIN past' : acts'[i].ends <= acts'[k].ends
    BY DEF EndsOK
  <2>1. i \in DOMAIN acts /\ acts'[i] = acts[i] /\ acts[i].ends \in Nat
    BY <1>0, <1>6, <1>7, <1>8
  <2>2. acts'[i].ends <= acts'[id].ends
    BY <1>6, <1>8, <1>10, <2>1
  <2> QED BY <1>7, <1>10, <2>2
<1> QED BY <1>1, <1>5, <1>9, <1>11 DEF EpisodesOK

LEMMA MissStraight ==
    ASSUME HistoryTypeOK, StraightInv, NEW t \in 1..moment, NEW kind \in Kinds, Miss(t, kind)
    PROVE  StraightInv'
<1> SUFFICES ASSUME ~astray' PROVE EpisodesOK(episodes', DOMAIN past', truth', acts', moment', saved')
    BY DEF StraightInv
<1> DEFINE known == TruthAfter(t, kind)
<1>1. /\ ~astray /\ ~Tardy(t) /\ DOMAIN KeptPast(t) = {} /\ Comes(t) /\ MayStrike(EpisodesAfter(t, kind), t)
      /\ episodes' = Acted(EpisodesAfter(t, kind)) /\ truth' = Decided(known, FALSE) /\ saved' = t /\ moment' = moment
      /\ past' = KeptPast(t) /\ acts' = acts
    BY DEF Miss
<1>2. t >= truth.seen
  <2>1. t \in Nat /\ truth.seen \in Nat
    BY HistoryTypes, EpisodeFields
  <2> QED BY <1>1, <2>1 DEF Tardy
<1>3. EpisodesOK(episodes, DOMAIN past, truth, acts, moment, saved)
    BY <1>1 DEF StraightInv
<1>4. EndsOK(DOMAIN KeptPast(t), known, acts, moment)
    BY <1>1, <1>2, <1>3, EventKept DEF EpisodesOK
<1>5. /\ OrderOK(truth', moment, t) /\ LinkOK(episodes', truth'.starts, truth'.latest, truth'.seen, moment)
      /\ episodes' # << >> /\ Final(episodes').acted
      /\ truth'.decided = 1 /\ truth'.acted = FALSE
  <2>1. FALSE \in BOOLEAN
    OBVIOUS
  <2> QED BY <1>1, <1>2, <1>3, <2>1, DecisionKept
<1>6. DecidedOK(episodes', DOMAIN past', truth', acts', moment)
  <2>1. DOMAIN past' = {}
    BY <1>1
  <2> QED BY <1>5, <2>1 DEF DecidedOK
<1>7. EndsOK(DOMAIN past', truth', acts', moment)
    BY <1>1, <1>4, <1>5 DEF EndsOK
<1> QED BY <1>1, <1>5, <1>6, <1>7 DEF EpisodesOK

LEMMA OtherStraight ==
    ASSUME HistoryTypeOK, RememberInv, StraightInv,
           \/ \E id \in 1..MaxActs : Leaves(id) \/ LiftAction(id) \/ NotCounted(id)
           \/ ForgetSource \/ PurgeSource \/ MomentPasses
    PROVE  StraightInv'
<1>0. /\ moment \in Nat \ {0} /\ saved \in Nat /\ truth.seen \in Nat /\ truth.latest \in Nat
      /\ Lateness \in Nat /\ Within \in Nat /\ Gap \in Nat
      /\ Retention >= Within + Lateness /\ Retention >= Gap + Lateness /\ Retention \in Nat
      /\ DOMAIN truth.starts = 1..Len(truth.starts) /\ Len(truth.starts) \in Nat
      /\ \A i \in 1..Len(truth.starts) : truth.starts[i] \in Nat
    BY HistoryTypes, EpisodeFields, HistoryNumbers
<1>1. /\ \A i \in DOMAIN acts : acts[i].ends \in Nat
      /\ DOMAIN past \subseteq DOMAIN acts /\ \A i \in DOMAIN past : past[i] = acts[i]
    BY ActFields
<1>2. CASE \E id \in 1..MaxActs : Leaves(id)
    BY <1>2 DEF Leaves, memoryVars, StraightInv
<1>3. ASSUME EpisodesOK(episodes, DOMAIN past, truth, acts, moment, saved),
             DOMAIN acts' = DOMAIN acts, DOMAIN past' = DOMAIN past, moment' = moment, episodes' = episodes,
             truth' = truth, Saves,
             \A i \in DOMAIN acts : acts'[i].ends = acts[i].ends \/ acts'[i].ends = AtMostOf(acts[i].ends, moment)
      PROVE  EpisodesOK(episodes', DOMAIN past', truth', acts', moment', saved')
  <2>1. /\ OrderOK(truth, moment, saved) /\ LinkOK(episodes, truth.starts, truth.latest, truth.seen, moment)
        /\ DecidedOK(episodes, DOMAIN past, truth, acts, moment) /\ EndsOK(DOMAIN past, truth, acts, moment)
    BY <1>3 DEF EpisodesOK
  <2>2. OrderOK(truth', moment', saved')
    BY <1>0, <1>3, <2>1 DEF OrderOK, Saves
  <2>3. ASSUME NEW i \in DOMAIN acts
        PROVE  /\ acts[i].ends \in Nat /\ acts'[i].ends \in Nat /\ acts'[i].ends <= acts[i].ends
               /\ acts[i].ends <= moment => acts'[i].ends = acts[i].ends
               /\ ~(acts[i].ends <= moment) => acts'[i].ends >= moment
    <3>1. acts[i].ends \in Nat /\ acts'[i].ends \in {acts[i].ends, AtMostOf(acts[i].ends, moment)}
      BY <1>1, <1>3
    <3> QED BY <1>0, <3>1 DEF AtMostOf
  <2>4. ASSUME NEW m \in Nat, m <= moment, NEW i \in DOMAIN acts, m <= acts[i].ends
        PROVE  m <= acts'[i].ends
    BY <1>0, <2>3, <2>4
  <2>5. DecidedOK(episodes', DOMAIN past', truth', acts', moment')
    <3>1. truth.latest <= moment
      BY <1>0, <2>1 DEF OrderOK
    <3>2. truth.acted => \E i \in DOMAIN acts : truth.latest <= acts'[i].ends
      BY <1>0, <2>1, <2>4, <3>1 DEF DecidedOK
    <3> QED BY <1>3, <2>1, <3>2 DEF DecidedOK
  <2>6. ASSUME NEW i \in DOMAIN acts \ DOMAIN past
        PROVE  /\ acts'[i].ends <= moment
               /\ \/ acts'[i].ends + Retention < truth.seen
                  \/ \E k \in DOMAIN past : acts'[i].ends <= acts'[k].ends
                  \/ ~truth.acted
                  \/ Stale(truth, moment)
    <3>1. /\ acts[i].ends <= moment /\ acts[i].ends \in Nat /\ acts'[i].ends = acts[i].ends
      BY <1>1, <2>1, <2>3 DEF EndsOK
    <3>2. ASSUME NEW k \in DOMAIN past, acts[i].ends <= acts[k].ends PROVE acts[i].ends <= acts'[k].ends
      BY <1>1, <2>4, <3>1, <3>2
    <3> QED BY <2>1, <3>1, <3>2 DEF EndsOK
  <2>7. EndsOK(DOMAIN past', truth', acts', moment')
    BY <1>3, <2>6 DEF EndsOK
  <2>8. LinkOK(episodes', truth'.starts, truth'.latest, truth'.seen, moment')
    BY <1>3, <2>1
  <2> QED BY <2>2, <2>5, <2>7, <2>8 DEF EpisodesOK
<1>4. CASE \E id \in 1..MaxActs : LiftAction(id) \/ NotCounted(id)
  <2> SUFFICES ASSUME ~astray' PROVE EpisodesOK(episodes', DOMAIN past', truth', acts', moment', saved')
    BY DEF StraightInv
  <2>1. PICK id \in 1..MaxActs : LiftAction(id) \/ NotCounted(id)
    BY <1>4
  <2>2. CASE LiftAction(id)
    <3>1. moment' = moment /\ episodes' = episodes /\ Saves /\ truth' = truth /\ ~astray
      BY <2>2 DEF LiftAction
    <3>2. EpisodesOK(episodes, DOMAIN past, truth, acts, moment, saved)
      BY <3>1 DEF StraightInv
    <3> QED BY <1>3, <2>2, <3>1, <3>2, LiftFacts
  <2>3. CASE NotCounted(id)
    <3>1. moment' = moment /\ episodes' = episodes /\ Saves /\ truth' = truth /\ ~astray
      BY <2>3 DEF NotCounted
    <3>2. EpisodesOK(episodes, DOMAIN past, truth, acts, moment, saved)
      BY <3>1 DEF StraightInv
    <3> QED BY <1>3, <2>3, <3>1, <3>2, NotCountedFacts
  <2> QED BY <2>1, <2>2, <2>3
<1> DEFINE none == [k \in {} |-> 0]
\* A memory without episodes.
<1>5. ASSUME NEW starts, NEW latest, NEW newest, NEW m,
             \A i \in 1..Len(starts) : starts[i] + Within + Lateness < m
      PROVE  LinkOK(<< >>, starts, latest, newest, m)
  <2>1. Len(<< >>) = 0 /\ 1..0 = {}
    OBVIOUS
  <2>2. none \in [1..Len(<< >>) -> 1..Len(starts)]
    BY <2>1
  <2> HIDE DEF none
  <2>3. LinkOf(none, << >>, starts, latest, newest, m)
    BY <1>5, <2>1 DEF LinkOf
  <2> QED BY <2>2, <2>3 DEF LinkOK
<1>6. CASE ForgetSource
  <2>1. /\ episodes' = << >> /\ past' = << >> /\ acts' = << >> /\ truth' = Unknown /\ moment' = moment /\ saved' = 0
    BY <1>6 DEF ForgetSource, Forgotten
  <2>2. /\ truth'.starts = << >> /\ truth'.latest = 0 /\ truth'.seen = 0 /\ truth'.decided = 0 /\ truth'.acted = FALSE
    BY <2>1 DEF Unknown
  <2>3. Len(<< >>) = 0 /\ 1..0 = {} /\ DOMAIN acts' = {} /\ DOMAIN truth'.starts = {}
    BY <2>1, <2>2
  <2>4. LinkOK(episodes', truth'.starts, truth'.latest, truth'.seen, moment')
    BY <1>5, <2>1, <2>2, <2>3
  <2>5. OrderOK(truth', moment', saved')
    BY <1>0, <2>1, <2>2, <2>3 DEF OrderOK
  <2>6. DecidedOK(episodes', DOMAIN past', truth', acts', moment') /\ EndsOK(DOMAIN past', truth', acts', moment')
    BY <2>1, <2>2, <2>3 DEF DecidedOK, EndsOK
  <2> QED BY <2>4, <2>5, <2>6 DEF StraightInv, EpisodesOK
<1>7. CASE PurgeSource
  <2> SUFFICES ASSUME ~astray' PROVE EpisodesOK(episodes', DOMAIN past', truth', acts', moment', saved')
    BY DEF StraightInv
  <2>1. /\ episodes' = << >> /\ past' = << >> /\ acts' = acts /\ truth' = truth /\ moment' = moment /\ saved' = 0
        /\ ~astray /\ ~DropsRunning /\ saved # 0 /\ moment > saved + Retention
    BY <1>7 DEF PurgeSource, Forgotten
  <2>2. /\ OrderOK(truth, moment, saved) /\ DecidedOK(episodes, DOMAIN past, truth, acts, moment)
        /\ EndsOK(DOMAIN past, truth, acts, moment)
    BY <2>1 DEF StraightInv, EpisodesOK
  <2>3. truth.seen <= saved /\ truth.latest <= truth.seen
    BY <2>1, <2>2 DEF OrderOK
  <2>4. \A i \in 1..Len(truth.starts) : truth.starts[i] + Within + Lateness < moment
    <3> SUFFICES ASSUME NEW i \in 1..Len(truth.starts) PROVE truth.starts[i] + Within + Lateness < moment
      OBVIOUS
    <3>1. truth.starts[i] \in Nat /\ truth.starts[i] <= truth.latest
      BY <1>0, <2>2 DEF OrderOK
    <3> QED BY <1>0, <2>1, <2>3, <3>1
  <2>5. LinkOK(episodes', truth'.starts, truth'.latest, truth'.seen, moment')
    BY <1>5, <2>1, <2>4
  <2>6. OrderOK(truth', moment', saved')
    BY <2>1, <2>2 DEF OrderOK
  <2>7. Stale(truth, moment)
    BY <1>0, <2>1, <2>3 DEF Stale
  <2>8. DecidedOK(episodes', DOMAIN past', truth', acts', moment')
    BY <2>1, <2>2, <2>7 DEF DecidedOK
  <2>9. \A i \in DOMAIN acts : acts[i].ends <= moment
    <3> SUFFICES ASSUME NEW i \in DOMAIN acts PROVE acts[i].ends <= moment
      OBVIOUS
    <3>1. CASE i \in DOMAIN past
      <4>1. DOMAIN past' = {} /\ past[i] = acts[i] /\ acts[i].ends \in Nat
        BY <1>1, <2>1, <3>1
      <4>2. ~(past[i].ends > moment)
        BY <2>1, <3>1, <4>1 DEF DropsRunning
      <4> QED BY <1>0, <4>1, <4>2
    <3>2. CASE i \notin DOMAIN past
      BY <2>2, <3>2 DEF EndsOK
    <3> QED BY <3>1, <3>2
  <2>10. EndsOK(DOMAIN past', truth', acts', moment')
    BY <2>1, <2>7, <2>9 DEF EndsOK
  <2> QED BY <2>5, <2>6, <2>8, <2>10 DEF EpisodesOK
<1>8. CASE MomentPasses
  <2> SUFFICES ASSUME ~astray' PROVE EpisodesOK(episodes', DOMAIN past', truth', acts', moment', saved')
    BY DEF StraightInv
  <2>1. /\ episodes' = episodes /\ past' = past /\ acts' = acts /\ truth' = truth /\ moment' = moment + 1 /\ saved' = saved
        /\ ~astray
    BY <1>8 DEF MomentPasses, memoryVars
  <2>2. /\ OrderOK(truth, moment, saved) /\ LinkOK(episodes, truth.starts, truth.latest, truth.seen, moment)
        /\ DecidedOK(episodes, DOMAIN past, truth, acts, moment) /\ EndsOK(DOMAIN past, truth, acts, moment)
    BY <2>1 DEF StraightInv, EpisodesOK
  <2>3. OrderOK(truth, moment + 1, saved)
    BY <1>0, <2>2 DEF OrderOK
  <2>4. Stale(truth, moment) => Stale(truth, moment + 1)
    BY <1>0 DEF Stale
  <2>5. DecidedOK(episodes, DOMAIN past, truth, acts, moment + 1)
    BY <2>2, <2>4 DEF DecidedOK
  <2>6. \A i \in DOMAIN acts : acts[i].ends <= moment => acts[i].ends <= moment + 1
    BY <1>0, <1>1
  <2>7. EndsOK(DOMAIN past, truth, acts, moment + 1)
    BY <1>1, <2>2, <2>4, <2>6 DEF EndsOK
  <2>8. LinkOK(episodes, truth.starts, truth.latest, truth.seen, moment + 1)
    <3>1. PICK g \in [1..Len(episodes) -> 1..Len(truth.starts)] :
            LinkOf(g, episodes, truth.starts, truth.latest, truth.seen, moment)
      BY <2>2 DEF LinkOK
    <3>2. \A i \in 1..Len(truth.starts) : truth.starts[i] + Within + Lateness < moment =>
                                            truth.starts[i] + Within + Lateness < moment + 1
      <4>1. Within \in Nat /\ Lateness \in Nat /\ moment \in Nat /\ \A i \in 1..Len(truth.starts) : truth.starts[i] \in Nat
        BY <1>0
      <4> QED BY <4>1
    <3>3. LinkOf(g, episodes, truth.starts, truth.latest, truth.seen, moment + 1)
      BY <3>1, <3>2 DEF LinkOf
    <3> QED BY <3>3 DEF LinkOK
  <2>9. EpisodesOK(episodes, DOMAIN past, truth, acts, moment + 1, saved)
    BY <2>3, <2>5, <2>7, <2>8 DEF EpisodesOK
  <2> QED BY <2>1, <2>9
<1> QED BY <1>2, <1>4, <1>6, <1>7, <1>8

LEMMA StraightInit == HistoryInit => StraightInv
<1> SUFFICES ASSUME HistoryInit PROVE EpisodesOK(episodes, DOMAIN past, truth, acts, moment, saved)
    BY DEF StraightInv
<1> DEFINE none == [k \in {} |-> 0]
<1>1. /\ episodes = << >> /\ past = << >> /\ acts = << >> /\ moment = 1 /\ saved = 0
      /\ truth.starts = << >> /\ truth.latest = 0 /\ truth.seen = 0 /\ truth.decided = 0 /\ truth.acted = FALSE
    BY DEF HistoryInit, Unknown
<1>2. Len(<< >>) = 0 /\ 1..0 = {} /\ DOMAIN acts = {} /\ DOMAIN truth.starts = {}
    BY <1>1
<1>3. none \in [1..Len(<< >>) -> 1..Len(<< >>)]
    BY <1>2
<1> HIDE DEF none
<1>4. LinkOf(none, episodes, truth.starts, truth.latest, truth.seen, moment)
    BY <1>1, <1>2 DEF LinkOf
<1>5. LinkOK(episodes, truth.starts, truth.latest, truth.seen, moment)
    BY <1>1, <1>3, <1>4 DEF LinkOK
<1>6. OrderOK(truth, moment, saved)
    BY <1>1, <1>2 DEF OrderOK
<1>7. DecidedOK(episodes, DOMAIN past, truth, acts, moment) /\ EndsOK(DOMAIN past, truth, acts, moment)
    BY <1>1, <1>2 DEF DecidedOK, EndsOK
<1> QED BY <1>5, <1>6, <1>7 DEF EpisodesOK

LEMMA StraightKept == HistoryTypeOK /\ RememberInv /\ StraightInv /\ [HistoryNext]_historyVars => StraightInv'
<1> SUFFICES ASSUME HistoryTypeOK, RememberInv, StraightInv, [HistoryNext]_historyVars PROVE StraightInv'
    OBVIOUS
<1>1. CASE UNCHANGED historyVars
    BY <1>1 DEF historyVars, memoryVars, StraightInv
<1>2. ASSUME NEW t \in 1..moment, NEW kind \in Kinds,
             Watch(t, kind) \/ Miss(t, kind) \/ \E ban \in BOOLEAN : Strike(t, kind, ban)
      PROVE  StraightInv'
    BY <1>2, WatchStraight, MissStraight, StrikeStraight
<1> QED BY <1>1, <1>2, OtherStraight DEF HistoryNext, Kinds

LEMMA MemoryAnswers == HistoryTypeOK /\ RememberInv /\ StraightInv => MemoryAnswersAsHistory
<1> SUFFICES ASSUME HistoryTypeOK, RememberInv, StraightInv PROVE MemoryAnswersAsHistory
    OBVIOUS
<1>1. MaxPast + 1 >= NotCounting + Len(BanTimes) =>
        \A t \in 1..moment : Comes(t) => TierAt(past, t) = TierAt(acts, t)
    BY TiersAnswer
<1>2. ASSUME ~astray, NEW t \in LatestOf(truth.seen, 1)..moment, Comes(t)
      PROVE  CountSince(EpisodeStarts, t) = AtMostOf(CountSince(truth.starts, t), MaxEpisodes)
  <2>1. t \in Nat /\ t >= truth.seen
    BY HistoryTypes, EpisodeFields DEF LatestOf
  <2> QED BY <1>2, <2>1, EpisodesAnswer DEF StraightInv
<1>3. ~astray => OneDecisionPerEpisode
    BY DEF StraightInv, EpisodesOK, DecidedOK, OneDecisionPerEpisode
<1> QED BY <1>1, <1>2, <1>3 DEF MemoryAnswersAsHistory

\* history.py and decide.py: the bounded memory gives the tier that every action gives and, unless it went
\* astray, the returns that every episode gives and one decision for each episode.
THEOREM MemoryIsTheHistory == HistorySpec => []MemoryAnswersAsHistory
<1> DEFINE Inv == HistoryTypeOK /\ RememberInv /\ StraightInv
<1>1. HistoryInit => Inv
    BY TypesInit, RememberInit, StraightInit
<1>2. Inv /\ [HistoryNext]_historyVars => Inv'
    BY TypesKept, RememberKept, StraightKept
<1>3. Inv => MemoryAnswersAsHistory
    BY MemoryAnswers
<1> QED BY <1>1, <1>2, <1>3, PTL DEF HistorySpec
=============================================================================
