----------------------------- MODULE FileProofs -----------------------------
(***************************************************************************)
(* Proofs about what several processes write in the same files: the        *)
(* blocklist of Blocklist, for every set of networks and of writers, every *)
(* duration and every limit; the bases and -wal files of Restore, for any  *)
(* number of bases, of restorations at once, of starts and of faults; the  *)
(* base of Incidents, for every set of server processes and of subjects,   *)
(* every retention and number of observations.                             *)
(***************************************************************************)
EXTENDS Blocklist, Restore, Incidents, FiniteSetTheorems, TLAPS

-----------------------------------------------------------------------------
(* The blocklist: the inductive invariant, one conjunct per idea.           *)

\* One writer at most holds the lock, between the lock and the end of its write.
LockInv ==
    \A p \in Writers :
        locked[p] => lock = p /\ step[p] \in {"loading", "looked", "loaded", "replaced"}

\* No time is ahead of the file, and a file that does not exist has no ban.
TimeInv ==
    /\ mtime = 0 => file = NoBans
    /\ \A p \in Writers : stat[p] <= mtime /\ cacheTime[p] <= mtime

\* A writer that looked at the file under the lock knows its time; one that has replaced it knows
\* what it holds.
LoadInv ==
    /\ \A p \in Writers : step[p] = "looked" /\ locked[p] /\ ~disturbed[p] => stat[p] = mtime
    /\ \A p \in Writers : step[p] = "replaced" /\ ~unlocked => locked[p] /\ cache[p] = file

\* What the history variables record.
HistoryInv ==
    /\ ~readable => hidden
    /\ \A p \in Writers : (guess[p] => hidden) /\ (disturbed[p] => unlocked)

\* Automatic bans are asked for by the workers.
OpInv ==
    \A p \in Writers : op[p].ban.source = "auto" \/ step[p] = "counting" => p \in Workers

\* The workers that may still add an automatic ban to a full list: those that have one to write, and
\* those that will find room in a cache they hold to be current.
AboutToAdd(w) == op[w].ban.source = "auto" /\ step[w] \in {"locking", "loading", "looked", "loaded"}
Usable(w)  == cacheTime[w] = mtime \/ (step[w] = "counting" /\ (stat[w] = 0 \/ cacheTime[w] = stat[w]))
MayAdd     == {w \in Workers : AboutToAdd(w) \/ (AutoCount(cache[w]) < AutoMax /\ Usable(w))}

BoundInv ==
    ~unlocked /\ ~hidden => AutoCount(file) + Cardinality(MayAdd) <= AutoMax + Cardinality(Workers) - 1

SafeInv ==
    /\ BlocklistTypeOK /\ LockInv /\ TimeInv /\ LoadInv /\ HistoryInv
    /\ ListIsCurrent /\ CacheIsTheFile

CountInv == OpInv /\ BoundInv

-----------------------------------------------------------------------------
(* Types.                                                                   *)

LEMMA Durations ==
    /\ AutoMax \in Nat /\ AutoTime \in Nat /\ RiposteTime \in Nat
    /\ MaxClock \in Nat \ {0} /\ MaxWrites \in Nat /\ MaxListFaults \in Nat
    /\ Permanent \in Nat
BY BlocklistAssumption DEF Permanent

LEMMA NoBansInLists == NoBans \in Lists /\ NoBan \in Bans /\ NoOp \in Ops
BY Durations DEF NoBans, NoBan, NoOp, Lists, Bans, Ops

LEMMA KeptLists ==
    ASSUME BlocklistInit
    PROVE  file \in Lists /\ AutoCount(file) <= AutoMax
BY KeptAssumption DEF BlocklistInit

LEMMA ApplyType ==
    ASSUME NEW l \in Lists, NEW o \in Ops
    PROVE  Apply(l, o) \in Lists
BY DEF Apply, Lists, Ops

LEMMA TypeInit == BlocklistInit => BlocklistTypeOK
<1> SUFFICES ASSUME BlocklistInit PROVE BlocklistTypeOK
    OBVIOUS
<1>1. /\ readable \in BOOLEAN /\ coarse \in BOOLEAN /\ unlocked \in BOOLEAN /\ hidden \in BOOLEAN
      /\ locked \in [Writers -> BOOLEAN] /\ disturbed \in [Writers -> BOOLEAN]
      /\ guess \in [Writers -> BOOLEAN]
    BY Zenon DEF BlocklistInit
<1>2. /\ clock \in 1..(MaxClock + 1) /\ mtime \in 0..clock
      /\ writes \in 0..MaxWrites /\ listFaults \in 0..MaxListFaults
      /\ stat \in [Writers -> 0..clock] /\ cacheTime \in [Writers -> 0..clock]
    BY Durations DEF BlocklistInit
<1> QED
    BY <1>1, <1>2, NoBansInLists, KeptLists DEF BlocklistInit, BlocklistTypeOK

\* What a writer asks for is an operation.
LEMMA AskedType ==
    ASSUME BlocklistTypeOK, NEW p \in Writers, Asked(p)
    PROVE  op' \in [Writers -> Ops]
<1>1. \A s \in {"auto", "manual", "riposte"}, t \in 0..Permanent : [source |-> s, until |-> t] \in Bans
    BY DEF Bans
<1>2. clock + RiposteTime \in 0..Permanent /\ \A d \in ManualTimes : clock + d \in 0..Permanent
    BY BlocklistAssumption, Durations DEF Permanent, BlocklistTypeOK
<1>3. \A n \in Network, b \in Bans, k \in {"add", "add_unless_stronger", "remove", "remove_if"} :
          [kind |-> k, network |-> n, ban |-> b] \in Ops
    BY DEF Ops
<1>4. \E o \in Ops : op' = [op EXCEPT ![p] = o]
  <2>1. CASE \E n \in Network, t \in {clock + d : d \in ManualTimes} \cup {Permanent} :
                op' = [op EXCEPT ![p] = [kind |-> "add", network |-> n, ban |-> [source |-> "manual", until |-> t]]]
    <3>1. \A t \in {clock + d : d \in ManualTimes} \cup {Permanent} : [source |-> "manual", until |-> t] \in Bans
      <4> SUFFICES ASSUME NEW t \in {clock + d : d \in ManualTimes} \cup {Permanent}
                   PROVE  [source |-> "manual", until |-> t] \in Bans
          OBVIOUS
      <4>1. t \in 0..Permanent
          BY <1>2, Durations
      <4> QED
          BY <1>1, <4>1
    <3> QED
        BY <2>1, <3>1, <1>3
  <2>2. CASE \E n \in Network : op' = [op EXCEPT ![p] = [kind |-> "remove", network |-> n, ban |-> NoBan]]
      BY <2>2, <1>3, NoBansInLists
  <2>3. CASE \E n \in Network :
                op' = [op EXCEPT ![p] = [kind |-> "add_unless_stronger", network |-> n,
                                         ban |-> [source |-> "riposte", until |-> clock + RiposteTime]]]
      BY <2>3, <1>1, <1>2, <1>3
  <2>4. CASE \E n \in Network : op' = [op EXCEPT ![p] = [kind |-> "remove_if", network |-> n, ban |-> NoBan]]
      BY <2>4, <1>3, NoBansInLists
  <2> QED
      BY <2>1, <2>2, <2>3, <2>4 DEF Asked
<1> QED
    BY <1>4 DEF BlocklistTypeOK

LEMMA TypeStep ==
    ASSUME BlocklistTypeOK, [BlocklistNext]_listVars
    PROVE  BlocklistTypeOK'
<1> USE NoBansInLists, Durations
<1>1. ASSUME NEW p \in Writers, LookToCount(p) PROVE BlocklistTypeOK'
    BY <1>1 DEF LookToCount, Goes, BlocklistTypeOK
<1>2. ASSUME NEW p \in Writers, CountAuto(p) PROVE BlocklistTypeOK'
  <2>1. op' \in [Writers -> Ops]
    <3>1. \A n \in Network :
              [kind |-> "add_unless_stronger", network |-> n,
               ban |-> [source |-> "auto", until |-> clock + AutoTime]] \in Ops
        BY BlocklistAssumption DEF Ops, Bans, Permanent, BlocklistTypeOK
    <3> QED
        BY <1>2, <3>1 DEF CountAuto, BlocklistTypeOK
  <2>2. ReadCache(p) \in Lists /\ ReadTime(p) \in 0..clock
      BY <1>2 DEF ReadCache, ReadTime, BlocklistTypeOK
  <2>3. /\ step' \in [Writers -> {"idle", "counting", "locking", "loading", "looked", "loaded", "replaced"}]
        /\ writes' \in 0..MaxWrites
      BY <1>2 DEF CountAuto, BlocklistTypeOK
  <2> QED
      BY <1>2, <2>1, <2>2, <2>3 DEF CountAuto, BlocklistTypeOK
<1>3. ASSUME NEW p \in Writers, BeginWrite(p) PROVE BlocklistTypeOK'
    BY <1>3, AskedType DEF BeginWrite, Goes, BlocklistTypeOK
<1>4. ASSUME NEW p \in Writers, Acquire(p) PROVE BlocklistTypeOK'
    BY <1>4 DEF Acquire, Goes, BlocklistTypeOK
<1>5. ASSUME NEW p \in Writers, GoWithoutLock(p) PROVE BlocklistTypeOK'
    BY <1>5 DEF GoWithoutLock, Goes, Fault, BlocklistTypeOK
<1>6. ASSUME NEW p \in Writers, LookToWrite(p) PROVE BlocklistTypeOK'
    BY <1>6 DEF LookToWrite, Goes, BlocklistTypeOK
<1>7. ASSUME NEW p \in Writers, LoadToWrite(p) PROVE BlocklistTypeOK'
  <2>1. /\ list' \in [Writers -> Lists] /\ cache' \in [Writers -> Lists]
        /\ cacheTime' \in [Writers -> 0..clock] /\ guess' \in [Writers -> BOOLEAN]
    <3>1. CASE stat[p] = 0
        BY <1>7, <3>1 DEF LoadToWrite, Cached, BlocklistTypeOK
    <3>2. CASE stat[p] # 0 /\ readable
        BY <1>7, <3>2 DEF LoadToWrite, Cached, BlocklistTypeOK
    <3>3. CASE ~readable /\ Cached(p)
        BY <1>7, <3>3 DEF LoadToWrite, Cached, BlocklistTypeOK
    <3> QED
        BY <1>7, <3>1, <3>2, <3>3 DEF LoadToWrite
  <2> QED
      BY <1>7, <2>1 DEF LoadToWrite, Goes, BlocklistTypeOK
<1>8. ASSUME NEW p \in Writers, Unreadable(p) PROVE BlocklistTypeOK'
    BY <1>8 DEF Unreadable, Goes, Unlocks, Forgets, BlocklistTypeOK
<1>9. ASSUME NEW p \in Writers, NothingToWrite(p) PROVE BlocklistTypeOK'
    BY <1>9 DEF NothingToWrite, Goes, Unlocks, Forgets, BlocklistTypeOK
<1>10. ASSUME NEW p \in Writers, Replace(p) PROVE BlocklistTypeOK'
    BY <1>10, ApplyType DEF Replace, Goes, BlocklistTypeOK
<1>11. ASSUME NEW p \in Writers, KeepTime(p) PROVE BlocklistTypeOK'
    BY <1>11 DEF KeepTime, Goes, Unlocks, Forgets, BlocklistTypeOK
<1>12. ASSUME NEW p \in Writers, SaveFails(p) PROVE BlocklistTypeOK'
    BY <1>12 DEF SaveFails, Goes, Unlocks, Forgets, Fault, BlocklistTypeOK
<1>13. ASSUME NEW p \in Writers, WriterDies(p) PROVE BlocklistTypeOK'
    BY <1>13 DEF WriterDies, Unlocks, Forgets, Fault, BlocklistTypeOK
<1>14. ASSUME ListTick PROVE BlocklistTypeOK'
    BY <1>14 DEF ListTick, Fault, BlocklistTypeOK
<1>15. ASSUME LoseRights PROVE BlocklistTypeOK'
  <2>1. readable' \in BOOLEAN /\ hidden' \in BOOLEAN
      BY <1>15, Zenon DEF LoseRights
  <2>2. listFaults' \in 0..MaxListFaults
      BY <1>15 DEF LoseRights, Fault, BlocklistTypeOK
  <2> QED
      BY <1>15, <2>1, <2>2 DEF LoseRights, BlocklistTypeOK
<1>16. ASSUME RegainRights PROVE BlocklistTypeOK'
    BY <1>16 DEF RegainRights, Fault, BlocklistTypeOK
<1>17. ASSUME UNCHANGED listVars PROVE BlocklistTypeOK'
    BY <1>17 DEF listVars, BlocklistTypeOK
<1> QED
    BY <1>1, <1>2, <1>3, <1>4, <1>5, <1>6, <1>7, <1>8, <1>9, <1>10, <1>11, <1>12, <1>13, <1>14, <1>15, <1>16, <1>17 DEF BlocklistNext, Writing

-----------------------------------------------------------------------------
(* Safety.                                                                  *)

LEMMA SafeInit == BlocklistInit => SafeInv
<1> SUFFICES ASSUME BlocklistInit PROVE SafeInv
    OBVIOUS
<1>1. LockInv /\ TimeInv /\ LoadInv /\ HistoryInv
    BY DEF BlocklistInit, LockInv, TimeInv, LoadInv, HistoryInv
<1>2. ListIsCurrent /\ CacheIsTheFile
    BY DEF BlocklistInit, ListIsCurrent, CacheIsTheFile
<1> QED
    BY <1>1, <1>2, TypeInit DEF SafeInv

\* A process that holds the lock keeps it until its write has ended, alone.
LEMMA LockStep ==
    ASSUME BlocklistTypeOK, LockInv, [BlocklistNext]_listVars
    PROVE  LockInv'
<1>a. \A p \in Writers : p # Nobody
    BY BlocklistAssumption
<1>1. ASSUME NEW p \in Writers, LookToCount(p) PROVE LockInv'
    BY <1>1 DEF LookToCount, Goes, BlocklistTypeOK, LockInv
<1>2. ASSUME NEW p \in Writers, CountAuto(p) PROVE LockInv'
    BY <1>2 DEF CountAuto, ReadCache, ReadTime, Cached, BlocklistTypeOK, LockInv
<1>3. ASSUME NEW p \in Writers, BeginWrite(p) PROVE LockInv'
    BY <1>3 DEF BeginWrite, Goes, BlocklistTypeOK, LockInv
<1>4. ASSUME NEW p \in Writers, Acquire(p) PROVE LockInv'
    BY <1>4, <1>a DEF Acquire, Goes, BlocklistTypeOK, LockInv
<1>5. ASSUME NEW p \in Writers, GoWithoutLock(p) PROVE LockInv'
    BY <1>5 DEF GoWithoutLock, Goes, BlocklistTypeOK, LockInv
<1>6. ASSUME NEW p \in Writers, LookToWrite(p) PROVE LockInv'
    BY <1>6 DEF LookToWrite, Goes, BlocklistTypeOK, LockInv
<1>7. ASSUME NEW p \in Writers, LoadToWrite(p) PROVE LockInv'
    BY <1>7 DEF LoadToWrite, Goes, Cached, BlocklistTypeOK, LockInv
<1>8. ASSUME NEW p \in Writers, Unreadable(p) PROVE LockInv'
    BY <1>8 DEF Unreadable, Goes, Unlocks, Forgets, BlocklistTypeOK, LockInv
<1>9. ASSUME NEW p \in Writers, NothingToWrite(p) PROVE LockInv'
    BY <1>9 DEF NothingToWrite, Goes, Unlocks, Forgets, BlocklistTypeOK, LockInv
<1>10. ASSUME NEW p \in Writers, Replace(p) PROVE LockInv'
    BY <1>10 DEF Replace, Goes, BlocklistTypeOK, LockInv
<1>11. ASSUME NEW p \in Writers, KeepTime(p) PROVE LockInv'
    BY <1>11 DEF KeepTime, Goes, Unlocks, Forgets, BlocklistTypeOK, LockInv
<1>12. ASSUME NEW p \in Writers, SaveFails(p) PROVE LockInv'
    BY <1>12 DEF SaveFails, Goes, Unlocks, Forgets, BlocklistTypeOK, LockInv
<1>13. ASSUME NEW p \in Writers, WriterDies(p) PROVE LockInv'
    BY <1>13 DEF WriterDies, Unlocks, Forgets, BlocklistTypeOK, LockInv
<1>14. ASSUME ListTick PROVE LockInv'
    BY <1>14 DEF ListTick, BlocklistTypeOK, LockInv
<1>15. ASSUME LoseRights PROVE LockInv'
    BY <1>15 DEF LoseRights, BlocklistTypeOK, LockInv
<1>16. ASSUME RegainRights PROVE LockInv'
    BY <1>16 DEF RegainRights, BlocklistTypeOK, LockInv
<1>17. ASSUME UNCHANGED listVars PROVE LockInv'
    BY <1>17 DEF listVars, BlocklistTypeOK, LockInv
<1> QED
    BY <1>1, <1>2, <1>3, <1>4, <1>5, <1>6, <1>7, <1>8, <1>9, <1>10, <1>11, <1>12, <1>13, <1>14, <1>15, <1>16, <1>17 DEF BlocklistNext, Writing

\* Times never run ahead of the file.
LEMMA TimeStep ==
    ASSUME BlocklistTypeOK, TimeInv, [BlocklistNext]_listVars
    PROVE  TimeInv'
<1>1. ASSUME NEW p \in Writers, LookToCount(p) PROVE TimeInv'
    BY <1>1 DEF LookToCount, Goes, BlocklistTypeOK, TimeInv
<1>2. ASSUME NEW p \in Writers, CountAuto(p) PROVE TimeInv'
    BY <1>2 DEF CountAuto, ReadCache, ReadTime, Cached, BlocklistTypeOK, TimeInv
<1>3. ASSUME NEW p \in Writers, BeginWrite(p) PROVE TimeInv'
    BY <1>3 DEF BeginWrite, Goes, BlocklistTypeOK, TimeInv
<1>4. ASSUME NEW p \in Writers, Acquire(p) PROVE TimeInv'
    BY <1>4 DEF Acquire, Goes, BlocklistTypeOK, TimeInv
<1>5. ASSUME NEW p \in Writers, GoWithoutLock(p) PROVE TimeInv'
    BY <1>5 DEF GoWithoutLock, Goes, BlocklistTypeOK, TimeInv
<1>6. ASSUME NEW p \in Writers, LookToWrite(p) PROVE TimeInv'
    BY <1>6 DEF LookToWrite, Goes, BlocklistTypeOK, TimeInv
<1>7. ASSUME NEW p \in Writers, LoadToWrite(p) PROVE TimeInv'
    BY <1>7 DEF LoadToWrite, Goes, Cached, BlocklistTypeOK, TimeInv
<1>8. ASSUME NEW p \in Writers, Unreadable(p) PROVE TimeInv'
    BY <1>8 DEF Unreadable, Goes, Unlocks, Forgets, BlocklistTypeOK, TimeInv
<1>9. ASSUME NEW p \in Writers, NothingToWrite(p) PROVE TimeInv'
    BY <1>9 DEF NothingToWrite, Goes, Unlocks, Forgets, BlocklistTypeOK, TimeInv
<1>10. ASSUME NEW p \in Writers, Replace(p) PROVE TimeInv'
    BY <1>10 DEF Replace, Goes, BlocklistTypeOK, TimeInv
<1>11. ASSUME NEW p \in Writers, KeepTime(p) PROVE TimeInv'
    BY <1>11 DEF KeepTime, Goes, Unlocks, Forgets, BlocklistTypeOK, TimeInv
<1>12. ASSUME NEW p \in Writers, SaveFails(p) PROVE TimeInv'
    BY <1>12 DEF SaveFails, Goes, Unlocks, Forgets, BlocklistTypeOK, TimeInv
<1>13. ASSUME NEW p \in Writers, WriterDies(p) PROVE TimeInv'
    BY <1>13 DEF WriterDies, Unlocks, Forgets, BlocklistTypeOK, TimeInv
<1>14. ASSUME ListTick PROVE TimeInv'
    BY <1>14 DEF ListTick, BlocklistTypeOK, TimeInv
<1>15. ASSUME LoseRights PROVE TimeInv'
    BY <1>15 DEF LoseRights, BlocklistTypeOK, TimeInv
<1>16. ASSUME RegainRights PROVE TimeInv'
    BY <1>16 DEF RegainRights, BlocklistTypeOK, TimeInv
<1>17. ASSUME UNCHANGED listVars PROVE TimeInv'
    BY <1>17 DEF listVars, BlocklistTypeOK, TimeInv
<1> QED
    BY <1>1, <1>2, <1>3, <1>4, <1>5, <1>6, <1>7, <1>8, <1>9, <1>10, <1>11, <1>12, <1>13, <1>14, <1>15, <1>16, <1>17 DEF BlocklistNext, Writing

\* The history variables record what they should.
LEMMA HistoryStep ==
    ASSUME BlocklistTypeOK, HistoryInv, [BlocklistNext]_listVars
    PROVE  HistoryInv'
<1>1. ASSUME NEW p \in Writers, LookToCount(p) PROVE HistoryInv'
    BY <1>1 DEF LookToCount, Goes, BlocklistTypeOK, HistoryInv
<1>2. ASSUME NEW p \in Writers, CountAuto(p) PROVE HistoryInv'
    BY <1>2 DEF CountAuto, ReadCache, ReadTime, Cached, BlocklistTypeOK, HistoryInv
<1>3. ASSUME NEW p \in Writers, BeginWrite(p) PROVE HistoryInv'
    BY <1>3 DEF BeginWrite, Goes, BlocklistTypeOK, HistoryInv
<1>4. ASSUME NEW p \in Writers, Acquire(p) PROVE HistoryInv'
    BY <1>4 DEF Acquire, Goes, BlocklistTypeOK, HistoryInv
<1>5. ASSUME NEW p \in Writers, GoWithoutLock(p) PROVE HistoryInv'
    BY <1>5 DEF GoWithoutLock, Goes, BlocklistTypeOK, HistoryInv
<1>6. ASSUME NEW p \in Writers, LookToWrite(p) PROVE HistoryInv'
    BY <1>6 DEF LookToWrite, Goes, BlocklistTypeOK, HistoryInv
<1>7. ASSUME NEW p \in Writers, LoadToWrite(p) PROVE HistoryInv'
    BY <1>7 DEF LoadToWrite, Goes, Cached, BlocklistTypeOK, HistoryInv
<1>8. ASSUME NEW p \in Writers, Unreadable(p) PROVE HistoryInv'
    BY <1>8 DEF Unreadable, Goes, Unlocks, Forgets, BlocklistTypeOK, HistoryInv
<1>9. ASSUME NEW p \in Writers, NothingToWrite(p) PROVE HistoryInv'
    BY <1>9 DEF NothingToWrite, Goes, Unlocks, Forgets, BlocklistTypeOK, HistoryInv
<1>10. ASSUME NEW p \in Writers, Replace(p) PROVE HistoryInv'
    BY <1>10 DEF Replace, Goes, BlocklistTypeOK, HistoryInv
<1>11. ASSUME NEW p \in Writers, KeepTime(p) PROVE HistoryInv'
    BY <1>11 DEF KeepTime, Goes, Unlocks, Forgets, BlocklistTypeOK, HistoryInv
<1>12. ASSUME NEW p \in Writers, SaveFails(p) PROVE HistoryInv'
    BY <1>12 DEF SaveFails, Goes, Unlocks, Forgets, BlocklistTypeOK, HistoryInv
<1>13. ASSUME NEW p \in Writers, WriterDies(p) PROVE HistoryInv'
    BY <1>13 DEF WriterDies, Unlocks, Forgets, BlocklistTypeOK, HistoryInv
<1>14. ASSUME ListTick PROVE HistoryInv'
    BY <1>14 DEF ListTick, BlocklistTypeOK, HistoryInv
<1>15. ASSUME LoseRights PROVE HistoryInv'
    BY <1>15 DEF LoseRights, BlocklistTypeOK, HistoryInv
<1>16. ASSUME RegainRights PROVE HistoryInv'
    BY <1>16 DEF RegainRights, BlocklistTypeOK, HistoryInv
<1>17. ASSUME UNCHANGED listVars PROVE HistoryInv'
    BY <1>17 DEF listVars, BlocklistTypeOK, HistoryInv
<1> QED
    BY <1>1, <1>2, <1>3, <1>4, <1>5, <1>6, <1>7, <1>8, <1>9, <1>10, <1>11, <1>12, <1>13, <1>14, <1>15, <1>16, <1>17 DEF BlocklistNext, Writing

\* What a writer knows stays true until somebody writes without the lock.
LEMMA LoadStep ==
    ASSUME BlocklistTypeOK, LockInv, LoadInv, [BlocklistNext]_listVars
    PROVE  LoadInv'
<1>1. ASSUME NEW p \in Writers, LookToCount(p) PROVE LoadInv'
    BY <1>1 DEF LookToCount, Goes, BlocklistTypeOK, LockInv, LoadInv
<1>2. ASSUME NEW p \in Writers, CountAuto(p) PROVE LoadInv'
    BY <1>2 DEF CountAuto, ReadCache, ReadTime, Cached, BlocklistTypeOK, LockInv, LoadInv
<1>3. ASSUME NEW p \in Writers, BeginWrite(p) PROVE LoadInv'
    BY <1>3 DEF BeginWrite, Goes, BlocklistTypeOK, LockInv, LoadInv
<1>4. ASSUME NEW p \in Writers, Acquire(p) PROVE LoadInv'
    BY <1>4 DEF Acquire, Goes, BlocklistTypeOK, LockInv, LoadInv
<1>5. ASSUME NEW p \in Writers, GoWithoutLock(p) PROVE LoadInv'
    BY <1>5 DEF GoWithoutLock, Goes, BlocklistTypeOK, LockInv, LoadInv
<1>6. ASSUME NEW p \in Writers, LookToWrite(p) PROVE LoadInv'
    BY <1>6 DEF LookToWrite, Goes, BlocklistTypeOK, LockInv, LoadInv
<1>7. ASSUME NEW p \in Writers, LoadToWrite(p) PROVE LoadInv'
    BY <1>7 DEF LoadToWrite, Goes, Cached, BlocklistTypeOK, LockInv, LoadInv
<1>8. ASSUME NEW p \in Writers, Unreadable(p) PROVE LoadInv'
    BY <1>8 DEF Unreadable, Goes, Unlocks, Forgets, BlocklistTypeOK, LockInv, LoadInv
<1>9. ASSUME NEW p \in Writers, NothingToWrite(p) PROVE LoadInv'
    BY <1>9 DEF NothingToWrite, Goes, Unlocks, Forgets, BlocklistTypeOK, LockInv, LoadInv
<1>10. ASSUME NEW p \in Writers, Replace(p) PROVE LoadInv'
  <2>1. \A q \in Writers \ {p} : locked[p] /\ step[q] \in {"looked", "replaced"} => ~locked[q]
      BY <1>10 DEF LockInv
  <2>2. ASSUME NEW q \in Writers, step'[q] = "looked", locked'[q], ~disturbed'[q] PROVE stat'[q] = mtime'
      BY <1>10, <2>1, <2>2 DEF Replace, Goes, BlocklistTypeOK, LoadInv
  <2>3. ASSUME NEW q \in Writers, step'[q] = "replaced", ~unlocked' PROVE locked'[q] /\ cache'[q] = file'
      BY <1>10, <2>1, <2>3 DEF Replace, Goes, BlocklistTypeOK, LoadInv
  <2> QED
      BY <2>2, <2>3 DEF LoadInv
<1>11. ASSUME NEW p \in Writers, KeepTime(p) PROVE LoadInv'
    BY <1>11 DEF KeepTime, Goes, Unlocks, Forgets, BlocklistTypeOK, LockInv, LoadInv
<1>12. ASSUME NEW p \in Writers, SaveFails(p) PROVE LoadInv'
    BY <1>12 DEF SaveFails, Goes, Unlocks, Forgets, BlocklistTypeOK, LockInv, LoadInv
<1>13. ASSUME NEW p \in Writers, WriterDies(p) PROVE LoadInv'
    BY <1>13 DEF WriterDies, Unlocks, Forgets, BlocklistTypeOK, LockInv, LoadInv
<1>14. ASSUME ListTick PROVE LoadInv'
    BY <1>14 DEF ListTick, BlocklistTypeOK, LockInv, LoadInv
<1>15. ASSUME LoseRights PROVE LoadInv'
    BY <1>15 DEF LoseRights, BlocklistTypeOK, LockInv, LoadInv
<1>16. ASSUME RegainRights PROVE LoadInv'
    BY <1>16 DEF RegainRights, BlocklistTypeOK, LockInv, LoadInv
<1>17. ASSUME UNCHANGED listVars PROVE LoadInv'
    BY <1>17 DEF listVars, BlocklistTypeOK, LockInv, LoadInv
<1> QED
    BY <1>1, <1>2, <1>3, <1>4, <1>5, <1>6, <1>7, <1>8, <1>9, <1>10, <1>11, <1>12, <1>13, <1>14, <1>15, <1>16, <1>17 DEF BlocklistNext, Writing

\* A cache of the time of the file is the file.
LEMMA CacheStep ==
    ASSUME BlocklistTypeOK, LockInv, TimeInv, LoadInv, CacheIsTheFile, [BlocklistNext]_listVars
    PROVE  CacheIsTheFile'
<1>1. ASSUME NEW p \in Writers, LookToCount(p) PROVE CacheIsTheFile'
    BY <1>1 DEF LookToCount, Goes, BlocklistTypeOK, TimeInv, LoadInv, CacheIsTheFile
<1>2. ASSUME NEW p \in Writers, CountAuto(p) PROVE CacheIsTheFile'
    BY <1>2 DEF CountAuto, ReadCache, ReadTime, Cached, BlocklistTypeOK, TimeInv, LoadInv, CacheIsTheFile
<1>3. ASSUME NEW p \in Writers, BeginWrite(p) PROVE CacheIsTheFile'
    BY <1>3 DEF BeginWrite, Goes, BlocklistTypeOK, TimeInv, LoadInv, CacheIsTheFile
<1>4. ASSUME NEW p \in Writers, Acquire(p) PROVE CacheIsTheFile'
    BY <1>4 DEF Acquire, Goes, BlocklistTypeOK, TimeInv, LoadInv, CacheIsTheFile
<1>5. ASSUME NEW p \in Writers, GoWithoutLock(p) PROVE CacheIsTheFile'
    BY <1>5 DEF GoWithoutLock, Goes, BlocklistTypeOK, TimeInv, LoadInv, CacheIsTheFile
<1>6. ASSUME NEW p \in Writers, LookToWrite(p) PROVE CacheIsTheFile'
    BY <1>6 DEF LookToWrite, Goes, BlocklistTypeOK, TimeInv, LoadInv, CacheIsTheFile
<1>7. ASSUME NEW p \in Writers, LoadToWrite(p) PROVE CacheIsTheFile'
    BY <1>7 DEF LoadToWrite, Goes, Cached, BlocklistTypeOK, TimeInv, LoadInv, CacheIsTheFile
<1>8. ASSUME NEW p \in Writers, Unreadable(p) PROVE CacheIsTheFile'
    BY <1>8 DEF Unreadable, Goes, Unlocks, Forgets, BlocklistTypeOK, TimeInv, LoadInv, CacheIsTheFile
<1>9. ASSUME NEW p \in Writers, NothingToWrite(p) PROVE CacheIsTheFile'
    BY <1>9 DEF NothingToWrite, Goes, Unlocks, Forgets, BlocklistTypeOK, TimeInv, LoadInv, CacheIsTheFile
<1>10. ASSUME NEW p \in Writers, Replace(p) PROVE CacheIsTheFile'
  <2> SUFFICES ASSUME NEW q \in Writers, cacheTime'[q] = mtime', step'[q] # "replaced", ~coarse', ~unlocked'
               PROVE  FALSE
      BY DEF CacheIsTheFile
  <2>1. cacheTime[q] = clock /\ mtime # clock
      BY <1>10 DEF Replace
  <2>2. cacheTime[q] <= mtime /\ mtime \in 0..clock
      BY DEF TimeInv, BlocklistTypeOK
  <2> QED
      BY <2>1, <2>2 DEF BlocklistTypeOK
<1>11. ASSUME NEW p \in Writers, KeepTime(p) PROVE CacheIsTheFile'
    BY <1>11 DEF KeepTime, Goes, Unlocks, Forgets, BlocklistTypeOK, TimeInv, LoadInv, CacheIsTheFile
<1>12. ASSUME NEW p \in Writers, SaveFails(p) PROVE CacheIsTheFile'
    BY <1>12 DEF SaveFails, Goes, Unlocks, Forgets, BlocklistTypeOK, TimeInv, LoadInv, CacheIsTheFile
<1>13. ASSUME NEW p \in Writers, WriterDies(p) PROVE CacheIsTheFile'
    BY <1>13 DEF WriterDies, Unlocks, Forgets, BlocklistTypeOK, TimeInv, LoadInv, CacheIsTheFile
<1>14. ASSUME ListTick PROVE CacheIsTheFile'
    BY <1>14 DEF ListTick, BlocklistTypeOK, TimeInv, LoadInv, CacheIsTheFile
<1>15. ASSUME LoseRights PROVE CacheIsTheFile'
    BY <1>15 DEF LoseRights, BlocklistTypeOK, TimeInv, LoadInv, CacheIsTheFile
<1>16. ASSUME RegainRights PROVE CacheIsTheFile'
    BY <1>16 DEF RegainRights, BlocklistTypeOK, TimeInv, LoadInv, CacheIsTheFile
<1>17. ASSUME UNCHANGED listVars PROVE CacheIsTheFile'
    BY <1>17 DEF listVars, BlocklistTypeOK, TimeInv, LoadInv, CacheIsTheFile
<1> QED
    BY <1>1, <1>2, <1>3, <1>4, <1>5, <1>6, <1>7, <1>8, <1>9, <1>10, <1>11, <1>12, <1>13, <1>14, <1>15, <1>16, <1>17 DEF BlocklistNext, Writing

\* A list that a writer may rely on is the file.
LEMMA ListStep ==
    ASSUME BlocklistTypeOK, LockInv, TimeInv, LoadInv, CacheIsTheFile, ListIsCurrent, [BlocklistNext]_listVars
    PROVE  ListIsCurrent'
<1>1. ASSUME NEW p \in Writers, LookToCount(p) PROVE ListIsCurrent'
    BY <1>1 DEF LookToCount, Goes, BlocklistTypeOK, ListIsCurrent, Reliable
<1>2. ASSUME NEW p \in Writers, CountAuto(p) PROVE ListIsCurrent'
    BY <1>2 DEF CountAuto, ReadCache, ReadTime, Cached, BlocklistTypeOK, ListIsCurrent, Reliable
<1>3. ASSUME NEW p \in Writers, BeginWrite(p) PROVE ListIsCurrent'
    BY <1>3 DEF BeginWrite, Goes, BlocklistTypeOK, ListIsCurrent, Reliable
<1>4. ASSUME NEW p \in Writers, Acquire(p) PROVE ListIsCurrent'
    BY <1>4 DEF Acquire, Goes, BlocklistTypeOK, ListIsCurrent, Reliable
<1>5. ASSUME NEW p \in Writers, GoWithoutLock(p) PROVE ListIsCurrent'
    BY <1>5 DEF GoWithoutLock, Goes, BlocklistTypeOK, ListIsCurrent, Reliable
<1>6. ASSUME NEW p \in Writers, LookToWrite(p) PROVE ListIsCurrent'
    BY <1>6 DEF LookToWrite, Goes, BlocklistTypeOK, ListIsCurrent, Reliable
<1>7. ASSUME NEW p \in Writers, LoadToWrite(p) PROVE ListIsCurrent'
  <2>1. ASSUME Reliable(p)' PROVE list'[p] = file
    <3>1. locked[p] /\ ~disturbed[p] /\ stat[p] = mtime
        BY <1>7, <2>1 DEF LoadToWrite, Goes, Reliable, LoadInv
    <3>2. CASE stat[p] = 0
        BY <1>7, <3>1, <3>2 DEF LoadToWrite, TimeInv, BlocklistTypeOK, Cached
    <3>3. CASE stat[p] # 0 /\ readable
        BY <1>7, <3>3 DEF LoadToWrite, BlocklistTypeOK
    <3>4. CASE ~readable /\ Cached(p)
      <4>1. guess'[p] \/ stat[p] = 0
          BY <1>7, <3>4 DEF LoadToWrite, BlocklistTypeOK
      <4>2. ~coarse /\ ~unlocked => cache[p] = file
          BY <1>7, <3>1, <3>4 DEF LoadToWrite, Goes, Cached, CacheIsTheFile
      <4>3. stat[p] # 0
          BY <3>4 DEF Cached
      <4>4. ~coarse' /\ ~unlocked'
          BY <2>1, <4>1, <4>3 DEF Reliable
      <4> QED
          BY <1>7, <3>4, <4>2, <4>3, <4>4 DEF LoadToWrite, BlocklistTypeOK
    <3> QED
        BY <1>7, <3>2, <3>3, <3>4 DEF LoadToWrite
  <2>2. file' = file
      BY <1>7 DEF LoadToWrite
  <2> SUFFICES ASSUME NEW q \in Writers, step'[q] = "loaded", Reliable(q)' PROVE list'[q] = file'
      BY DEF ListIsCurrent
  <2>3. CASE q = p
      BY <2>1, <2>2, <2>3
  <2>4. CASE q # p
    <3>1. list'[q] = list[q] /\ step[q] = "loaded"
        BY <1>7, <2>4 DEF LoadToWrite, Goes, BlocklistTypeOK
    <3>2. Reliable(q)
        BY <1>7, <2>4 DEF LoadToWrite, Reliable, BlocklistTypeOK
    <3> QED
        BY <2>2, <3>1, <3>2 DEF ListIsCurrent
  <2> QED
      BY <2>3, <2>4
<1>8. ASSUME NEW p \in Writers, Unreadable(p) PROVE ListIsCurrent'
    BY <1>8 DEF Unreadable, Goes, Unlocks, Forgets, BlocklistTypeOK, ListIsCurrent, Reliable
<1>9. ASSUME NEW p \in Writers, NothingToWrite(p) PROVE ListIsCurrent'
    BY <1>9 DEF NothingToWrite, Goes, Unlocks, Forgets, BlocklistTypeOK, ListIsCurrent, Reliable
<1>10. ASSUME NEW p \in Writers, Replace(p) PROVE ListIsCurrent'
  <2>1. \A q \in Writers \ {p} : locked[p] /\ step[q] = "loaded" => ~locked[q]
      BY <1>10 DEF LockInv
  <2> QED
      BY <1>10, <2>1 DEF Replace, Goes, BlocklistTypeOK, ListIsCurrent, Reliable
<1>11. ASSUME NEW p \in Writers, KeepTime(p) PROVE ListIsCurrent'
    BY <1>11 DEF KeepTime, Goes, Unlocks, Forgets, BlocklistTypeOK, ListIsCurrent, Reliable
<1>12. ASSUME NEW p \in Writers, SaveFails(p) PROVE ListIsCurrent'
    BY <1>12 DEF SaveFails, Goes, Unlocks, Forgets, BlocklistTypeOK, ListIsCurrent, Reliable
<1>13. ASSUME NEW p \in Writers, WriterDies(p) PROVE ListIsCurrent'
    BY <1>13 DEF WriterDies, Unlocks, Forgets, BlocklistTypeOK, ListIsCurrent, Reliable
<1>14. ASSUME ListTick PROVE ListIsCurrent'
    BY <1>14 DEF ListTick, BlocklistTypeOK, ListIsCurrent, Reliable
<1>15. ASSUME LoseRights PROVE ListIsCurrent'
    BY <1>15 DEF LoseRights, BlocklistTypeOK, ListIsCurrent, Reliable
<1>16. ASSUME RegainRights PROVE ListIsCurrent'
    BY <1>16 DEF RegainRights, BlocklistTypeOK, ListIsCurrent, Reliable
<1>17. ASSUME UNCHANGED listVars PROVE ListIsCurrent'
    BY <1>17 DEF listVars, BlocklistTypeOK, ListIsCurrent, Reliable
<1> QED
    BY <1>1, <1>2, <1>3, <1>4, <1>5, <1>6, <1>7, <1>8, <1>9, <1>10, <1>11, <1>12, <1>13, <1>14, <1>15, <1>16, <1>17 DEF BlocklistNext, Writing

LEMMA SafeStep == SafeInv /\ [BlocklistNext]_listVars => SafeInv'
BY TypeStep, LockStep, TimeStep, HistoryStep, LoadStep, CacheStep, ListStep DEF SafeInv

LEMMA SafeAlways == BlocklistSpec => []SafeInv
BY SafeInit, SafeStep, PTL DEF BlocklistSpec

\* The variables keep their types.
THEOREM BlocklistTypeCorrect == BlocklistSpec => []BlocklistTypeOK
<1>1. SafeInv => BlocklistTypeOK
    BY DEF SafeInv
<1> QED
    BY <1>1, SafeAlways, PTL

\* A writer that may rely on its list changes exactly what the file holds: no ban is lost between its
\* reading and its writing.  And a cache of the modification time of the file may be used in its place.
THEOREM NoBanIsLost == BlocklistSpec => []ListsAreCurrent
<1>1. SafeInv => ListsAreCurrent
    BY DEF SafeInv, ListsAreCurrent
<1> QED
    BY <1>1, SafeAlways, PTL

-----------------------------------------------------------------------------
(* Manual bans.                                                             *)

\* The file changes only when a writer replaces it.
LEMMA OnlyReplace ==
    ASSUME [BlocklistNext]_listVars, ~\E p \in Writers : Replace(p)
    PROVE  UNCHANGED <<file, mtime, unlocked>>
<1>1. ASSUME NEW p \in Writers, Writing(p) PROVE UNCHANGED <<file, mtime, unlocked>>
    BY <1>1 DEF Writing, LookToCount, CountAuto, BeginWrite, Acquire, GoWithoutLock, LookToWrite, LoadToWrite,
        Unreadable, NothingToWrite, KeepTime, SaveFails, WriterDies
<1>2. ASSUME ListTick \/ LoseRights \/ RegainRights PROVE UNCHANGED <<file, mtime, unlocked>>
    BY <1>2 DEF ListTick, LoseRights, RegainRights
<1>3. ASSUME UNCHANGED listVars PROVE UNCHANGED <<file, mtime, unlocked>>
    BY <1>3 DEF listVars
<1> QED
    BY <1>1, <1>2, <1>3 DEF BlocklistNext

\* An automatic operation leaves a manual ban in force.
LEMMA ManualIsStronger ==
    ASSUME NEW l \in Lists, NEW o, Changes(l, o, clock), Automatic(o)
    PROVE  ~(l[o.network].source = "manual" /\ InForceAt(l[o.network], clock))
<1>1. CASE o.kind = "add_unless_stronger"
    BY <1>1 DEF Changes, StrongerBan
<1>2. CASE o.kind = "remove_if"
    BY <1>2 DEF Changes
<1> QED
    BY <1>1, <1>2 DEF Automatic

\* The entry of a network changes only by an operation on it, and a manual ban in force is never
\* replaced or removed by the program.
THEOREM ManualBansStand == BlocklistSpec => ManualBanStands
<1> DEFINE Stands(n) ==
        file'[n] # file[n] =>
            \E p \in Writers :
                /\ step[p] = "loaded"
                /\ Reliable(p) =>
                      /\ op[p].network = n
                      /\ Automatic(op[p]) => ~(file[n].source = "manual" /\ InForceAt(file[n], clock))
<1>1. ASSUME SafeInv, [BlocklistNext]_listVars PROVE [\A n \in Network : Stands(n)]_listVars
  <2>1. ASSUME NEW p \in Writers, Replace(p), NEW n \in Network PROVE Stands(n)
    <3>1. step[p] = "loaded" /\ Changes(list[p], op[p], clock) /\ file' = Apply(list[p], op[p])
        BY <2>1 DEF Replace, Goes
    <3>2. ASSUME file'[n] # file[n], Reliable(p) PROVE list[p] = file /\ op[p].network = n
      <4>1. list[p] = file
          BY <1>1, <3>1, <3>2 DEF SafeInv, ListIsCurrent
      <4>2. n # op[p].network => file'[n] = file[n]
          BY <1>1, <3>1, <4>1 DEF Apply, SafeInv, BlocklistTypeOK, Lists
      <4> QED
          BY <3>2, <4>1, <4>2
    <3>3. ASSUME file'[n] # file[n], Reliable(p), Automatic(op[p])
          PROVE  ~(file[n].source = "manual" /\ InForceAt(file[n], clock))
      <4>1. list[p] = file /\ op[p].network = n /\ file \in Lists
          BY <1>1, <3>2, <3>3 DEF SafeInv, BlocklistTypeOK
      <4> QED
          BY <3>1, <3>3, <4>1, ManualIsStronger
    <3> QED
        BY <3>1, <3>2, <3>3
  <2>2. CASE ~\E p \in Writers : Replace(p)
      BY <1>1, <2>2, OnlyReplace
  <2> QED
      BY <2>1, <2>2
<1> QED
    BY <1>1, SafeAlways, PTL DEF BlocklistSpec, ManualBanStands

-----------------------------------------------------------------------------
(* The limit of automatic bans.                                             *)

LEMMA MayAddFinite ==
    /\ IsFiniteSet(MayAdd) /\ Cardinality(MayAdd) \in Nat
    /\ Cardinality(MayAdd) <= Cardinality(Workers) /\ Cardinality(Workers) \in Nat \ {0}
<1>1. MayAdd \subseteq Workers
    BY DEF MayAdd
<1> QED
    BY <1>1, BlocklistAssumption, FS_Subset, FS_CardinalityType, FS_EmptySet

LEMMA AutoCountType == \A l : AutoCount(l) \in Nat
<1> TAKE l
<1>1. IsFiniteSet({n \in Network : l[n].source = "auto"})
    BY BlocklistAssumption, FS_Subset
<1> QED
    BY <1>1, FS_CardinalityType DEF AutoCount

\* An operation adds one automatic ban at most, and only the automatic ban of a worker adds one.
LEMMA AppliedCount ==
    ASSUME NEW l \in Lists, NEW o \in Ops
    PROVE  /\ AutoCount(Apply(l, o)) <= AutoCount(l) + 1
           /\ o.ban.source # "auto" => AutoCount(Apply(l, o)) <= AutoCount(l)
<1> DEFINE Autos == {n \in Network : l[n].source = "auto"}
           Then  == {n \in Network : Apply(l, o)[n].source = "auto"}
<1>1. IsFiniteSet(Autos)
    BY BlocklistAssumption, FS_Subset
<1>2. Then \subseteq Autos \cup {o.network}
    BY DEF Apply, Lists
<1>3. o.ban.source # "auto" => Then \subseteq Autos
    BY DEF Apply, Lists
<1>4. /\ IsFiniteSet(Autos \cup {o.network})
      /\ Cardinality(Autos \cup {o.network}) <= Cardinality(Autos) + 1
  <2>1. IsFiniteSet(Autos \cup {o.network})
      BY <1>1, FS_AddElement
  <2>2. Cardinality(Autos \cup {o.network})
            = IF o.network \in Autos THEN Cardinality(Autos) ELSE Cardinality(Autos) + 1
      BY <1>1, FS_AddElement
  <2>3. Cardinality(Autos) \in Nat
      BY <1>1, FS_CardinalityType
  <2> QED
      BY <2>1, <2>2, <2>3
<1>5. Cardinality(Then) <= Cardinality(Autos) + 1
  <2>1. Cardinality(Then) <= Cardinality(Autos \cup {o.network})
      BY <1>2, <1>4, FS_Subset
  <2> HIDE DEF Autos, Then
  <2>2. Cardinality(Autos) \in Nat /\ Cardinality(Autos \cup {o.network}) \in Nat
      BY <1>1, <1>4, FS_CardinalityType
  <2>3. IsFiniteSet(Then) /\ Cardinality(Then) \in Nat
      BY <1>2, <1>4, FS_Subset, FS_CardinalityType
  <2> QED
      BY <1>4, <2>1, <2>2, <2>3
<1>6. o.ban.source # "auto" => Cardinality(Then) <= Cardinality(Autos)
    BY <1>1, <1>3, FS_Subset
<1> QED
    BY <1>5, <1>6 DEF AutoCount

\* Only the workers ask for automatic bans.
LEMMA OpStep ==
    ASSUME BlocklistTypeOK, OpInv, [BlocklistNext]_listVars
    PROVE  OpInv'
<1>1. ASSUME NEW p \in Writers, LookToCount(p) PROVE OpInv'
    BY <1>1 DEF LookToCount, Goes, BlocklistTypeOK, OpInv
<1>2. ASSUME NEW p \in Writers, CountAuto(p) PROVE OpInv'
  <2>1. ASSUME NEW q \in Writers, q # p PROVE op'[q] = op[q] /\ step'[q] = step[q]
      BY <1>2, <2>1 DEF CountAuto, BlocklistTypeOK
  <2>2. p \in Workers
      BY <1>2 DEF CountAuto, OpInv
  <2> QED
      BY <2>1, <2>2 DEF OpInv
<1>3. ASSUME NEW p \in Writers, BeginWrite(p) PROVE OpInv'
  <2>1. ASSUME NEW q \in Writers, q # p PROVE op'[q] = op[q]
      BY <1>3, <2>1 DEF BeginWrite, Asked, BlocklistTypeOK
  <2>2. step'[p] = "locking" /\ \A q \in Writers : q # p => step'[q] = step[q]
      BY <1>3 DEF BeginWrite, Goes, BlocklistTypeOK
  <2>3. op'[p].ban.source # "auto"
      BY <1>3 DEF BeginWrite, Asked, NoBan, BlocklistTypeOK
  <2> QED
      BY <2>1, <2>2, <2>3 DEF OpInv
<1>4. ASSUME NEW p \in Writers, Acquire(p) PROVE OpInv'
    BY <1>4 DEF Acquire, Goes, BlocklistTypeOK, OpInv
<1>5. ASSUME NEW p \in Writers, GoWithoutLock(p) PROVE OpInv'
    BY <1>5 DEF GoWithoutLock, Goes, BlocklistTypeOK, OpInv
<1>6. ASSUME NEW p \in Writers, LookToWrite(p) PROVE OpInv'
    BY <1>6 DEF LookToWrite, Goes, BlocklistTypeOK, OpInv
<1>7. ASSUME NEW p \in Writers, LoadToWrite(p) PROVE OpInv'
    BY <1>7 DEF LoadToWrite, Goes, BlocklistTypeOK, OpInv
<1>8. ASSUME NEW p \in Writers, Unreadable(p) PROVE OpInv'
    BY <1>8 DEF Unreadable, Goes, Forgets, NoOp, NoBan, BlocklistTypeOK, OpInv
<1>9. ASSUME NEW p \in Writers, NothingToWrite(p) PROVE OpInv'
    BY <1>9 DEF NothingToWrite, Goes, Forgets, NoOp, NoBan, BlocklistTypeOK, OpInv
<1>10. ASSUME NEW p \in Writers, Replace(p) PROVE OpInv'
    BY <1>10 DEF Replace, Goes, BlocklistTypeOK, OpInv
<1>11. ASSUME NEW p \in Writers, KeepTime(p) PROVE OpInv'
    BY <1>11 DEF KeepTime, Goes, Forgets, NoOp, NoBan, BlocklistTypeOK, OpInv
<1>12. ASSUME NEW p \in Writers, SaveFails(p) PROVE OpInv'
    BY <1>12 DEF SaveFails, Goes, Forgets, NoOp, NoBan, BlocklistTypeOK, OpInv
<1>13. ASSUME NEW p \in Writers, WriterDies(p) PROVE OpInv'
    BY <1>13 DEF WriterDies, Forgets, NoOp, NoBan, BlocklistTypeOK, OpInv
<1>14. ASSUME ListTick PROVE OpInv'
    BY <1>14 DEF ListTick, BlocklistTypeOK, OpInv
<1>15. ASSUME LoseRights PROVE OpInv'
    BY <1>15 DEF LoseRights, BlocklistTypeOK, OpInv
<1>16. ASSUME RegainRights PROVE OpInv'
    BY <1>16 DEF RegainRights, BlocklistTypeOK, OpInv
<1>17. ASSUME UNCHANGED listVars PROVE OpInv'
    BY <1>17 DEF listVars, BlocklistTypeOK, OpInv
<1> QED
    BY <1>1, <1>2, <1>3, <1>4, <1>5, <1>6, <1>7, <1>8, <1>9, <1>10, <1>11, <1>12, <1>13, <1>14, <1>15, <1>16, <1>17 DEF BlocklistNext, Writing

\* A worker whose variables do not change is in the same case as before.
LEMMA SameCase ==
    ASSUME NEW q \in Workers, q \in MayAdd', mtime' = mtime, op'[q] = op[q], step'[q] = step[q],
           cache'[q] = cache[q], cacheTime'[q] = cacheTime[q], stat'[q] = stat[q]
    PROVE  q \in MayAdd
BY DEF MayAdd, AboutToAdd, Usable

\* While the file holds as many automatic bans as the limit, a worker that could not add one still
\* cannot after a step that is not the replacement of the file.
LEMMA NoneJoins ==
    ASSUME SafeInv, OpInv, AutoCount(file) >= AutoMax, ~unlocked, ~hidden,
           [BlocklistNext]_listVars, ~\E p \in Writers : Replace(p)
    PROVE  MayAdd' \subseteq MayAdd
<1>a. ~(AutoCount(file) < AutoMax) /\ BlocklistTypeOK /\ readable /\ Workers \subseteq Writers
    BY AutoCountType, Durations DEF SafeInv, HistoryInv, Writers
<1> DEFINE Alone(p) ==
        \A q \in Workers \ {p} : /\ mtime' = mtime /\ op'[q] = op[q] /\ step'[q] = step[q] /\ stat'[q] = stat[q]
                                 /\ cache'[q] = cache[q] /\ cacheTime'[q] = cacheTime[q]
<1>b. ASSUME NEW p \in Writers, Alone(p), p \in MayAdd' => p \in MayAdd PROVE MayAdd' \subseteq MayAdd
  <2> SUFFICES ASSUME NEW q \in MayAdd' PROVE q \in MayAdd
      OBVIOUS
  <2>1. q \in Workers
      BY DEF MayAdd
  <2> QED
      BY <1>b, <2>1, SameCase
<1>1. ASSUME NEW p \in Writers, LookToCount(p) PROVE MayAdd' \subseteq MayAdd
  <2>1. Alone(p)
      BY <1>a, <1>1 DEF LookToCount, Goes, BlocklistTypeOK
  <2>2. ASSUME p \in MayAdd' PROVE p \in MayAdd
    <3>1. ~AboutToAdd(p)' /\ mtime' = mtime /\ p \in Workers
        BY <1>a, <1>1 DEF AboutToAdd, LookToCount, Goes, BlocklistTypeOK
    <3>2. AutoCount(cache'[p]) < AutoMax /\ Usable(p)'
        BY <2>2, <3>1 DEF MayAdd
    <3>3. CASE mtime = 0
      <4>1. cache'[p] = NoBans /\ file = NoBans
          BY <1>a, <1>1, <3>3 DEF LookToCount, BlocklistTypeOK, SafeInv, TimeInv
      <4> QED
          BY <1>a, <3>2, <4>1
    <3>4. CASE mtime # 0
        BY <1>a, <1>1, <3>1, <3>2, <3>4 DEF LookToCount, BlocklistTypeOK, Usable, MayAdd
    <3> QED
        BY <3>3, <3>4
  <2> QED
      BY <1>b, <2>1, <2>2
<1>2. ASSUME NEW p \in Writers, CountAuto(p) PROVE MayAdd' \subseteq MayAdd
  <2>1. Alone(p)
      BY <1>a, <1>2 DEF CountAuto, BlocklistTypeOK
  <2>2. ASSUME p \in MayAdd' PROVE p \in MayAdd
    <3>1. p \in Workers /\ step[p] = "counting" /\ mtime' = mtime /\ cache'[p] = ReadCache(p)
        BY <1>a, <1>2 DEF CountAuto, OpInv, BlocklistTypeOK
    <3>2. BelowLimit(p) \/ step'[p] = "idle"
        BY <1>a, <1>2 DEF CountAuto, BlocklistTypeOK
    <3>3. AutoCount(ReadCache(p)) < AutoMax
        BY <2>2, <3>1, <3>2 DEF MayAdd, AboutToAdd, BelowLimit
    <3>4. ReadCache(p) = cache[p] /\ (stat[p] = 0 \/ Cached(p))
        BY <1>a, <3>3 DEF ReadCache
    <3> QED
        BY <3>1, <3>3, <3>4 DEF MayAdd, Usable, Cached
  <2> QED
      BY <1>b, <2>1, <2>2
<1>3. ASSUME NEW p \in Writers, BeginWrite(p) PROVE MayAdd' \subseteq MayAdd
  <2>1. /\ \A q \in Workers \ {p} : op'[q] = op[q] /\ step'[q] = step[q]
        /\ op'[p].ban.source # "auto" /\ step'[p] = "locking"
      BY <1>a, <1>3 DEF BeginWrite, Goes, Asked, NoBan, BlocklistTypeOK
  <2>2. UNCHANGED <<mtime, stat, cache, cacheTime>>
      BY <1>3 DEF BeginWrite
  <2> QED
      BY <1>b, <2>1, <2>2 DEF MayAdd, AboutToAdd, Usable
<1>4. ASSUME NEW p \in Writers, LoadToWrite(p) PROVE MayAdd' \subseteq MayAdd
  <2>1. Alone(p)
      BY <1>a, <1>4 DEF LoadToWrite, Goes, BlocklistTypeOK
  <2>2. ASSUME p \in MayAdd' PROVE p \in MayAdd
    <3>1. mtime' = mtime /\ p \in Workers /\ step'[p] = "loaded" /\ step[p] = "looked" /\ op' = op
        BY <1>a, <1>4, <2>2 DEF LoadToWrite, Goes, BlocklistTypeOK, MayAdd
    <3>2. CASE AboutToAdd(p)'
        BY <3>1, <3>2 DEF MayAdd, AboutToAdd
    <3>3. CASE ~AboutToAdd(p)'
      <4>1. AutoCount(cache'[p]) < AutoMax /\ cacheTime'[p] = mtime
          BY <2>2, <3>1, <3>3 DEF MayAdd, Usable
      <4>2. stat[p] # 0 /\ readable => cache'[p] = file
          BY <1>a, <1>4 DEF LoadToWrite, BlocklistTypeOK
      <4>3. CASE stat[p] = 0
        <5>1. cache'[p] = NoBans /\ mtime = 0
            BY <1>a, <1>4, <4>1, <4>3 DEF LoadToWrite, BlocklistTypeOK, Cached
        <5>2. file = NoBans
            BY <5>1 DEF SafeInv, TimeInv
        <5> QED
            BY <1>a, <4>1, <5>1, <5>2
      <4> QED
          BY <1>a, <4>1, <4>2, <4>3
    <3> QED
        BY <3>2, <3>3
  <2> QED
      BY <1>b, <2>1, <2>2
<1>5. ASSUME NEW p \in Writers, KeepTime(p) PROVE MayAdd' \subseteq MayAdd
  <2>1. Alone(p)
      BY <1>a, <1>5 DEF KeepTime, Goes, Forgets, BlocklistTypeOK
  <2>2. cache'[p] = file /\ step'[p] = "idle"
      BY <1>a, <1>5 DEF KeepTime, Goes, BlocklistTypeOK, SafeInv, LoadInv
  <2>3. p \notin MayAdd'
      BY <1>a, <2>2 DEF MayAdd, AboutToAdd
  <2> QED
      BY <1>b, <2>1, <2>3
<1>6. ASSUME NEW p \in Writers, WriterDies(p) PROVE MayAdd' \subseteq MayAdd
  <2>1. Alone(p)
      BY <1>a, <1>6 DEF WriterDies, Forgets, BlocklistTypeOK
  <2>2. cache'[p] = NoBans /\ cacheTime'[p] = 0 /\ step'[p] = "idle" /\ mtime' = mtime
      BY <1>a, <1>6 DEF WriterDies, BlocklistTypeOK
  <2>3. mtime = 0 => file = NoBans
      BY DEF SafeInv, TimeInv
  <2>4. p \notin MayAdd'
      BY <1>a, <2>2, <2>3 DEF MayAdd, AboutToAdd, Usable
  <2> QED
      BY <1>b, <2>1, <2>4
<1>7. ASSUME NEW p \in Writers, Acquire(p) \/ GoWithoutLock(p) \/ LookToWrite(p) PROVE MayAdd' \subseteq MayAdd
  <2>1. Alone(p)
      BY <1>a, <1>7 DEF Acquire, GoWithoutLock, LookToWrite, Goes, BlocklistTypeOK
  <2>2. ASSUME p \in MayAdd' PROVE p \in MayAdd
      BY <1>a, <1>7, <2>2 DEF Acquire, GoWithoutLock, LookToWrite, Goes, BlocklistTypeOK, MayAdd, AboutToAdd, Usable
  <2> QED
      BY <1>b, <2>1, <2>2
<1>8. ASSUME NEW p \in Writers, Unreadable(p) \/ NothingToWrite(p) \/ SaveFails(p) PROVE MayAdd' \subseteq MayAdd
  <2>1. Alone(p)
      BY <1>a, <1>8 DEF Unreadable, NothingToWrite, SaveFails, Goes, Forgets, BlocklistTypeOK
  <2>2. ASSUME p \in MayAdd' PROVE p \in MayAdd
      BY <1>a, <1>8, <2>2 DEF Unreadable, NothingToWrite, SaveFails, Goes, BlocklistTypeOK, MayAdd, AboutToAdd, Usable
  <2> QED
      BY <1>b, <2>1, <2>2
<1>9. ASSUME ListTick \/ LoseRights \/ RegainRights \/ UNCHANGED listVars PROVE MayAdd' \subseteq MayAdd
    BY <1>9 DEF ListTick, LoseRights, RegainRights, listVars, MayAdd, AboutToAdd, Usable
<1> QED
    BY <1>1, <1>2, <1>3, <1>4, <1>5, <1>6, <1>7, <1>8, <1>9 DEF BlocklistNext, Writing

\* The replacement that adds an automatic ban takes its worker out of those that may add one.
LEMMA ReplaceCounts ==
    ASSUME SafeInv, OpInv, NEW p \in Writers, Replace(p), AutoCount(file') >= AutoMax, ~unlocked', ~hidden'
    PROVE  /\ MayAdd' \subseteq MayAdd \ {p}
           /\ AutoCount(file') <= AutoCount(file) + 1
           /\ p \notin MayAdd => AutoCount(file') <= AutoCount(file)
<1>1. list[p] = file /\ file' = Apply(file, op[p]) /\ cache'[p] = file' /\ step'[p] = "replaced"
  <2>1. Reliable(p) /\ step[p] = "loaded"
      BY DEF Replace, Goes, SafeInv, HistoryInv, Reliable
  <2> QED
      BY <2>1 DEF Replace, Goes, SafeInv, ListIsCurrent, BlocklistTypeOK
<1>2. ~(AutoCount(file') < AutoMax)
    BY AutoCountType, Durations
<1>3. ASSUME NEW q \in MayAdd' PROVE q \in MayAdd \ {p}
  <2>1. q # p
      BY <1>1, <1>2, <1>3 DEF MayAdd, AboutToAdd
  <2>2. /\ q \in Workers /\ op'[q] = op[q] /\ step'[q] = step[q] /\ cache'[q] = cache[q]
        /\ cacheTime'[q] = cacheTime[q] /\ stat'[q] = stat[q] /\ mtime' = clock
      BY <2>1, <1>3 DEF MayAdd, Replace, Goes, SafeInv, BlocklistTypeOK
  <2>3. cacheTime[q] <= mtime /\ mtime <= clock /\ mtime \in Nat /\ clock \in Nat /\ cacheTime[q] \in Nat
    <3>1. q \in Writers /\ BlocklistTypeOK /\ TimeInv
        BY <2>2 DEF SafeInv, Writers
    <3> QED
        BY <3>1, Durations DEF TimeInv, BlocklistTypeOK
  <2>4. cacheTime[q] = clock => cacheTime[q] = mtime
      BY <2>3
  <2> QED
      BY <1>3, <2>1, <2>2, <2>4 DEF MayAdd, AboutToAdd, Usable
<1>4. op[p] \in Ops /\ file \in Lists
    BY DEF SafeInv, BlocklistTypeOK
<1>5. p \notin MayAdd => op[p].ban.source # "auto"
    BY DEF MayAdd, AboutToAdd, OpInv, Replace, Goes
<1> QED
    BY <1>1, <1>3, <1>4, <1>5, AppliedCount

LEMMA BoundStep ==
    ASSUME SafeInv, OpInv, BoundInv, [BlocklistNext]_listVars
    PROVE  BoundInv'
<1> SUFFICES ASSUME ~unlocked', ~hidden'
             PROVE  AutoCount(file') + Cardinality(MayAdd') <= AutoMax + Cardinality(Workers) - 1
    BY DEF BoundInv
<1>1. /\ IsFiniteSet(MayAdd') /\ Cardinality(MayAdd') \in Nat
      /\ Cardinality(MayAdd') <= Cardinality(Workers) /\ Cardinality(Workers) \in Nat \ {0}
  <2>1. MayAdd' \subseteq Workers
      BY DEF MayAdd
  <2> QED
      BY <2>1, BlocklistAssumption, FS_Subset, FS_CardinalityType, FS_EmptySet
<1>2. AutoCount(file') \in Nat /\ AutoCount(file) \in Nat
    BY AutoCountType
<1>3. ~unlocked /\ ~hidden
  <2>1. ASSUME NEW p \in Writers, Writing(p) PROVE ~unlocked /\ ~hidden
    <3>1. CASE Replace(p)
        BY <3>1 DEF Replace
    <3>2. CASE ~Replace(p)
        BY <2>1, <3>2 DEF Writing, LookToCount, CountAuto, BeginWrite, Acquire, GoWithoutLock, LookToWrite,
            LoadToWrite, Unreadable, NothingToWrite, KeepTime, SaveFails, WriterDies
    <3> QED
        BY <3>1, <3>2
  <2>2. ASSUME ListTick \/ LoseRights \/ RegainRights \/ UNCHANGED listVars PROVE ~unlocked /\ ~hidden
      BY <2>2 DEF ListTick, LoseRights, RegainRights, listVars
  <2> QED
      BY <2>1, <2>2 DEF BlocklistNext
<1>4. AutoCount(file) + Cardinality(MayAdd) <= AutoMax + Cardinality(Workers) - 1
    BY <1>3 DEF BoundInv
<1>5. CASE AutoCount(file') < AutoMax
    BY <1>1, <1>2, <1>5, Durations
<1>6. CASE AutoCount(file') >= AutoMax /\ \E p \in Writers : Replace(p)
  <2>1. PICK p \in Writers : Replace(p)
      BY <1>6
  <2>2. /\ MayAdd' \subseteq MayAdd \ {p}
        /\ AutoCount(file') <= AutoCount(file) + 1
        /\ p \notin MayAdd => AutoCount(file') <= AutoCount(file)
      BY <1>6, <2>1, ReplaceCounts
  <2>3. Cardinality(MayAdd') <= Cardinality(MayAdd \ {p})
      BY <2>2, MayAddFinite, FS_RemoveElement, FS_Subset
  <2>4. Cardinality(MayAdd \ {p}) = IF p \in MayAdd THEN Cardinality(MayAdd) - 1 ELSE Cardinality(MayAdd)
      BY MayAddFinite, FS_RemoveElement
  <2> QED
      BY <1>1, <1>2, <1>4, <2>2, <2>3, <2>4, MayAddFinite, Durations
<1>7. CASE AutoCount(file') >= AutoMax /\ ~\E p \in Writers : Replace(p)
  <2>1. file' = file
      BY <1>7, OnlyReplace
  <2>2. MayAdd' \subseteq MayAdd
      BY <1>3, <1>7, <2>1, NoneJoins
  <2>3. Cardinality(MayAdd') <= Cardinality(MayAdd)
      BY <2>2, MayAddFinite, FS_Subset
  <2> QED
      BY <1>1, <1>2, <1>4, <2>1, <2>3, MayAddFinite, Durations
<1> QED
    BY <1>2, <1>5, <1>6, <1>7, Durations

LEMMA CountInit == BlocklistInit => CountInv
<1> SUFFICES ASSUME BlocklistInit PROVE CountInv
    OBVIOUS
<1>1. OpInv
    BY DEF BlocklistInit, OpInv, NoOp, NoBan
<1>2. AutoCount(NoBans) = 0
  <2>1. {n \in Network : NoBans[n].source = "auto"} = {}
      BY DEF NoBans, NoBan
  <2> QED
      BY <2>1, FS_EmptySet DEF AutoCount
<1>3. CASE file = NoBans /\ AutoMax > 0
    BY <1>1, <1>2, <1>3, MayAddFinite, Durations DEF CountInv, BoundInv
<1>4. CASE file # NoBans \/ AutoMax = 0
  <2>1. ASSUME NEW w \in Workers PROVE ~AboutToAdd(w) /\ ~(AutoCount(cache[w]) < AutoMax /\ Usable(w))
      BY <1>2, <1>4 DEF AboutToAdd, Usable, BlocklistInit, NoOp, NoBan, Writers
  <2>2. MayAdd = {}
      BY <2>1 DEF MayAdd
  <2>3. Cardinality(MayAdd) = 0
      BY <2>2, FS_EmptySet
  <2>4. AutoCount(file) \in Nat
      BY AutoCountType, KeptLists
  <2> QED
      BY <1>1, <2>3, <2>4, KeptLists, MayAddFinite, Durations DEF CountInv, BoundInv
<1> QED
    BY <1>3, <1>4, Durations

\* The limit of automatic bans is exceeded by one ban per other worker and no more.
THEOREM AutoBansAreBounded == BlocklistSpec => []AutoBansBounded
<1>1. SafeInv /\ CountInv /\ [BlocklistNext]_listVars => CountInv'
    BY OpStep, BoundStep DEF SafeInv, CountInv
<1>2. CountInv => AutoBansBounded
    BY AutoCountType, MayAddFinite, Durations DEF CountInv, BoundInv, AutoBansBounded
<1> QED
    BY <1>1, <1>2, CountInit, SafeAlways, PTL DEF BlocklistSpec

-----------------------------------------------------------------------------
(* The restorations: the inductive invariant.  While a restorer replaces    *)
(* the bases and no server has opened them, the -wal that are still there   *)
(* are among the files it has to set aside.                                 *)

Part == {"main", "wal"}

WalLeft(r, b) == \E i \in 1..Len(todoFiles[r]) : todoFiles[r][i] = <<b, "wal">>

ReplacingInv ==
    ~intruded =>
        \A r \in Restorer : Replacing(r) =>
            /\ server = "down"
            /\ \A b \in Database : wal[b] = 0 \/ (stage[r] = "setting" /\ WalLeft(r, b))

RestoreInv == RestoreTypeOK /\ ReplacingInv /\ NoForeignWal

LEMMA RestoreConstants ==
    /\ NumBases \in Nat /\ MaxMade \in Nat /\ MaxStarts \in Nat /\ MaxRestoreFaults \in Nat
    /\ 1 <= NumBases /\ NumBases <= MaxMade
BY RestoreAssumption

-----------------------------------------------------------------------------
(* The files to set aside, and the bases that are created.                  *)

LEMMA AllFilesType == AllFiles \in Seq(Database \X Part)
<1>1. AllFiles = [i \in 1..(NumBases * 2) |-> FilesOf(1 + (i - 1) \div 2)[1 + ((i - 1) % 2)]]
    BY DEF AllFiles, FilesOf
<1>2. ASSUME NEW i \in 1..(NumBases * 2) PROVE FilesOf(1 + (i - 1) \div 2)[1 + ((i - 1) % 2)] \in Database \X Part
  <2>1. 1 + (i - 1) \div 2 \in Database /\ 1 + ((i - 1) % 2) \in {1, 2}
      BY RestoreConstants DEF Database
  <2> QED
      BY <2>1 DEF FilesOf, Part
<1> QED
    BY <1>1, <1>2, RestoreConstants

LEMMA AllFilesHold ==
    ASSUME NEW b \in Database
    PROVE  \E i \in 1..Len(AllFiles) : AllFiles[i] = <<b, "wal">>
<1>1. AllFiles = [i \in 1..(NumBases * 2) |-> FilesOf(1 + (i - 1) \div 2)[1 + ((i - 1) % 2)]]
    BY DEF AllFiles, FilesOf
<1>2. Len(AllFiles) = NumBases * 2
    BY <1>1, RestoreConstants
<1>3. 2 * b \in 1..(NumBases * 2) /\ 1 + (2 * b - 1) \div 2 = b /\ 1 + ((2 * b - 1) % 2) = 2
    BY RestoreConstants DEF Database
<1>4. AllFiles[2 * b] = FilesOf(1 + (2 * b - 1) \div 2)[1 + ((2 * b - 1) % 2)]
    BY <1>1, <1>3
<1>5. AllFiles[2 * b] = FilesOf(b)[2]
    BY <1>3, <1>4
<1>6. AllFiles[2 * b] = <<b, "wal">>
    BY <1>5 DEF FilesOf
<1> QED
    BY <1>2, <1>3, <1>6

\* The bases created up to b are no more than those created in all.
LEMMA FreshBounds ==
    ASSUME RestoreTypeOK, NEW b \in Database
    PROVE  Fresh(b) \in Nat /\ Fresh(NumBases) \in Nat /\ Fresh(b) <= Fresh(NumBases) /\ made <= Fresh(b)
<1> DEFINE Missing(n) == {c \in 1..n : main[c] = 0}
<1>1. b \in Nat /\ Missing(b) \subseteq Missing(NumBases)
    BY RestoreConstants DEF Database
<1>2. IsFiniteSet(1..NumBases)
    BY RestoreConstants, FS_Interval
<1>3. IsFiniteSet(Missing(NumBases))
    BY <1>2, FS_Subset
<1>4. IsFiniteSet(Missing(b)) /\ Cardinality(Missing(b)) <= Cardinality(Missing(NumBases))
    BY <1>1, <1>3, FS_Subset
<1>5. Cardinality(Missing(b)) \in Nat /\ Cardinality(Missing(NumBases)) \in Nat
    BY <1>3, <1>4, FS_CardinalityType
<1>6. made \in Nat
    BY RestoreConstants DEF RestoreTypeOK
<1>7. Fresh(b) = made + Cardinality(Missing(b)) /\ Fresh(NumBases) = made + Cardinality(Missing(NumBases))
    BY DEF Fresh
<1> QED
    BY <1>4, <1>5, <1>6, <1>7

-----------------------------------------------------------------------------
(* The types.                                                               *)

\* No restoration has begun, and every base is its own.
LEMMA RestoreTypeInit == RestoreInit => RestoreTypeOK
<1> SUFFICES ASSUME RestoreInit PROVE RestoreTypeOK
    OBVIOUS
<1>1. Database \subseteq 0..MaxMade
    BY RestoreConstants DEF Database
<1>2. \A r \in Restorer :
         todoFiles[r] \in IF stage[r] = "setting" THEN Seq(Database \X {"main", "wal"}) ELSE Seq(Database)
    BY DEF RestoreInit
<1>3. main \in [Database -> 0..MaxMade] /\ wal \in [Database -> 0..MaxMade]
    BY <1>1, RestoreConstants DEF RestoreInit
<1>4. asideMain \in [Database -> 0..MaxMade] /\ asideWal \in [Database -> 0..MaxMade]
    BY RestoreConstants DEF RestoreInit
<1>5. todoFiles = [r \in Restorer |-> todoFiles[r]]
    BY DEF RestoreInit
<1>6. intruded \in BOOLEAN /\ managed \in [Restorer -> BOOLEAN]
    BY Zenon DEF RestoreInit
<1>7. /\ stage \in [Restorer -> {"idle", "waiting", "setting", "extracting", "recording", "starting"}]
      /\ server \in {"down", "opening", "up", "stopping"} /\ made \in NumBases..MaxMade /\ starts \in 0..MaxStarts
      /\ restoreFaults \in 0..MaxRestoreFaults
    BY RestoreConstants DEF RestoreInit
<1> QED
    BY <1>2, <1>3, <1>4, <1>5, <1>6, <1>7, Zenon DEF RestoreTypeOK

\* The bases a server creates stay within the bound.
LEMMA OpensType ==
    ASSUME RestoreTypeOK, Opens
    PROVE  /\ server' = "opening" /\ starts' \in 0..MaxStarts /\ made' \in NumBases..MaxMade
           /\ main' \in [Database -> 0..MaxMade] /\ wal' \in [Database -> 0..MaxMade] /\ intruded' \in BOOLEAN
<1>1. NumBases \in Database
    BY RestoreConstants DEF Database
<1>2. made' = Fresh(NumBases) /\ made' <= MaxMade /\ made' \in Nat /\ NumBases <= made'
    BY <1>1, FreshBounds, RestoreConstants DEF Opens, RestoreTypeOK
<1>3. \A b \in Database : Fresh(b) \in 0..MaxMade
    BY <1>2, FreshBounds, RestoreConstants
<1>4. main' \in [Database -> 0..MaxMade] /\ wal' = main'
    BY <1>3 DEF Opens, RestoreTypeOK
<1>5. intruded' \in BOOLEAN
    BY Zenon DEF Opens, RestoreTypeOK
<1> QED
    BY <1>2, <1>4, <1>5, RestoreConstants DEF Opens, RestoreTypeOK

Stages == {"idle", "waiting", "setting", "extracting", "recording", "starting"}

StagesOK ==
    /\ stage \in [Restorer -> Stages] /\ todoFiles = [r \in Restorer |-> todoFiles[r]]
    /\ \A r \in Restorer : todoFiles[r] \in IF stage[r] = "setting" THEN Seq(Database \X Part) ELSE Seq(Database)

\* A step of one restorer changes its own stage and its own list of files.
LEMMA StepType ==
    ASSUME RestoreTypeOK, NEW r \in Restorer, NEW st \in Stages, Reaches(r, st),
           NEW files \in IF st = "setting" THEN Seq(Database \X Part) ELSE Seq(Database),
           todoFiles' = [todoFiles EXCEPT ![r] = files]
    PROVE  StagesOK'
BY DEF RestoreTypeOK, Reaches, Part, Stages, StagesOK

LEMMA EmptiesType ==
    ASSUME RestoreTypeOK, NEW r \in Restorer, NEW st \in Stages, Reaches(r, st),
           todoFiles' = [todoFiles EXCEPT ![r] = <<>>]
    PROVE  StagesOK'
<1>1. <<>> \in Seq(Database) /\ <<>> \in Seq(Database \X Part)
    OBVIOUS
<1> QED
    BY <1>1 DEF RestoreTypeOK, Reaches, Part, Stages, StagesOK

LEMMA KeepType ==
    ASSUME RestoreTypeOK, NEW r \in Restorer, stage[r] # "setting", NEW st \in Stages \ {"setting"},
           Reaches(r, st), UNCHANGED todoFiles
    PROVE  StagesOK'
BY DEF RestoreTypeOK, Reaches, Part, Stages, StagesOK

LEMMA TailType ==
    ASSUME RestoreTypeOK, NEW r \in Restorer, todoFiles[r] # <<>>, UNCHANGED stage,
           todoFiles' = [todoFiles EXCEPT ![r] = Tail(@)]
    PROVE  StagesOK'
<1>1. todoFiles[r] \in IF stage[r] = "setting" THEN Seq(Database \X Part) ELSE Seq(Database)
    BY DEF RestoreTypeOK, Part
<1>2. CASE stage[r] = "setting"
  <2>1. Tail(todoFiles[r]) \in Seq(Database \X Part)
      BY <1>1, <1>2
  <2> QED
      BY <1>2, <2>1 DEF RestoreTypeOK, Part, Stages, StagesOK
<1>3. CASE stage[r] # "setting"
  <2>1. Tail(todoFiles[r]) \in Seq(Database)
      BY <1>1, <1>3
  <2> QED
      BY <1>3, <2>1 DEF RestoreTypeOK, Part, Stages, StagesOK
<1> QED
    BY <1>2, <1>3

\* The other variables of a step of a restorer.
LEMMA RestTypes ==
    ASSUME RestoreTypeOK, StagesOK',
           main' \in [Database -> 0..MaxMade], wal' \in [Database -> 0..MaxMade],
           asideMain' \in [Database -> 0..MaxMade], asideWal' \in [Database -> 0..MaxMade],
           server' \in {"down", "opening", "up", "stopping"},
           managed' \in [Restorer -> BOOLEAN], intruded' \in BOOLEAN,
           made' \in NumBases..MaxMade, starts' \in 0..MaxStarts, restoreFaults' \in 0..MaxRestoreFaults
    PROVE  RestoreTypeOK'
BY Zenon DEF RestoreTypeOK, StagesOK, Stages, Part

LEMMA FaultType == RestoreTypeOK /\ MissesOne => restoreFaults' \in 0..MaxRestoreFaults
BY RestoreConstants DEF RestoreTypeOK, MissesOne

LEMMA BeginsType ==
    ASSUME RestoreTypeOK, NEW r \in Restorer, BeginsSetting(r) PROVE StagesOK' /\ intruded' \in BOOLEAN
<1>1. StagesOK'
    BY AllFilesType, StepType DEF BeginsSetting, Stages
<1>2. intruded' \in BOOLEAN
    BY Zenon DEF BeginsSetting, RestoreTypeOK
<1> QED
    BY <1>1, <1>2

LEMMA RestoreTypeStep == RestoreTypeOK /\ [RestoreNext]_restoreVars => RestoreTypeOK'
<1> SUFFICES ASSUME RestoreTypeOK, [RestoreNext]_restoreVars PROVE RestoreTypeOK'
    OBVIOUS
<1> DEFINE Files == [Database -> 0..MaxMade]
<1> USE DEF projectVars, asideVars, stepVars, boundVars
<1>a. /\ main \in Files /\ wal \in Files /\ asideMain \in Files /\ asideWal \in Files
      /\ server \in {"down", "opening", "up", "stopping"} /\ made \in NumBases..MaxMade
      /\ starts \in 0..MaxStarts /\ restoreFaults \in 0..MaxRestoreFaults
    BY DEF RestoreTypeOK
<1>b. intruded \in BOOLEAN /\ managed \in [Restorer -> BOOLEAN]
    BY Zenon DEF RestoreTypeOK
<1>c. StagesOK
    BY Zenon DEF RestoreTypeOK, StagesOK, Stages, Part
<1>d. UNCHANGED <<stage, todoFiles>> => StagesOK'
    BY <1>c DEF StagesOK
<1>e. \A r \in Restorer, v \in BOOLEAN : [managed EXCEPT ![r] = v] \in [Restorer -> BOOLEAN]
    BY <1>b, Zenon
<1>f. 0 \in 0..MaxMade
    BY RestoreConstants
<1>1. CASE ServerStarts
    BY <1>1, <1>a, <1>b, <1>d, OpensType, RestTypes DEF ServerStarts
<1>2. CASE ServerListens
    BY <1>2, <1>a, <1>b, <1>d, RestTypes DEF ServerListens
<1>3. CASE ServerStops
    BY <1>3, <1>a, <1>b, <1>d, <1>f, RestTypes DEF ServerStops
<1>4. CASE ServerKilled
    BY <1>4, <1>a, <1>b, <1>d, FaultType, RestTypes DEF ServerKilled
<1>5. ASSUME NEW r \in Restorer, Restores(r) PROVE RestoreTypeOK'
  <2>1. StagesOK' /\ intruded' \in BOOLEAN
      BY <1>5, BeginsType DEF Restores
  <2>2. managed' \in [Restorer -> BOOLEAN]
      BY <1>5, <1>e DEF Restores
  <2> QED
      BY <1>5, <1>a, <2>1, <2>2, RestTypes DEF Restores
<1>6. ASSUME NEW r \in Restorer, SetsAside(r) PROVE RestoreTypeOK'
  <2>1. StagesOK'
      BY <1>6, TailType DEF SetsAside
  <2>2. main' \in Files /\ wal' \in Files
      BY <1>6, <1>a, <1>f DEF SetsAside
  <2>3. asideMain' \in Files /\ asideWal' \in Files
    <3>1. \A b : main[b] # 0 => [asideMain EXCEPT ![b] = main[b]] \in Files
        BY <1>a
    <3>2. \A b : wal[b] # 0 => [asideWal EXCEPT ![b] = wal[b]] \in Files
        BY <1>a
    <3> DEFINE head == Head(todoFiles[r])[1]
    <3>3. asideMain' = asideMain \/ (main[head] # 0 /\ asideMain' = [asideMain EXCEPT ![head] = main[head]])
        BY <1>6 DEF SetsAside
    <3>4. asideWal' = asideWal \/ (wal[head] # 0 /\ asideWal' = [asideWal EXCEPT ![head] = wal[head]])
        BY <1>6 DEF SetsAside
    <3>5. asideMain' \in Files
        BY <1>a, <3>1, <3>3
    <3>6. asideWal' \in Files
        BY <1>a, <3>2, <3>4
    <3> QED
        BY <3>5, <3>6
  <2> QED
      BY <1>6, <1>a, <1>b, <2>1, <2>2, <2>3, RestTypes DEF SetsAside
<1>7. ASSUME NEW r \in Restorer, BeginsExtraction(r) PROVE RestoreTypeOK'
  <2>1. [b \in Database |-> b] \in Seq(Database)
      BY RestoreConstants DEF Database
  <2>2. StagesOK'
      BY <1>7, <2>1, StepType DEF BeginsExtraction, Stages
  <2> QED
      BY <1>7, <1>a, <1>b, <2>2, RestTypes DEF BeginsExtraction
<1>8. ASSUME NEW r \in Restorer, ExtractsBase(r) PROVE RestoreTypeOK'
  <2>1. StagesOK'
      BY <1>8, TailType DEF ExtractsBase
  <2>2. made' \in NumBases..MaxMade /\ made' \in 0..MaxMade /\ made' = made + 1
      BY <1>8, <1>a, RestoreConstants DEF ExtractsBase
  <2>3. main' \in Files
      BY <1>8, <1>a, <2>2 DEF ExtractsBase
  <2> QED
      BY <1>8, <1>a, <1>b, <2>1, <2>2, <2>3, RestTypes DEF ExtractsBase
<1>9. ASSUME NEW r \in Restorer, Concludes(r) PROVE StagesOK'
    BY <1>9, EmptiesType DEF Concludes, Stages
<1>10. ASSUME NEW r \in Restorer, EndsExtraction(r) PROVE RestoreTypeOK'
    BY <1>9, <1>10, <1>a, <1>b, RestTypes DEF EndsExtraction, Concludes
<1>11. ASSUME NEW r \in Restorer, RestoreFails(r) PROVE RestoreTypeOK'
    BY <1>9, <1>11, <1>a, <1>b, FaultType, RestTypes DEF RestoreFails, Concludes
<1>12. ASSUME NEW r \in Restorer, Records(r) PROVE RestoreTypeOK'
  <2>1. StagesOK'
      BY <1>12, KeepType DEF Records, Stages
  <2> QED
      BY <1>12, <1>a, <1>b, <2>1, RestTypes DEF Records
<1>13. ASSUME NEW r \in Restorer, OperationStops(r) PROVE RestoreTypeOK'
  <2>1. StagesOK'
      BY <1>13, EmptiesType DEF OperationStops, Quits, Reaches, Stages
  <2>2. managed' \in [Restorer -> BOOLEAN]
      BY <1>13, <1>e DEF OperationStops, Quits
  <2> QED
      BY <1>13, <1>a, <1>b, <2>1, <2>2, FaultType, RestTypes DEF OperationStops
<1>14. ASSUME NEW r \in Restorer, AsksToStop(r) PROVE RestoreTypeOK'
  <2>1. StagesOK'
      BY <1>14, KeepType DEF AsksToStop, Stages
  <2>2. managed' \in [Restorer -> BOOLEAN]
      BY <1>14, <1>e DEF AsksToStop
  <2> QED
      BY <1>14, <1>a, <1>b, <2>1, <2>2, RestTypes DEF AsksToStop
<1>15. ASSUME NEW r \in Restorer, SeesItStopped(r) PROVE RestoreTypeOK'
    BY <1>15, <1>a, <1>b, BeginsType, RestTypes DEF SeesItStopped
<1>16. ASSUME NEW r \in Restorer, WaitsTooLong(r) PROVE RestoreTypeOK'
  <2>1. StagesOK'
      BY <1>16, KeepType DEF WaitsTooLong, Stages
  <2> QED
      BY <1>16, <1>a, <1>b, <2>1, RestTypes DEF WaitsTooLong
<1>17. ASSUME NEW r \in Restorer, StartsService(r) PROVE RestoreTypeOK'
  <2>1. StagesOK'
      BY <1>17, KeepType DEF StartsService, Stages
  <2>2. managed' \in [Restorer -> BOOLEAN]
      BY <1>17, <1>e DEF StartsService
  <2>3. CASE Opens /\ UNCHANGED restoreFaults
      BY <1>17, <1>a, <2>1, <2>2, <2>3, OpensType, RestTypes DEF StartsService
  <2>4. CASE UNCHANGED <<server, projectVars, intruded, boundVars>>
      BY <1>17, <1>a, <1>b, <2>1, <2>2, <2>4, RestTypes DEF StartsService
  <2>5. CASE MissesOne /\ UNCHANGED <<server, projectVars, intruded, starts>>
      BY <1>17, <1>a, <1>b, <2>1, <2>2, <2>5, FaultType, RestTypes DEF StartsService
  <2> QED
      BY <1>17, <2>3, <2>4, <2>5 DEF StartsService
<1>18. CASE UNCHANGED restoreVars
    BY <1>18, <1>a, <1>b, <1>d, RestTypes DEF restoreVars
<1> QED
    BY <1>1, <1>2, <1>3, <1>4, <1>5, <1>6, <1>7, <1>8, <1>10, <1>11, <1>12, <1>13, <1>14, <1>15, <1>16, <1>17, <1>18
       DEF RestoreNext

\* Every variable of Restore keeps its type, the files still to set aside and the bases still to
\* extract included.
THEOREM RestoreTypeCorrect == RestoreSpec => []RestoreTypeOK
BY RestoreTypeInit, RestoreTypeStep, PTL DEF RestoreSpec

-----------------------------------------------------------------------------
(* The -wal.                                                                *)

LEMMA RestoreInvInit == RestoreInit => ReplacingInv /\ NoForeignWal
BY DEF RestoreInit, ReplacingInv, NoForeignWal, Replacing

\* A step that leaves the files alone: the restorers that replace go on with the same files.
LEMMA SameFiles ==
    ASSUME ReplacingInv, NoForeignWal, UNCHANGED <<main, wal>>, ~intruded' => ~intruded,
           ~intruded' => \A r \in Restorer :
               Replacing(r)' => Replacing(r) /\ server' = "down" /\ UNCHANGED <<stage[r], todoFiles[r]>>
    PROVE  ReplacingInv' /\ NoForeignWal'
<1>1. NoForeignWal'
    BY DEF NoForeignWal
<1>2. SUFFICES ASSUME ~intruded', NEW r \in Restorer, Replacing(r)', NEW b \in Database
               PROVE  server' = "down" /\ (wal'[b] = 0 \/ (stage'[r] = "setting" /\ WalLeft(r, b)'))
    BY <1>1 DEF ReplacingInv
<1>3. ~intruded /\ Replacing(r) /\ server' = "down" /\ stage'[r] = stage[r] /\ todoFiles'[r] = todoFiles[r]
    BY <1>2
<1>4. wal[b] = 0 \/ (stage[r] = "setting" /\ WalLeft(r, b))
    BY <1>3 DEF ReplacingInv
<1> QED
    BY <1>3, <1>4 DEF WalLeft

\* A restorer begins: every -wal is among the files to set aside.
LEMMA BeginsInv ==
    ASSUME RestoreInv, NEW r \in Restorer, BeginsSetting(r), UNCHANGED <<server, main, wal>>
    PROVE  ReplacingInv' /\ NoForeignWal'
<1>1. NoForeignWal'
    BY DEF RestoreInv, NoForeignWal, BeginsSetting
<1>2. SUFFICES ASSUME ~intruded', NEW q \in Restorer, Replacing(q)'
               PROVE  server' = "down" /\ \A b \in Database : wal'[b] = 0 \/ (stage'[q] = "setting" /\ WalLeft(q, b)')
    BY <1>1 DEF ReplacingInv
<1>3. ~intruded /\ server = "down"
    BY <1>2 DEF BeginsSetting
<1>4. CASE q = r
  <2>1. stage'[r] = "setting" /\ todoFiles'[r] = AllFiles
      BY DEF RestoreInv, RestoreTypeOK, BeginsSetting, Reaches
  <2>2. \A b \in Database : WalLeft(r, b)'
      BY <2>1, AllFilesHold DEF WalLeft
  <2> QED
      BY <1>3, <1>4, <2>1, <2>2
<1>5. CASE q # r
  <2>1. stage'[q] = stage[q] /\ todoFiles'[q] = todoFiles[q]
      BY <1>5 DEF RestoreInv, RestoreTypeOK, BeginsSetting, Reaches
  <2>2. Replacing(q)
      BY <1>2, <2>1 DEF Replacing
  <2> QED
      BY <1>3, <2>1, <2>2 DEF RestoreInv, ReplacingInv, WalLeft
<1> QED
    BY <1>4, <1>5

\* The server opens the bases: unless one replaces them, no restorer is concerned.
LEMMA OpensInv ==
    ASSUME RestoreInv, Opens, \A q \in Restorer : Replacing(q)' => Replacing(q)
    PROVE  ReplacingInv' /\ NoForeignWal'
<1>1. wal' = main'
    BY DEF Opens
<1>2. ~intruded' => \A q \in Restorer : ~Replacing(q)
    BY DEF Opens
<1> QED
    BY <1>1, <1>2 DEF ReplacingInv, NoForeignWal

\* One more file set aside: the -wal that are still there stay in the files of every restorer.
LEMMA SetsAsideInv ==
    ASSUME RestoreInv, NEW r \in Restorer, SetsAside(r)
    PROVE  ReplacingInv' /\ NoForeignWal'
<1> DEFINE head == Head(todoFiles[r])
<1>1. stage[r] = "setting" /\ todoFiles[r] # <<>> /\ todoFiles[r] \in Seq(Database \X Part)
    BY DEF SetsAside, RestoreInv, RestoreTypeOK, Part
<1>2. head \in Database \X Part
    BY <1>1
<1>3. \A b \in Database : wal'[b] = wal[b] \/ wal'[b] = 0
    BY DEF SetsAside, RestoreInv, RestoreTypeOK
<1>4. \A b \in Database : main'[b] = main[b] \/ main'[b] = 0
    BY DEF SetsAside, RestoreInv, RestoreTypeOK
<1>5. intruded' = intruded /\ stage' = stage /\ server' = server
    BY DEF SetsAside
<1>6. NoForeignWal'
    BY <1>3, <1>4, <1>5 DEF RestoreInv, NoForeignWal
<1>7. ASSUME NEW b \in Database, head = <<b, "wal">> PROVE wal'[b] = 0
    BY <1>7, SMTT(30) DEF SetsAside, RestoreInv, RestoreTypeOK
<1>8. ASSUME ~intruded, NEW q \in Restorer, Replacing(q), NEW b \in Database, wal'[b] # 0
      PROVE  stage[q] = "setting" /\ WalLeft(q, b)'
  <2>1. wal[b] # 0
      BY <1>3, <1>8
  <2>2. stage[q] = "setting" /\ WalLeft(q, b)
      BY <1>8, <2>1 DEF RestoreInv, ReplacingInv
  <2>3. CASE q # r
    <3>1. todoFiles'[q] = todoFiles[q]
        BY <2>3 DEF SetsAside, RestoreInv, RestoreTypeOK
    <3> QED
        BY <2>2, <3>1 DEF WalLeft
  <2>4. CASE q = r
    <3>1. PICK i \in 1..Len(todoFiles[r]) : todoFiles[r][i] = <<b, "wal">>
        BY <2>2, <2>4 DEF WalLeft
    <3>2. i # 1
        BY <1>1, <1>7, <1>8, <3>1
    <3>3. todoFiles'[r] = Tail(todoFiles[r])
        BY DEF SetsAside, RestoreInv, RestoreTypeOK
    <3>4. i - 1 \in 1..Len(Tail(todoFiles[r])) /\ Tail(todoFiles[r])[i - 1] = todoFiles[r][i]
        BY <1>1, <3>1, <3>2
    <3> QED
        BY <2>2, <2>4, <3>1, <3>3, <3>4 DEF WalLeft
  <2> QED
      BY <2>3, <2>4
<1>9. ~intruded => \A q \in Restorer : Replacing(q) => server = "down"
    BY DEF RestoreInv, ReplacingInv
<1>10. ReplacingInv'
    BY <1>5, <1>8, <1>9 DEF ReplacingInv, Replacing
<1> QED
    BY <1>6, <1>10

\* The extraction: no -wal is left.
LEMMA ExtractsInv ==
    ASSUME RestoreInv, NEW r \in Restorer, ExtractsBase(r)
    PROVE  ReplacingInv' /\ NoForeignWal'
<1>1. stage[r] = "extracting" /\ UNCHANGED <<wal, server, stage, intruded>>
    BY DEF ExtractsBase
<1>2. ~intruded => \A b \in Database : wal[b] = 0
    BY <1>1 DEF RestoreInv, ReplacingInv, Replacing
<1>3. ~intruded => \A q \in Restorer : Replacing(q) => server = "down"
    BY DEF RestoreInv, ReplacingInv
<1> QED
    BY <1>1, <1>2, <1>3 DEF ReplacingInv, NoForeignWal, Replacing

LEMMA BeginsExtractionInv ==
    ASSUME RestoreInv, NEW r \in Restorer, BeginsExtraction(r)
    PROVE  ReplacingInv' /\ NoForeignWal'
<1>1. stage[r] = "setting" /\ todoFiles[r] = <<>> /\ UNCHANGED <<server, main, wal, intruded>>
    BY DEF BeginsExtraction, projectVars
<1>2. ~intruded => \A b \in Database : wal[b] = 0
    BY <1>1 DEF RestoreInv, ReplacingInv, Replacing, WalLeft
<1>3. ~intruded => server = "down"
    BY <1>1 DEF RestoreInv, ReplacingInv, Replacing
<1> QED
    BY <1>1, <1>2, <1>3 DEF RestoreInv, ReplacingInv, NoForeignWal

LEMMA ReplacingStep == RestoreInv /\ [RestoreNext]_restoreVars => ReplacingInv' /\ NoForeignWal'
<1> SUFFICES ASSUME RestoreInv, [RestoreNext]_restoreVars PROVE ReplacingInv' /\ NoForeignWal'
    OBVIOUS
<1> USE DEF projectVars, asideVars, stepVars, boundVars
<1>a. RestoreTypeOK /\ ReplacingInv /\ NoForeignWal
    BY DEF RestoreInv
<1>b. ~intruded /\ server # "down" => \A q \in Restorer : ~Replacing(q)
    BY <1>a DEF ReplacingInv
<1>c. ~intruded => \A q \in Restorer : Replacing(q) => server = "down"
    BY <1>a DEF ReplacingInv
\* A restorer that does not begin leaves the files of the others.
<1>d. ASSUME NEW r \in Restorer, NEW st \in Stages \ {"setting", "extracting"}, Reaches(r, st),
             UNCHANGED todoFiles \/ todoFiles' = [todoFiles EXCEPT ![r] = <<>>]
      PROVE  \A q \in Restorer : Replacing(q)' => Replacing(q) /\ UNCHANGED <<stage[q], todoFiles[q]>>
    BY <1>a, <1>d DEF RestoreTypeOK, Reaches, Replacing, Stages
<1>1. CASE ServerStarts
    BY <1>1, OpensInv DEF ServerStarts, Replacing
<1>2. CASE ServerListens
    BY <1>2, <1>a, <1>b, SameFiles DEF ServerListens, Replacing
<1>3. CASE ServerStops
  <2>1. server # "down" /\ UNCHANGED <<stage, intruded>> /\ \A b \in Database : wal'[b] = 0
      BY <1>3 DEF ServerStops, SeenRunning
  <2> QED
      BY <1>b, <2>1 DEF ReplacingInv, NoForeignWal, Replacing
<1>4. CASE ServerKilled
    BY <1>4, <1>a, <1>b, SameFiles DEF ServerKilled, Replacing
<1>5. ASSUME NEW r \in Restorer, Restores(r) PROVE ReplacingInv' /\ NoForeignWal'
    BY <1>5, BeginsInv DEF Restores
<1>6. ASSUME NEW r \in Restorer, SetsAside(r) PROVE ReplacingInv' /\ NoForeignWal'
    BY <1>6, SetsAsideInv
<1>7. ASSUME NEW r \in Restorer, BeginsExtraction(r) PROVE ReplacingInv' /\ NoForeignWal'
    BY <1>7, BeginsExtractionInv
<1>8. ASSUME NEW r \in Restorer, ExtractsBase(r) PROVE ReplacingInv' /\ NoForeignWal'
    BY <1>8, ExtractsInv
<1>9. ASSUME NEW r \in Restorer, Concludes(r) PROVE ReplacingInv' /\ NoForeignWal'
    BY <1>9, <1>a, <1>c, <1>d, SameFiles DEF Concludes, Stages
<1>10. ASSUME NEW r \in Restorer, EndsExtraction(r) \/ RestoreFails(r) PROVE ReplacingInv' /\ NoForeignWal'
    BY <1>9, <1>10 DEF EndsExtraction, RestoreFails
<1>11. ASSUME NEW r \in Restorer, Records(r) PROVE ReplacingInv' /\ NoForeignWal'
    BY <1>11, <1>a, <1>c, <1>d, SameFiles DEF Records, Stages
<1>12. ASSUME NEW r \in Restorer, OperationStops(r) PROVE ReplacingInv' /\ NoForeignWal'
    BY <1>12, <1>a, <1>c, <1>d, SameFiles DEF OperationStops, Quits, Reaches, Stages
<1>13. ASSUME NEW r \in Restorer, AsksToStop(r) PROVE ReplacingInv' /\ NoForeignWal'
  <2>1. server' = server \/ server # "down"
      BY <1>13 DEF AsksToStop
  <2> QED
      BY <1>13, <1>a, <1>b, <1>c, <1>d, <2>1, SameFiles DEF AsksToStop, Stages
<1>14. ASSUME NEW r \in Restorer, SeesItStopped(r) PROVE ReplacingInv' /\ NoForeignWal'
    BY <1>14, BeginsInv DEF SeesItStopped
<1>15. ASSUME NEW r \in Restorer, WaitsTooLong(r) PROVE ReplacingInv' /\ NoForeignWal'
    BY <1>15, <1>a, <1>c, <1>d, SameFiles DEF WaitsTooLong, Stages
<1>16. ASSUME NEW r \in Restorer, StartsService(r) PROVE ReplacingInv' /\ NoForeignWal'
  <2>1. \A q \in Restorer : Replacing(q)' => Replacing(q) /\ UNCHANGED <<stage[q], todoFiles[q]>>
      BY <1>16, <1>d DEF StartsService, Stages
  <2>2. CASE Opens
      BY <2>1, <2>2, OpensInv
  <2>3. CASE UNCHANGED <<server, projectVars, intruded>>
      BY <1>a, <1>c, <2>1, <2>3, SameFiles
  <2> QED
      BY <1>16, <2>2, <2>3 DEF StartsService
<1>17. CASE UNCHANGED restoreVars
    BY <1>17, <1>a, <1>c, SameFiles DEF restoreVars, Replacing
<1> QED
    BY <1>1, <1>2, <1>3, <1>4, <1>5, <1>6, <1>7, <1>8, <1>10, <1>11, <1>12, <1>13, <1>14, <1>15, <1>16, <1>17
       DEF RestoreNext

\* However many restorations run, fail or die at once, no base stands beside the -wal of another one
\* unless the server opened the bases while they were replaced.
THEOREM NoForeignWalIsLeft == RestoreSpec => []NoForeignWal
<1>1. RestoreInit => RestoreInv
    BY RestoreTypeInit, RestoreInvInit DEF RestoreInv
<1>2. RestoreInv /\ [RestoreNext]_restoreVars => RestoreInv'
    BY RestoreTypeStep, ReplacingStep DEF RestoreInv
<1>3. RestoreInv => NoForeignWal
    BY DEF RestoreInv
<1> QED
    BY <1>1, <1>2, <1>3, PTL DEF RestoreSpec

-----------------------------------------------------------------------------
(* The inductive invariant, one conjunct per idea.                          *)

\* The writer of a transaction is the one that has run jobs of its batch; it
\* neither takes an incident away from a subject nor closes or opens one again.
ViewInv ==
    /\ holder = NoServer => txn = base
    /\ \A w \in Server : ran[w] > 0 => holder = w
    /\ \A i \in Id : base.incident[i].subject # NoSubject =>
        /\ txn.incident[i].subject = base.incident[i].subject
        /\ txn.incident[i].closed = base.incident[i].closed

\* What a job found before its transaction still holds, unless its subject has
\* changed since.
LookInv ==
    \A w \in Server : look[w] # NotLooked =>
        /\ HasJob(w) /\ Job(w) # Flush /\ holder # w
        /\ look[w] # 0 => base.incident[look[w]].subject = Job(w)
        /\ Job(w) \notin raced =>
            IF look[w] = 0 THEN OpenOf(base, Job(w)) = {} ELSE look[w] \in OpenOf(base, Job(w))

\* One open incident at most, and nothing added to a closed one.
SingleIn(view, s) ==
    /\ \A i, j \in OpenOf(view, s) : i = j
    /\ \A i \in Id : view.incident[i].subject = s /\ ~IsOpen(view, i) =>
        view.incident[i].last <= view.incident[i].closed

SingleInv == \A s \in Subject \ raced : SingleIn(base, s) /\ SingleIn(txn, s)

\* What the sweep of the operator has seen still holds, unless the subject has
\* changed since.
SweepInv ==
    \A i \in sweep.todo \cup {sweep.chosen} : i # 0 =>
        /\ base.incident[i].subject # NoSubject
        /\ base.incident[i].subject \notin raced =>
            Silent(base, i) /\ (i = sweep.chosen => Cleared(base, i))

IncidentsInv == IncidentsTypeOK /\ ViewInv /\ LookInv /\ SingleInv /\ SweepInv

-----------------------------------------------------------------------------
(* Facts about the operators.                                               *)

\* The parts of a base.
LEMMA BaseFacts ==
    ASSUME NEW view \in Bases, instant \in Nat
    PROVE  /\ \A s \in Subject : /\ view.state[s].level \in {"normal", "raised"}
                                 /\ view.state[s].saved \in 0..instant
           /\ \A i \in Id : /\ view.incident[i].subject \in Subject \cup {NoSubject}
                            /\ view.incident[i].last \in 0..instant
                            /\ view.incident[i].closed \in 0..instant
<1>1. /\ view.state \in States
      /\ view.incident \in [Id -> [subject : Subject \cup {NoSubject}, last : 0..instant, closed : 0..instant]]
  BY DEF Bases
<1>2. \A s \in Subject : view.state[s] \in [level : {"normal", "raised"}, saved : 0..instant]
  BY <1>1 DEF States
<1>3. \A i \in Id : view.incident[i] \in [subject : Subject \cup {NoSubject}, last : 0..instant, closed : 0..instant]
  BY <1>1
<1> QED BY <1>2, <1>3

\* A base stays one when time passes.
LEMMA LaterBases ==
    ASSUME instant \in Nat, instant' \in {instant, instant + 1}
    PROVE  /\ Bases \subseteq Bases' /\ States \subseteq States'
<1>1. 0..instant \subseteq 0..instant'
  OBVIOUS
<1>2. [level : {"normal", "raised"}, saved : 0..instant] \subseteq [level : {"normal", "raised"}, saved : 0..instant']
  BY <1>1
<1>3. States \subseteq States'
  <2> DEFINE A == [level : {"normal", "raised"}, saved : 0..instant]
             B == [level : {"normal", "raised"}, saved : 0..instant']
  <2>1. States = [Subject -> A] /\ States' = [Subject -> B]
    BY DEF States
  <2> HIDE DEF A, B
  <2>2. A \subseteq B
    BY <1>2 DEF A, B
  <2> QED BY <2>1, <2>2
<1>4. Bases \subseteq Bases'
  <2> DEFINE A == [subject : Subject \cup {NoSubject}, last : 0..instant, closed : 0..instant]
             B == [subject : Subject \cup {NoSubject}, last : 0..instant', closed : 0..instant']
  <2>1. A \subseteq B
    BY <1>1
  <2>2. Bases = [state : States, incident : [Id -> A]] /\ Bases' = [state : States', incident : [Id -> B]]
    BY DEF Bases
  <2> HIDE DEF A, B
  <2>3. [Id -> A] \subseteq [Id -> B]
    BY <2>1
  <2> QED BY <2>2, <2>3, <1>3
<1> QED BY <1>3, <1>4

\* A job that adds an event touches one incident of its subject.
Fed(view, found) == IF found = 0 THEN Unused(view) ELSE found

LEMMA EventFacts ==
    ASSUME NEW view \in Bases, NEW s \in Subject, NEW found \in Id \cup {0}, instant \in Nat, 0 \notin Id,
           \E i \in Id : view.incident[i] = NoIncident
    PROVE  LET inserted == WithEvent(view, found, s)
               k    == Fed(view, found)
           IN
             /\ k \in Id
             /\ k = found \/ (found = 0 /\ view.incident[k] = NoIncident)
             /\ inserted.state = view.state /\ inserted \in Bases
             /\ \A i \in Id \ {k} : inserted.incident[i] = view.incident[i]
             /\ inserted.incident[k].last = instant
             /\ found # 0 => /\ inserted.incident[k].subject = view.incident[k].subject
                             /\ inserted.incident[k].closed = view.incident[k].closed
             /\ found = 0 => inserted.incident[k].subject = s /\ inserted.incident[k].closed = 0
<1> DEFINE R == [subject : Subject \cup {NoSubject}, last : 0..instant, closed : 0..instant]
<1>1. /\ view = [state |-> view.state, incident |-> view.incident] /\ view.state \in States
      /\ view.incident \in [Id -> R]
  BY DEF Bases
<1>2. CASE found = 0
  <2> DEFINE k == Unused(view)
             new == [subject |-> s, last |-> instant, closed |-> 0]
  <2>1. k \in Id /\ view.incident[k] = NoIncident
    BY DEF Unused
  <2>2. WithEvent(view, found, s) = [view EXCEPT !.incident[k] = new]
    BY <1>2 DEF WithEvent
  <2>3. new \in R
    OBVIOUS
  <2> HIDE DEF k, new, R
  <2>4. WithEvent(view, found, s) = [state |-> view.state, incident |-> [view.incident EXCEPT ![k] = new]]
    BY <1>1, <2>1, <2>2
  <2>5. [view.incident EXCEPT ![k] = new] \in [Id -> R]
    BY <1>1, <2>1, <2>3
  <2>6. WithEvent(view, found, s) \in Bases
    BY <1>1, <2>4, <2>5 DEF Bases, R
  <2>7. /\ \A i \in Id \ {k} : [view.incident EXCEPT ![k] = new][i] = view.incident[i]
        /\ [view.incident EXCEPT ![k] = new][k] = new
    BY <1>1, <2>1
  <2>8. new.subject = s /\ new.last = instant /\ new.closed = 0
    BY DEF new
  <2>9. /\ WithEvent(view, found, s).state = view.state
        /\ WithEvent(view, found, s).incident = [view.incident EXCEPT ![k] = new]
    BY <2>4
  <2>10. Fed(view, found) = k
    BY <1>2 DEF Fed, k
  <2> QED BY <1>2, <2>1, <2>6, <2>7, <2>8, <2>9, <2>10, ZenonT(60)
<1>3. CASE found # 0
  <2> DEFINE new == [view.incident[found] EXCEPT !.last = instant]
  <2>1. found \in Id /\ view.incident[found] \in R
    BY <1>1, <1>3
  <2>2. /\ new \in R /\ new.subject = view.incident[found].subject /\ new.last = instant
        /\ new.closed = view.incident[found].closed
    BY <2>1
  <2>3. WithEvent(view, found, s) = [state |-> view.state, incident |-> [view.incident EXCEPT ![found] = new]]
    BY <1>1, <1>3, <2>1 DEF WithEvent
  <2> HIDE DEF new, R
  <2>4. [view.incident EXCEPT ![found] = new] \in [Id -> R]
    BY <1>1, <2>1, <2>2
  <2>5. WithEvent(view, found, s) \in Bases
    BY <1>1, <2>3, <2>4 DEF Bases, R
  <2>6. /\ \A i \in Id \ {found} : [view.incident EXCEPT ![found] = new][i] = view.incident[i]
        /\ [view.incident EXCEPT ![found] = new][found] = new
    BY <1>1, <2>1
  <2>7. Fed(view, found) = found
    BY <1>3 DEF Fed
  <2> QED BY <1>3, <2>1, <2>2, <2>3, <2>5, <2>6, <2>7
<1> QED BY <1>2, <1>3

\* A closure changes nothing but the instant of the closure.
LEMMA ClosedFacts ==
    ASSUME NEW view \in Bases, NEW ids, instant \in Nat
    PROVE  LET inserted == Closed(view, ids) IN
           /\ inserted \in Bases /\ inserted.state = view.state
           /\ \A i \in Id \ ids : inserted.incident[i] = view.incident[i]
           /\ \A i \in Id \cap ids : /\ inserted.incident[i].subject = view.incident[i].subject
                                     /\ inserted.incident[i].last = view.incident[i].last
                                     /\ inserted.incident[i].closed = instant
<1> DEFINE R == [subject : Subject \cup {NoSubject}, last : 0..instant, closed : 0..instant]
           new == [i \in Id |-> IF i \in ids THEN [view.incident[i] EXCEPT !.closed = instant] ELSE view.incident[i]]
<1>1. /\ view = [state |-> view.state, incident |-> view.incident] /\ view.state \in States
      /\ view.incident \in [Id -> R]
  BY DEF Bases
<1>2. \A i \in Id : view.incident[i] \in R
  BY <1>1
<1>3. \A i \in Id : LET c == [view.incident[i] EXCEPT !.closed = instant] IN
        /\ c \in R /\ c.subject = view.incident[i].subject /\ c.last = view.incident[i].last /\ c.closed = instant
  BY <1>2
<1>4. Closed(view, ids) = [state |-> view.state, incident |-> new]
  BY <1>1 DEF Closed
<1>5. new \in [Id -> R]
  BY <1>2, <1>3
<1>6. Closed(view, ids) \in Bases
  BY <1>1, <1>4, <1>5 DEF Bases
<1> QED BY <1>3, <1>4, <1>6

\* The expiry of the states leaves the incidents, and raises no level.
LEMMA ExpiredFacts ==
    ASSUME NEW view \in Bases, instant \in Nat
    PROVE  LET inserted == Expired(view) IN
           /\ inserted \in Bases /\ inserted.incident = view.incident
           /\ \A s \in Subject : view.state[s].level = "normal" => inserted.state[s].level = "normal"
<1> DEFINE A == [level : {"normal", "raised"}, saved : 0..instant]
           new == [s \in Subject |-> IF view.state[s].saved + Ttl < instant THEN NoState ELSE view.state[s]]
<1>1. /\ view = [state |-> view.state, incident |-> view.incident] /\ view.state \in [Subject -> A]
      /\ view.incident \in [Id -> [subject : Subject \cup {NoSubject}, last : 0..instant, closed : 0..instant]]
  BY DEF Bases, States
<1>2. NoState \in A /\ NoState.level = "normal"
  BY DEF NoState
<1>3. Expired(view) = [state |-> new, incident |-> view.incident]
  BY <1>1 DEF Expired
<1>4. new \in [Subject -> A]
  BY <1>1, <1>2
<1>5. Expired(view) \in Bases
  BY <1>1, <1>3, <1>4 DEF Bases, States
<1>6. \A s \in Subject : view.state[s].level = "normal" => new[s].level = "normal"
  BY <1>2
<1> QED BY <1>3, <1>5, <1>6

\* What is committed changes nothing of a subject that has been looked at and is
\* not marked.
LEMMA CommitFacts ==
    ASSUME NEW view, CommitsAs(view),
           \A i \in Id : base.incident[i].subject # NoSubject => view.incident[i].subject = base.incident[i].subject
    PROVE  /\ base' = view /\ txn' = view /\ raced \subseteq raced' /\ (raced \subseteq Subject => raced' \subseteq Subject)
           /\ \A s \in Subject : LookedAt(s) /\ s \notin raced' =>
                /\ base'.state[s] = base.state[s]
                /\ \A i \in Id : base.incident[i].subject = s \/ base'.incident[i].subject = s =>
                    base'.incident[i] = base.incident[i]
<1>1. NoSubject \notin Subject
  BY IncidentsAssumption
<1>2. /\ base' = view /\ txn' = view /\ raced' = raced \cup {s \in Subject : Differs(view, s) /\ LookedAt(s)}
  BY DEF CommitsAs
<1>3. ASSUME NEW s \in Subject, LookedAt(s), s \notin raced'
      PROVE  /\ view.state[s] = base.state[s]
             /\ \A i \in Id : base.incident[i].subject = s \/ view.incident[i].subject = s =>
                  view.incident[i] = base.incident[i]
  <2>1. ~Differs(view, s)
    BY <1>2, <1>3
  <2> QED BY <1>1, <2>1 DEF Differs
<1> QED BY <1>2, <1>3

-----------------------------------------------------------------------------
(* Steps that change the committed base.                                    *)

\* The identifiers.
LEMMA IdFacts == Id \subseteq Nat \ {0} /\ NotLooked \notin Id \cup {0}
  BY IncidentsAssumption DEF Id, NotLooked

\* What the type invariant says, in pieces.
LEMMA TypeFacts ==
    ASSUME IncidentsTypeOK
    PROVE  /\ instant \in Nat /\ base \in Bases /\ txn \in Bases /\ holder \in Server \cup {NoServer}
           /\ \A w \in Server :
                /\ look[w] \in Id \cup {0, NotLooked} /\ ran[w] \in Nat /\ ran[w] <= Len(batch[w])
                /\ jobs[w] \in Seq(Subject \cup {Flush}) /\ batch[w] \in Seq(Subject \cup {Flush})
                /\ buffer[w] \in States /\ taken[w] \in States
                /\ HasJob(w) => Job(w) \in Subject \cup {Flush}
           /\ sweep.todo \subseteq Id /\ sweep.chosen \in Id \cup {0} /\ raced \subseteq Subject
<1>1. \A w \in Server : /\ batch[w] \in Seq(Subject \cup {Flush}) /\ ran[w] \in Nat /\ ran[w] <= Len(batch[w])
                        /\ jobs[w] \in Seq(Subject \cup {Flush}) /\ look[w] \in Id \cup {0, NotLooked}
                        /\ buffer[w] \in States /\ taken[w] \in States
  BY DEF IncidentsTypeOK
<1>2. \A w \in Server : HasJob(w) => Job(w) \in Subject \cup {Flush}
  <2> SUFFICES ASSUME NEW w \in Server, HasJob(w) PROVE Job(w) \in Subject \cup {Flush}
    OBVIOUS
  <2>1. ran[w] + 1 \in 1..Len(batch[w])
    BY <1>1 DEF HasJob
  <2> QED BY <1>1, <2>1 DEF Job
<1> QED BY <1>1, <1>2 DEF IncidentsTypeOK

\* A commit keeps what the others have looked at, or marks its subject.
LEMMA CommitInv ==
    ASSUME IncidentsInv, NEW view \in Bases, CommitsAs(view), instant' = instant, holder' = NoServer,
           \A i \in Id : base.incident[i].subject # NoSubject => view.incident[i].subject = base.incident[i].subject,
           \A s \in Subject \ raced : SingleIn(view, s),
           \A w \in Server : ran'[w] = 0,
           look' = look,
           \A w \in Server : look[w] # NotLooked => batch'[w] = batch[w] /\ ran'[w] = ran[w],
           sweep'.todo = sweep.todo, sweep'.chosen \in {sweep.chosen, 0}
    PROVE  ViewInv' /\ LookInv' /\ SingleInv' /\ SweepInv'
<1>1. /\ base' = view /\ txn' = view /\ raced \subseteq raced'
      /\ \A s \in Subject : LookedAt(s) /\ s \notin raced' =>
           /\ base'.state[s] = base.state[s]
           /\ \A i \in Id : base.incident[i].subject = s \/ base'.incident[i].subject = s =>
                base'.incident[i] = base.incident[i]
  BY CommitFacts
<1>0. IncidentsTypeOK /\ ViewInv /\ LookInv /\ SingleInv /\ SweepInv
  BY DEF IncidentsInv
<1>2. ViewInv'
  BY <1>1 DEF ViewInv
<1>3. SingleInv'
  <2>1. \A s \in Subject \ raced' : SingleIn(base, s)' /\ SingleIn(txn, s)'
    BY <1>1 DEF SingleIn, OpenOf, IsOpen
  <2> QED BY <2>1 DEF SingleInv
<1>4. LookInv'
  <2> SUFFICES ASSUME NEW w \in Server, look[w] # NotLooked
               PROVE  /\ HasJob(w)' /\ Job(w)' # Flush /\ holder' # w
                      /\ look[w] # 0 => base'.incident[look[w]].subject = Job(w)'
                      /\ Job(w)' \notin raced' =>
                          IF look[w] = 0 THEN OpenOf(base', Job(w)') = {} ELSE look[w] \in OpenOf(base', Job(w)')
    BY DEF LookInv
  <2>1. /\ HasJob(w) /\ Job(w) # Flush /\ holder # w
        /\ look[w] # 0 => base.incident[look[w]].subject = Job(w)
        /\ Job(w) \notin raced =>
            IF look[w] = 0 THEN OpenOf(base, Job(w)) = {} ELSE look[w] \in OpenOf(base, Job(w))
    BY <1>0 DEF LookInv
  <2>2. HasJob(w)' = HasJob(w) /\ Job(w)' = Job(w)
    BY DEF HasJob, Job
  <2>3. Job(w) \in Subject /\ Job(w) # NoSubject
    BY <1>0, <2>1, TypeFacts, IncidentsAssumption
  <2>4. LookedAt(Job(w))
    BY DEF LookedAt
  <2>5. w # NoServer
    BY IncidentsAssumption
  <2>6. look[w] \in Id \cup {0}
    BY <1>0, TypeFacts
  <2>7. look[w] # 0 => base'.incident[look[w]].subject = Job(w)
    BY <1>1, <2>1, <2>3, <2>6
  <2>8. ASSUME Job(w) \notin raced'
        PROVE  \A i \in Id : i \in OpenOf(base', Job(w)) <=> i \in OpenOf(base, Job(w))
    BY <1>1, <2>3, <2>4, <2>8 DEF OpenOf, IsOpen
  <2>9. OpenOf(base', Job(w)) \subseteq Id /\ OpenOf(base, Job(w)) \subseteq Id
    BY DEF OpenOf
  <2> QED BY <1>1, <2>1, <2>2, <2>5, <2>6, <2>7, <2>8, <2>9
<1>5. SweepInv'
  <2> SUFFICES ASSUME NEW i \in sweep.todo \cup {sweep.chosen}, i # 0
               PROVE  /\ base'.incident[i].subject # NoSubject
                      /\ base'.incident[i].subject \notin raced' =>
                          /\ base'.incident[i].last + Ttl <= instant
                          /\ i = sweep.chosen => base'.state[base'.incident[i].subject].level = "normal"
    BY DEF SweepInv, Silent, Cleared
  <2>1. i \in Id
    BY <1>0, TypeFacts
  <2>2. /\ base.incident[i].subject # NoSubject
        /\ base.incident[i].subject \notin raced =>
            /\ base.incident[i].last + Ttl <= instant
            /\ i = sweep.chosen => base.state[base.incident[i].subject].level = "normal"
    BY <1>0 DEF SweepInv, Silent, Cleared
  <2>3. base'.incident[i].subject = base.incident[i].subject
    BY <1>1, <2>1, <2>2
  <2>4. base.incident[i].subject \in Subject
    BY <1>0, <2>1, <2>2, BaseFacts, TypeFacts
  <2>5. LookedAt(base.incident[i].subject)
    BY DEF LookedAt
  <2> QED BY <1>1, <2>1, <2>2, <2>3, <2>4, <2>5
<1> QED BY <1>2, <1>3, <1>4, <1>5

\* While no process writes, no transaction has run a job.
LEMMA NobodyWrites ==
    ASSUME IncidentsInv, holder = NoServer
    PROVE  \A w \in Server : ran[w] = 0
<1>1. IncidentsTypeOK /\ ViewInv /\ NoServer \notin Server
  BY IncidentsAssumption DEF IncidentsInv
<1> SUFFICES ASSUME NEW w \in Server, ran[w] # 0 PROVE FALSE
  OBVIOUS
<1>2. ran[w] \in Nat
  BY <1>1, TypeFacts
<1>3. ran[w] > 0 => holder = w
  BY <1>1 DEF ViewInv
<1> QED BY <1>1, <1>2, <1>3

\* A closure keeps one open incident at most, whatever it closes.
LEMMA ClosedSingle ==
    ASSUME NEW view \in Bases, NEW ids, NEW s \in Subject, instant \in Nat, SingleIn(view, s),
           \A i \in Id \cap ids : IsOpen(view, i)
    PROVE  SingleIn(Closed(view, ids), s)
<1> DEFINE inserted == Closed(view, ids)
<1>1. /\ \A i \in Id \ ids : inserted.incident[i] = view.incident[i]
      /\ \A i \in Id \cap ids : /\ inserted.incident[i].subject = view.incident[i].subject
                                /\ inserted.incident[i].last = view.incident[i].last
                                /\ inserted.incident[i].closed = instant
  BY ClosedFacts
<1>2. \A i \in Id : view.incident[i].last \in 0..instant
  BY BaseFacts
<1> HIDE DEF inserted
<1>3. \A i \in Id : inserted.incident[i].subject = view.incident[i].subject
  BY <1>1
<1>4. \A i \in Id : i \in ids => inserted.incident[i].last <= inserted.incident[i].closed
  BY <1>1, <1>2
<1>5. \A i \in Id : i \notin ids => inserted.incident[i] = view.incident[i]
  BY <1>1
<1>6. ASSUME NEW i \in Id, IsOpen(inserted, i) PROVE IsOpen(view, i)
  BY <1>1, <1>3, <1>5, <1>6 DEF IsOpen
<1>7. OpenOf(inserted, s) \subseteq OpenOf(view, s)
  BY <1>3, <1>6 DEF OpenOf
<1>8. ASSUME NEW i \in Id, inserted.incident[i].subject = s, ~IsOpen(inserted, i)
      PROVE  inserted.incident[i].last <= inserted.incident[i].closed
  <2>1. CASE i \in ids
    BY <1>4, <2>1
  <2>2. CASE i \notin ids
    BY <1>5, <1>8, <2>2 DEF SingleIn, IsOpen
  <2> QED BY <2>1, <2>2
<1> QED BY <1>7, <1>8 DEF SingleIn, inserted

\* Types while the time stands still.
LEMMA SameTypes == ASSUME instant' = instant PROVE Bases' = Bases /\ States' = States
  BY DEF Bases, States

\* What the thread forgets at the end of a batch keeps its type.
LEMMA EndTypes ==
    ASSUME IncidentsTypeOK, instant' = instant, NEW w \in Server, NoBatch(w)
    PROVE  /\ batch' \in [Server -> Seq(Subject \cup {Flush})] /\ taken' \in [Server -> States]
           /\ ran' \in [Server -> Nat] /\ \A v \in Server : ran'[v] <= Len(batch'[v])
<1>1. /\ batch \in [Server -> Seq(Subject \cup {Flush})] /\ taken \in [Server -> States]
      /\ ran \in [Server -> Nat] /\ \A v \in Server : ran[v] <= Len(batch[v])
  BY DEF IncidentsTypeOK
<1>2. <<>> \in Seq(Subject \cup {Flush}) /\ Len(<<>>) = 0
  OBVIOUS
<1>3. Untaken \in States
  BY TypeFacts DEF Untaken, States
<1>4. batch' = [batch EXCEPT ![w] = <<>>] /\ ran' = [ran EXCEPT ![w] = 0] /\ taken' = [taken EXCEPT ![w] = Untaken]
  BY DEF NoBatch
<1>5. \A v \in Server : ran'[v] <= Len(batch'[v])
  <2> SUFFICES ASSUME NEW v \in Server PROVE ran'[v] <= Len(batch'[v])
    OBVIOUS
  <2>1. CASE v = w
    BY <1>1, <1>2, <1>4, <2>1
  <2>2. CASE v # w
    BY <1>1, <1>4, <2>2
  <2> QED BY <2>1, <2>2
<1> QED BY <1>1, <1>2, <1>3, <1>4, <1>5

LEMMA CommitTypes ==
    ASSUME IncidentsTypeOK, NEW view \in Bases, CommitsAs(view), instant' = instant, holder' \in Server \cup {NoServer},
           UNCHANGED <<buffer, jobs, look>>,
           UNCHANGED <<batch, ran, taken>> \/ \E w \in Server : NoBatch(w),
           sweep' \in [step : {"none", "listing", "closing"}, todo : SUBSET Id, chosen : Id \cup {0}]
    PROVE  IncidentsTypeOK'
<1>1. /\ batch' \in [Server -> Seq(Subject \cup {Flush})] /\ taken' \in [Server -> States]
      /\ ran' \in [Server -> Nat] /\ \A v \in Server : ran'[v] <= Len(batch'[v])
  BY EndTypes DEF IncidentsTypeOK
<1>2. base' = view /\ txn' = view /\ raced' \subseteq Subject
  BY DEF CommitsAs, IncidentsTypeOK
<1>3. Bases' = Bases /\ States' = States
  BY SameTypes
<1> QED BY <1>1, <1>2, <1>3 DEF IncidentsTypeOK

LEMMA CommitBatchInv ==
    ASSUME IncidentsInv, NEW w \in Server, CommitBatch(w)
    PROVE  IncidentsInv'
<1>0. IncidentsTypeOK /\ ViewInv /\ LookInv /\ SingleInv
  BY DEF IncidentsInv
<1>1. /\ CommitsAs(txn) /\ holder' = NoServer /\ batch[w] # <<>> /\ ~HasJob(w) /\ NoBatch(w)
      /\ UNCHANGED <<instant, buffer, jobs, look, sweep>>
  BY DEF CommitBatch
<1>2. holder = w
  <2>1. ran[w] \in Nat /\ ran[w] <= Len(batch[w]) /\ batch[w] \in Seq(Subject \cup {Flush})
    BY <1>0, TypeFacts
  <2>2. ran[w] > 0
    BY <1>1, <2>1 DEF HasJob
  <2> QED BY <1>0, <2>2 DEF ViewInv
<1>3. \A v \in Server : v # w => ran[v] = 0
  <2> SUFFICES ASSUME NEW v \in Server, v # w, ran[v] # 0 PROVE FALSE
    OBVIOUS
  <2>1. ran[v] \in Nat /\ (ran[v] > 0 => holder = v)
    BY <1>0, TypeFacts DEF ViewInv
  <2> QED BY <1>2, <2>1
<1>4. look[w] = NotLooked
  BY <1>0, <1>1 DEF LookInv
<1>5. /\ batch' = [batch EXCEPT ![w] = <<>>] /\ ran' = [ran EXCEPT ![w] = 0] /\ taken' = [taken EXCEPT ![w] = Untaken]
  BY <1>1 DEF NoBatch
<1>6. /\ ran \in [Server -> Nat] /\ batch \in [Server -> Seq(Subject \cup {Flush})]
  BY <1>0 DEF IncidentsTypeOK
<1>7. txn \in Bases
  BY <1>0 DEF IncidentsTypeOK
<1>8. \A i \in Id : base.incident[i].subject # NoSubject => txn.incident[i].subject = base.incident[i].subject
  BY <1>0 DEF ViewInv
<1>9. \A s \in Subject \ raced : SingleIn(txn, s)
  BY <1>0 DEF SingleInv
<1>10. \A v \in Server : ran'[v] = 0
  BY <1>3, <1>5, <1>6
<1>11. \A v \in Server : look[v] # NotLooked => batch'[v] = batch[v] /\ ran'[v] = ran[v]
  BY <1>4, <1>5, <1>6
<1>12. ViewInv' /\ LookInv' /\ SingleInv' /\ SweepInv'
  BY <1>1, <1>7, <1>8, <1>9, <1>10, <1>11, CommitInv
<1>13. IncidentsTypeOK'
  <2>1. sweep' \in [step : {"none", "listing", "closing"}, todo : SUBSET Id, chosen : Id \cup {0}]
    BY <1>0, <1>1 DEF IncidentsTypeOK
  <2> QED BY <1>0, <1>1, <1>7, <2>1, CommitTypes
<1> QED BY <1>12, <1>13 DEF IncidentsInv

LEMMA MaintainInv ==
    ASSUME IncidentsInv, NEW w \in Server, Maintain(w)
    PROVE  IncidentsInv'
<1> DEFINE swept == Expired(base)
           ids   == {i \in Id : MayClose(swept, i)}
           view  == Closed(swept, ids)
<1>0. IncidentsTypeOK /\ ViewInv /\ LookInv /\ SingleInv
  BY DEF IncidentsInv
<1>1. /\ CommitsAs(view) /\ holder = NoServer /\ holder' = NoServer
      /\ UNCHANGED <<instant, buffer, jobs, look, sweep, batch, ran, taken>>
  BY DEF Maintain
<1>2. base \in Bases /\ instant \in Nat
  BY <1>0, TypeFacts
<1>3. swept \in Bases /\ swept.incident = base.incident
  BY <1>2, ExpiredFacts
<1>4. view \in Bases /\ \A i \in Id : view.incident[i].subject = swept.incident[i].subject
  <2> HIDE DEF swept, ids
  <2> QED BY <1>2, <1>3, ClosedFacts
<1>5. \A s \in Subject \ raced : SingleIn(view, s)
  <2>1. \A i \in Id \cap ids : IsOpen(swept, i)
    BY DEF MayClose
  <2>2. \A s \in Subject \ raced : SingleIn(swept, s)
    BY <1>0, <1>3 DEF SingleInv, SingleIn, OpenOf, IsOpen
  <2> HIDE DEF swept, ids
  <2> QED BY <1>2, <1>3, <2>1, <2>2, ClosedSingle
<1>6. \A v \in Server : ran'[v] = 0
  BY <1>1, NobodyWrites
<1> HIDE DEF view
<1>7. ViewInv' /\ LookInv' /\ SingleInv' /\ SweepInv'
  BY <1>1, <1>3, <1>4, <1>5, <1>6, CommitInv
<1>8. IncidentsTypeOK'
  <2>1. sweep' \in [step : {"none", "listing", "closing"}, todo : SUBSET Id, chosen : Id \cup {0}]
    BY <1>0, <1>1 DEF IncidentsTypeOK
  <2> QED BY <1>0, <1>1, <1>4, <2>1, CommitTypes
<1> QED BY <1>7, <1>8 DEF IncidentsInv

\* The commits of the operator, each of one statement.
LEMMA StatementInv ==
    ASSUME IncidentsInv, NEW view \in Bases, CommitsAs(view), holder = NoServer, holder' = NoServer,
           UNCHANGED <<instant, buffer, jobs, batch, ran, taken, look>>,
           \A i \in Id : view.incident[i].subject = base.incident[i].subject,
           \A s \in Subject \ raced : SingleIn(view, s),
           \/ sweep' = sweep
           \/ sweep' = [sweep EXCEPT !.step = "listing"]
           \/ sweep' = [sweep EXCEPT !.chosen = 0]
    PROVE  IncidentsInv'
<1>0. IncidentsTypeOK /\ sweep \in [step : {"none", "listing", "closing"}, todo : SUBSET Id, chosen : Id \cup {0}]
  BY DEF IncidentsInv, IncidentsTypeOK
<1>1. /\ sweep' \in [step : {"none", "listing", "closing"}, todo : SUBSET Id, chosen : Id \cup {0}]
      /\ sweep'.todo = sweep.todo /\ sweep'.chosen \in {sweep.chosen, 0}
  BY <1>0
<1>2. \A v \in Server : ran'[v] = 0
  BY NobodyWrites
<1>3. ViewInv' /\ LookInv' /\ SingleInv' /\ SweepInv'
  BY <1>1, <1>2, CommitInv
<1>4. IncidentsTypeOK'
  BY <1>0, <1>1, CommitTypes
<1> QED BY <1>3, <1>4 DEF IncidentsInv

LEMMA OperatorWritesInv ==
    ASSUME IncidentsInv, SweepStates \/ SweepClose \/ \E i \in Id : CloseByHand(i)
    PROVE  IncidentsInv'
<1>0. /\ base \in Bases /\ instant \in Nat /\ \A s \in Subject \ raced : SingleIn(base, s)
  BY TypeFacts DEF IncidentsInv, SingleInv
<1>1. CASE SweepStates
  <2> DEFINE view == Expired(base)
  <2>1. /\ CommitsAs(view) /\ holder = NoServer /\ holder' = NoServer /\ sweep' = [sweep EXCEPT !.step = "listing"]
        /\ UNCHANGED <<instant, buffer, jobs, batch, ran, taken, look>>
    BY <1>1 DEF SweepStates
  <2>2. view \in Bases /\ view.incident = base.incident
    BY <1>0, ExpiredFacts
  <2> HIDE DEF view
  <2>3. \A s \in Subject \ raced : SingleIn(view, s)
    BY <1>0, <2>2 DEF SingleIn, OpenOf, IsOpen
  <2> QED BY <2>1, <2>2, <2>3, StatementInv
<1>2. ASSUME NEW ids, CommitsAs(Closed(base, ids)), \A i \in Id \cap ids : IsOpen(base, i),
             holder = NoServer, holder' = NoServer, sweep' = sweep \/ sweep' = [sweep EXCEPT !.chosen = 0],
             UNCHANGED <<instant, buffer, jobs, batch, ran, taken, look>>
      PROVE  IncidentsInv'
  <2> DEFINE view == Closed(base, ids)
  <2>1. view \in Bases /\ \A i \in Id : view.incident[i].subject = base.incident[i].subject
    BY <1>0, ClosedFacts
  <2>2. \A s \in Subject \ raced : SingleIn(view, s)
    BY <1>0, <1>2, ClosedSingle
  <2> HIDE DEF view
  <2>3. CommitsAs(view)
    BY <1>2 DEF view
  <2> QED BY <1>2, <2>1, <2>2, <2>3, StatementInv
<1>3. CASE SweepClose
  <2> DEFINE ids == {i \in {sweep.chosen} : IsOpen(base, i)}
  <2>1. /\ CommitsAs(Closed(base, ids)) /\ holder = NoServer /\ holder' = NoServer /\ sweep' = [sweep EXCEPT !.chosen = 0]
        /\ UNCHANGED <<instant, buffer, jobs, batch, ran, taken, look>>
    BY <1>3 DEF SweepClose
  <2>2. \A i \in Id \cap ids : IsOpen(base, i)
    OBVIOUS
  <2> HIDE DEF ids
  <2> QED BY <1>2, <2>1, <2>2
<1>4. ASSUME NEW i \in Id, CloseByHand(i) PROVE IncidentsInv'
  <2>1. /\ CommitsAs(Closed(base, {i})) /\ holder = NoServer /\ holder' = NoServer /\ sweep' = sweep /\ IsOpen(base, i)
        /\ UNCHANGED <<instant, buffer, jobs, batch, ran, taken, look>>
    BY <1>4 DEF CloseByHand
  <2> QED BY <1>2, <2>1
<1> QED BY <1>1, <1>3, <1>4

-----------------------------------------------------------------------------
(* Steps that leave the committed base alone.                               *)

\* What a look needs from such a step.
LEMMA LookKept ==
    ASSUME LookInv, UNCHANGED <<base, raced>>, NEW w \in Server, look'[w] # NotLooked,
           look'[w] = look[w], batch'[w] = batch[w], ran'[w] = ran[w], holder' # w
    PROVE  /\ HasJob(w)' /\ Job(w)' # Flush /\ holder' # w
           /\ look'[w] # 0 => base'.incident[look'[w]].subject = Job(w)'
           /\ Job(w)' \notin raced' =>
               IF look'[w] = 0 THEN OpenOf(base', Job(w)') = {} ELSE look'[w] \in OpenOf(base', Job(w)')
<1>1. HasJob(w)' = HasJob(w) /\ Job(w)' = Job(w)
  BY DEF HasJob, Job
<1>2. base' = base /\ raced' = raced
  OBVIOUS
<1> QED BY <1>1, <1>2 DEF LookInv

LEMMA SweepKept ==
    ASSUME IncidentsInv, UNCHANGED <<base, raced>>, instant' \in {instant, instant + 1},
           sweep'.todo \subseteq sweep.todo, sweep'.chosen \in {sweep.chosen, 0}
    PROVE  SweepInv'
<1> SUFFICES ASSUME NEW i \in sweep.todo \cup {sweep.chosen}, i # 0
             PROVE  /\ base.incident[i].subject # NoSubject
                    /\ base.incident[i].subject \notin raced =>
                        /\ base.incident[i].last + Ttl <= instant'
                        /\ i = sweep.chosen => base.state[base.incident[i].subject].level = "normal"
  BY DEF SweepInv, Silent, Cleared
<1>1. i \in Id /\ instant \in Nat /\ base \in Bases
  BY TypeFacts DEF IncidentsInv
<1>2. base.incident[i].last \in Nat /\ Ttl \in Nat
  BY <1>1, BaseFacts, IncidentsAssumption
<1>3. /\ base.incident[i].subject # NoSubject
      /\ base.incident[i].subject \notin raced =>
          /\ base.incident[i].last + Ttl <= instant
          /\ i = sweep.chosen => base.state[base.incident[i].subject].level = "normal"
  BY DEF IncidentsInv, SweepInv, Silent, Cleared
<1> QED BY <1>1, <1>2, <1>3

\* Steps that touch neither the bases nor a batch.
LEMMA QuietInv ==
    ASSUME IncidentsInv, UNCHANGED <<base, txn, holder, batch, ran, taken, look, raced>>,
           instant' \in {instant, instant + 1},
           buffer' \in [Server -> States'], jobs' \in [Server -> Seq(Subject \cup {Flush})],
           sweep' = sweep \/ UNCHANGED instant,
           sweep' \in [step : {"none", "listing", "closing"}, todo : SUBSET Id, chosen : Id \cup {0}],
           SweepInv'
    PROVE  IncidentsInv'
<1>0. IncidentsTypeOK /\ ViewInv /\ LookInv /\ SingleInv
  BY DEF IncidentsInv
<1>1. instant \in Nat
  BY <1>0, TypeFacts
<1>2. Bases \subseteq Bases' /\ States \subseteq States'
  BY <1>1, LaterBases
<1>3. IncidentsTypeOK'
  <2>1. taken \in [Server -> States']
    BY <1>0, <1>2 DEF IncidentsTypeOK
  <2> QED BY <1>0, <1>1, <1>2, <2>1 DEF IncidentsTypeOK
<1>4. ViewInv'
  BY <1>0 DEF ViewInv
<1>5. SingleInv'
  BY <1>0 DEF SingleInv, SingleIn, OpenOf, IsOpen
<1>6. LookInv'
  <2>1. \A w \in Server : look[w] # NotLooked => holder # w
    BY <1>0 DEF LookInv
  <2> QED BY <1>0, <2>1, LookKept DEF LookInv
<1> QED BY <1>3, <1>4, <1>5, <1>6 DEF IncidentsInv

LEMMA OutsideInv ==
    ASSUME IncidentsInv,
           \/ \E w \in Server, s \in Subject : Observe(w, s)
           \/ SweepList \/ SweepEnds \/ InstantPasses \/ \E i \in Id : SweepLook(i)
    PROVE  IncidentsInv'
<1>0. /\ IncidentsTypeOK /\ instant \in Nat /\ base \in Bases
      /\ buffer \in [Server -> States] /\ jobs \in [Server -> Seq(Subject \cup {Flush})]
      /\ sweep \in [step : {"none", "listing", "closing"}, todo : SUBSET Id, chosen : Id \cup {0}]
  BY TypeFacts DEF IncidentsInv, IncidentsTypeOK
<1>1. ASSUME NEW w \in Server, NEW s \in Subject, Observe(w, s) PROVE IncidentsInv'
  <2>1. PICK level \in {"normal", "raised"}, calls \in BOOLEAN :
          /\ buffer' = [buffer EXCEPT ![w][s] = [level |-> level, saved |-> instant]]
          /\ jobs' = [jobs EXCEPT ![w] = @ \o (IF Waits(w) THEN <<>> ELSE <<Flush>>) \o (IF calls THEN <<s>> ELSE <<>>)]
    BY <1>1 DEF Observe
  <2>2. UNCHANGED <<instant, base, txn, holder, batch, ran, taken, look, sweep, raced>>
    BY <1>1 DEF Observe
  <2>3. buffer[w] \in States /\ [level |-> level, saved |-> instant] \in [level : {"normal", "raised"}, saved : 0..instant]
    BY <1>0
  <2>4. [buffer[w] EXCEPT ![s] = [level |-> level, saved |-> instant]] \in States
    BY <2>3 DEF States
  <2>5. buffer' \in [Server -> States]
    BY <1>0, <2>1, <2>4
  <2>6. jobs' \in [Server -> Seq(Subject \cup {Flush})]
    <3> DEFINE a == IF Waits(w) THEN <<>> ELSE <<Flush>>
               b == IF calls THEN <<s>> ELSE <<>>
    <3>1. a \in Seq(Subject \cup {Flush}) /\ b \in Seq(Subject \cup {Flush})
      <4>1. <<>> \in Seq(Subject \cup {Flush}) /\ <<Flush>> \in Seq(Subject \cup {Flush})
        OBVIOUS
      <4>2. <<s>> \in Seq(Subject \cup {Flush})
        OBVIOUS
      <4> QED BY <4>1, <4>2
    <3>2. jobs' = [jobs EXCEPT ![w] = @ \o a \o b]
      BY <2>1
    <3> HIDE DEF a, b
    <3> QED BY <1>0, <3>1, <3>2
  <2>7. SweepInv'
    BY <2>2, SweepKept
  <2>8. States' = States
    BY <2>2, SameTypes
  <2> QED BY <1>0, <2>2, <2>5, <2>6, <2>7, <2>8, QuietInv
<1>2. CASE SweepList
  <2>1. /\ sweep' = [step |-> "closing", todo |-> {i \in Id : IsOpen(base, i) /\ Silent(base, i)}, chosen |-> 0]
        /\ UNCHANGED <<instant, base, txn, holder, buffer, jobs, batch, ran, taken, look, raced>>
    BY <1>2 DEF SweepList
  <2>2. SweepInv'
    BY <2>1, IdFacts DEF SweepInv, IsOpen, Silent
  <2>3. States' = States
    BY <2>1, SameTypes
  <2>4. sweep' \in [step : {"none", "listing", "closing"}, todo : SUBSET Id, chosen : Id \cup {0}]
    BY <2>1
  <2> QED BY <1>0, <2>1, <2>2, <2>3, <2>4, QuietInv
<1>3. CASE SweepEnds
  <2>1. sweep' = NoSweep /\ UNCHANGED <<instant, base, txn, holder, buffer, jobs, batch, ran, taken, look, raced>>
    BY <1>3 DEF SweepEnds
  <2>2. SweepInv'
    BY <2>1 DEF SweepInv, NoSweep
  <2>3. States' = States
    BY <2>1, SameTypes
  <2>4. sweep' \in [step : {"none", "listing", "closing"}, todo : SUBSET Id, chosen : Id \cup {0}]
    BY <2>1 DEF NoSweep
  <2> QED BY <1>0, <2>1, <2>2, <2>3, <2>4, QuietInv
<1>4. CASE InstantPasses
  <2>1. /\ instant' = instant + 1
        /\ UNCHANGED <<base, txn, holder, buffer, jobs, batch, ran, taken, look, sweep, raced>>
    BY <1>4 DEF InstantPasses
  <2>2. SweepInv'
    BY <2>1, SweepKept
  <2>3. States \subseteq States'
    BY <1>0, <2>1, LaterBases
  <2>4. buffer' \in [Server -> States']
    BY <1>0, <2>1, <2>3
  <2> QED BY <1>0, <2>1, <2>2, <2>4, QuietInv
<1>5. ASSUME NEW i \in Id, SweepLook(i) PROVE IncidentsInv'
  <2>1. /\ sweep' = [sweep EXCEPT !.todo = @ \ {i}, !.chosen = IF Cleared(base, i) THEN i ELSE 0]
        /\ i \in sweep.todo
        /\ UNCHANGED <<instant, base, txn, holder, buffer, jobs, batch, ran, taken, look, raced>>
    BY <1>5 DEF SweepLook
  <2>2. /\ sweep'.todo = sweep.todo \ {i} /\ sweep'.chosen = IF Cleared(base, i) THEN i ELSE 0
        /\ sweep' \in [step : {"none", "listing", "closing"}, todo : SUBSET Id, chosen : Id \cup {0}]
    BY <1>0, <2>1
  <2>3. SweepInv
    BY DEF IncidentsInv
  <2>4. SweepInv'
    BY <2>1, <2>2, <2>3 DEF SweepInv, Silent, Cleared
  <2>5. States' = States
    BY <2>1, SameTypes
  <2> QED BY <1>0, <2>1, <2>2, <2>4, <2>5, QuietInv
<1> QED BY <1>1, <1>2, <1>3, <1>4, <1>5

-----------------------------------------------------------------------------
(* Steps of a thread inside its batch.                                      *)

\* What the others have looked at is out of reach of such a step.
LEMMA ThreadInv ==
    ASSUME IncidentsInv, NEW w \in Server, UNCHANGED <<instant, base, raced, sweep>>, IncidentsTypeOK', ViewInv',
           \A s \in Subject \ raced : SingleIn(txn', s),
           \A v \in Server \ {w} : /\ look'[v] = look[v] /\ batch'[v] = batch[v] /\ ran'[v] = ran[v]
                                   /\ holder' # v \/ holder = v,
           look'[w] # NotLooked =>
               /\ HasJob(w)' /\ Job(w)' # Flush /\ holder' # w
               /\ look'[w] # 0 => base'.incident[look'[w]].subject = Job(w)'
               /\ Job(w)' \notin raced' =>
                   IF look'[w] = 0 THEN OpenOf(base', Job(w)') = {} ELSE look'[w] \in OpenOf(base', Job(w)')
    PROVE  IncidentsInv'
<1>0. ViewInv /\ LookInv /\ SingleInv
  BY DEF IncidentsInv
<1>1. LookInv'
  <2>1. \A v \in Server \ {w} : look[v] # NotLooked => holder' # v
    BY <1>0 DEF LookInv
  <2>2. ASSUME NEW v \in Server \ {w}, look'[v] # NotLooked
        PROVE  /\ HasJob(v)' /\ Job(v)' # Flush /\ holder' # v
               /\ look'[v] # 0 => base'.incident[look'[v]].subject = Job(v)'
               /\ Job(v)' \notin raced' =>
                   IF look'[v] = 0 THEN OpenOf(base', Job(v)') = {} ELSE look'[v] \in OpenOf(base', Job(v)')
    BY <1>0, <2>1, <2>2, LookKept
  <2> QED BY <2>2 DEF LookInv
<1>2. SingleInv'
  <2>1. \A s \in Subject \ raced : SingleIn(base', s)
    BY <1>0 DEF SingleInv
  <2> QED BY <2>1 DEF SingleInv, SingleIn, OpenOf, IsOpen
<1>3. SweepInv'
  BY SweepKept
<1> QED BY <1>1, <1>2, <1>3 DEF IncidentsInv

\* The transaction that a writer gives back, or keeps.
LEMMA ReleaseFacts ==
    ASSUME IncidentsInv, NEW w \in Server, Releases(w), UNCHANGED <<instant, base>>
    PROVE  /\ txn' \in Bases /\ holder' \in Server \cup {NoServer} /\ holder' # w
           /\ \A v \in Server \ {w} : holder' # v \/ holder = v
           /\ txn' = txn \/ txn' = base
           /\ holder' = NoServer => txn' = base'
           /\ holder # w => holder' = holder
           /\ \A s \in Subject \ raced : SingleIn(txn', s)
<1>1. /\ IncidentsTypeOK /\ ViewInv /\ SingleInv /\ NoServer \notin Server
  BY IncidentsAssumption DEF IncidentsInv
<1>2. /\ holder' = (IF holder = w THEN NoServer ELSE holder) /\ txn' = (IF holder = w THEN base ELSE txn)
  BY DEF Releases
<1>3. txn \in Bases /\ base \in Bases /\ holder \in Server \cup {NoServer}
  BY <1>1, TypeFacts
<1>4. txn' = txn \/ txn' = base
  BY <1>2
<1>5. \A s \in Subject \ raced : SingleIn(txn', s)
  BY <1>1, <1>4 DEF SingleInv
<1>6. holder' = NoServer => txn' = base'
  BY <1>1, <1>2 DEF ViewInv
<1> QED BY <1>1, <1>2, <1>3, <1>4, <1>5, <1>6

LEMMA TakeBatchInv ==
    ASSUME IncidentsInv, NEW w \in Server, TakeBatch(w)
    PROVE  IncidentsInv'
<1>0. IncidentsTypeOK /\ ViewInv /\ LookInv /\ SingleInv
  BY DEF IncidentsInv
<1>1. PICK n \in 1..Len(jobs[w]) :
        /\ batch' = [batch EXCEPT ![w] = SubSeq(jobs[w], 1, n)]
        /\ jobs' = [jobs EXCEPT ![w] = SubSeq(@, n + 1, Len(@))]
  BY DEF TakeBatch
<1>2. /\ batch[w] = <<>>
      /\ UNCHANGED <<instant, base, txn, holder, buffer, ran, taken, look, sweep, raced>>
  BY DEF TakeBatch
<1>3. /\ jobs[w] \in Seq(Subject \cup {Flush}) /\ ran[w] \in Nat /\ ran[w] <= Len(batch[w])
      /\ jobs \in [Server -> Seq(Subject \cup {Flush})] /\ batch \in [Server -> Seq(Subject \cup {Flush})]
  BY <1>0, TypeFacts DEF IncidentsTypeOK
<1>4. ran[w] = 0
  BY <1>2, <1>3
<1>5. SubSeq(jobs[w], 1, n) \in Seq(Subject \cup {Flush}) /\ Len(SubSeq(jobs[w], 1, n)) \in Nat
  BY <1>3
<1>6. SubSeq(jobs[w], n + 1, Len(jobs[w])) \in Seq(Subject \cup {Flush})
  BY <1>3
<1>7. IncidentsTypeOK'
  <2>1. batch' \in [Server -> Seq(Subject \cup {Flush})] /\ jobs' \in [Server -> Seq(Subject \cup {Flush})]
    BY <1>1, <1>3, <1>5, <1>6
  <2>2. \A v \in Server : ran'[v] <= Len(batch'[v])
    <3> SUFFICES ASSUME NEW v \in Server PROVE ran[v] <= Len(batch'[v])
      BY <1>2
    <3>1. CASE v = w
      BY <1>1, <1>3, <1>4, <1>5, <3>1
    <3>2. CASE v # w
      BY <1>0, <1>1, <1>3, <3>2 DEF IncidentsTypeOK
    <3> QED BY <3>1, <3>2
  <2>3. Bases' = Bases /\ States' = States
    BY <1>2, SameTypes
  <2> QED BY <1>0, <1>2, <2>1, <2>2, <2>3 DEF IncidentsTypeOK
<1>8. ViewInv'
  BY <1>0, <1>2 DEF ViewInv
<1>9. look'[w] = NotLooked
  BY <1>0, <1>2, <1>3 DEF LookInv, HasJob
<1>10. \A s \in Subject \ raced : SingleIn(txn', s)
  BY <1>0, <1>2 DEF SingleInv
<1>11. \A v \in Server \ {w} : /\ look'[v] = look[v] /\ batch'[v] = batch[v] /\ ran'[v] = ran[v]
                               /\ holder' # v \/ holder = v
  BY <1>1, <1>2, <1>3
<1> QED BY <1>2, <1>7, <1>8, <1>9, <1>10, <1>11, ThreadInv

LEMMA LookStepInv ==
    ASSUME IncidentsInv, NEW w \in Server, Look(w)
    PROVE  IncidentsInv'
<1>0. IncidentsTypeOK /\ ViewInv /\ LookInv /\ SingleInv
  BY DEF IncidentsInv
<1>1. PICK i \in Seek(base, Job(w)) : look' = [look EXCEPT ![w] = i]
  BY DEF Look
<1>2. /\ HasJob(w) /\ Job(w) # Flush /\ holder # w
      /\ UNCHANGED <<instant, base, txn, holder, buffer, jobs, batch, ran, taken, sweep, raced>>
  BY DEF Look
<1>3. look \in [Server -> Id \cup {0, NotLooked}]
  BY <1>0 DEF IncidentsTypeOK
<1>4. /\ i \in Id \cup {0}
      /\ i = 0 => OpenOf(base, Job(w)) = {}
      /\ i # 0 => i \in OpenOf(base, Job(w)) /\ base.incident[i].subject = Job(w)
  BY IdFacts DEF Seek, OpenOf
<1>5. look' \in [Server -> Id \cup {0, NotLooked}] /\ look'[w] = i
  BY <1>1, <1>3, <1>4
<1>6. IncidentsTypeOK'
  <2>1. Bases' = Bases /\ States' = States
    BY <1>2, SameTypes
  <2> QED BY <1>0, <1>2, <1>5, <2>1 DEF IncidentsTypeOK
<1>7. ViewInv'
  BY <1>0, <1>2 DEF ViewInv
<1>8. HasJob(w)' = HasJob(w) /\ Job(w)' = Job(w)
  BY <1>2 DEF HasJob, Job
<1>9. \A s \in Subject \ raced : SingleIn(txn', s)
  BY <1>0, <1>2 DEF SingleInv
<1>10. \A v \in Server \ {w} : /\ look'[v] = look[v] /\ batch'[v] = batch[v] /\ ran'[v] = ran[v]
                               /\ holder' # v \/ holder = v
  BY <1>1, <1>2, <1>3
<1>11. look'[w] # NotLooked =>
         /\ HasJob(w)' /\ Job(w)' # Flush /\ holder' # w
         /\ look'[w] # 0 => base'.incident[look'[w]].subject = Job(w)'
         /\ Job(w)' \notin raced' =>
             IF look'[w] = 0 THEN OpenOf(base', Job(w)') = {} ELSE look'[w] \in OpenOf(base', Job(w)')
  BY <1>2, <1>4, <1>5, <1>8
<1> QED BY <1>2, <1>6, <1>7, <1>9, <1>10, <1>11, ThreadInv

\* The first write of a transaction, or one more.
LEMMA WriteFacts ==
    ASSUME IncidentsInv, NEW w \in Server, NEW view \in Bases, Writes(w, view), HasJob(w),
           UNCHANGED <<instant, base, jobs, batch>>,
           \A i \in Id : base.incident[i].subject # NoSubject =>
               /\ view.incident[i].subject = base.incident[i].subject
               /\ view.incident[i].closed = base.incident[i].closed
    PROVE  /\ ViewInv' /\ txn' = view /\ holder' = w
           /\ ran' \in [Server -> Nat] /\ \A v \in Server : ran'[v] <= Len(batch'[v])
           /\ \A v \in Server \ {w} : ran'[v] = ran[v] /\ holder' # v
<1>0. IncidentsTypeOK /\ ViewInv /\ NoServer \notin Server
  BY IncidentsAssumption DEF IncidentsInv
<1>1. holder \in {NoServer, w} /\ holder' = w /\ txn' = view /\ ran' = [ran EXCEPT ![w] = @ + 1]
  BY DEF Writes, MayWrite
<1>2. ran \in [Server -> Nat] /\ \A v \in Server : ran[v] <= Len(batch[v])
  BY <1>0 DEF IncidentsTypeOK
<1>3. ran' \in [Server -> Nat]
  BY <1>1, <1>2
<1>4. \A v \in Server : ran'[v] <= Len(batch'[v])
  <2>1. ran[w] < Len(batch[w]) /\ Len(batch[w]) \in Nat
    BY <1>0, TypeFacts DEF HasJob
  <2> QED BY <1>1, <1>2, <2>1
<1>5. \A v \in Server \ {w} : ran'[v] = ran[v] /\ holder' # v
  BY <1>1, <1>2
<1>6. \A v \in Server : ran'[v] > 0 => v = w
  <2> SUFFICES ASSUME NEW v \in Server, ran'[v] > 0, v # w PROVE FALSE
    OBVIOUS
  <2>1. ran[v] > 0
    BY <1>5
  <2>2. holder = v
    BY <1>0, <2>1 DEF ViewInv
  <2> QED BY <1>0, <1>1, <2>2
<1>7. ViewInv'
  BY <1>0, <1>1, <1>6 DEF ViewInv
<1> QED BY <1>1, <1>3, <1>4, <1>5, <1>7

LEMMA RunFlushInv ==
    ASSUME IncidentsInv, NEW w \in Server, RunFlush(w)
    PROVE  IncidentsInv'
<1> DEFINE states == IF taken[w] = Untaken THEN buffer[w] ELSE taken[w]
           new    == [s \in Subject |-> IF states[s] # NoState THEN states[s] ELSE txn.state[s]]
           view   == [txn EXCEPT !.state = new]
<1>0. IncidentsTypeOK /\ ViewInv /\ LookInv /\ SingleInv
  BY DEF IncidentsInv
<1>1. /\ HasJob(w) /\ Job(w) = Flush /\ Writes(w, [txn EXCEPT !.state = [s \in Subject |-> IF states[s] # NoState THEN states[s] ELSE @[s]]])
      /\ taken' = [taken EXCEPT ![w] = states]
      /\ buffer' = IF taken[w] = Untaken THEN [buffer EXCEPT ![w] = NoStates] ELSE buffer
      /\ UNCHANGED <<instant, base, jobs, batch, look, sweep, raced>>
  BY DEF RunFlush
<1>2. /\ txn \in Bases /\ states \in States /\ instant \in Nat
      /\ taken \in [Server -> States] /\ buffer \in [Server -> States]
  BY <1>0, TypeFacts DEF IncidentsTypeOK
<1>3. txn = [state |-> txn.state, incident |-> txn.incident] /\ txn.state \in States
  BY <1>2 DEF Bases
<1>4. new \in States
  BY <1>2, <1>3 DEF States
<1>5. view = [state |-> new, incident |-> txn.incident] /\ Writes(w, view)
  BY <1>1, <1>3
<1> HIDE DEF states, new
<1>6. view \in Bases /\ view.incident = txn.incident
  <2>1. txn.incident \in [Id -> [subject : Subject \cup {NoSubject}, last : 0..instant, closed : 0..instant]]
    BY <1>2 DEF Bases
  <2> QED BY <1>4, <1>5, <2>1 DEF Bases
<1> HIDE DEF view
<1>7. \A i \in Id : base.incident[i].subject # NoSubject =>
         /\ view.incident[i].subject = base.incident[i].subject
         /\ view.incident[i].closed = base.incident[i].closed
  BY <1>0, <1>6 DEF ViewInv
<1>8. /\ ViewInv' /\ txn' = view /\ holder' = w
      /\ ran' \in [Server -> Nat] /\ \A v \in Server : ran'[v] <= Len(batch'[v])
      /\ \A v \in Server \ {w} : ran'[v] = ran[v] /\ holder' # v
  BY <1>1, <1>5, <1>6, <1>7, WriteFacts
<1>9. NoStates \in States
  BY <1>2 DEF NoStates, NoState, States
<1>10. taken' \in [Server -> States] /\ buffer' \in [Server -> States]
  BY <1>1, <1>2, <1>9
<1>11. IncidentsTypeOK'
  <2>1. Bases' = Bases /\ States' = States
    BY <1>1, SameTypes
  <2> QED BY <1>0, <1>1, <1>6, <1>8, <1>10, <2>1 DEF IncidentsTypeOK
<1>12. look'[w] = NotLooked
  BY <1>0, <1>1 DEF LookInv
<1>13. \A s \in Subject \ raced : SingleIn(txn', s)
  BY <1>0, <1>6, <1>8 DEF SingleInv, SingleIn, OpenOf, IsOpen
<1> QED BY <1>1, <1>8, <1>11, <1>12, <1>13, ThreadInv

LEMMA RecordIncidentInv ==
    ASSUME IncidentsInv, NEW w \in Server, RecordIncident(w)
    PROVE  IncidentsInv'
<1> DEFINE s == Job(w)
<1>0. IncidentsTypeOK /\ ViewInv /\ LookInv /\ SingleInv
  BY DEF IncidentsInv
<1>1. PICK found \in Sought(w) : Writes(w, WithEvent(txn, found, s))
  BY DEF RecordIncident
<1>2. /\ HasJob(w) /\ Job(w) # Flush /\ look' = [look EXCEPT ![w] = NotLooked]
      /\ \E i \in Id : txn.incident[i] = NoIncident
      /\ UNCHANGED <<instant, base, buffer, jobs, batch, taken, sweep, raced>>
  BY DEF RecordIncident
<1>3. /\ txn \in Bases /\ base \in Bases /\ instant \in Nat /\ s \in Subject /\ s # NoSubject
      /\ look[w] \in Id \cup {0, NotLooked} /\ look \in [Server -> Id \cup {0, NotLooked}]
  BY <1>0, <1>2, TypeFacts, IncidentsAssumption DEF IncidentsTypeOK
<1> HIDE DEF s
\* What the job knows of the base it is about to write.
<1>4. /\ found \in Id \cup {0}
      /\ found # 0 => txn.incident[found].subject = s
      /\ s \notin raced => IF found = 0 THEN OpenOf(txn, s) = {} ELSE found \in OpenOf(txn, s)
  <2>1. CASE holder = w
    <3>1. found \in Seek(txn, s)
      BY <1>1, <2>1 DEF Sought, s
    <3> QED BY <3>1, IdFacts DEF Seek, OpenOf
  <2>2. CASE holder # w
    <3>1. found = look[w] /\ look[w] # NotLooked
      BY <1>1, <2>2 DEF Sought
    <3>2. txn = base
      BY <1>0, <1>1, <2>2 DEF Writes, MayWrite, ViewInv
    <3>3. /\ look[w] # 0 => base.incident[look[w]].subject = s
          /\ s \notin raced => IF look[w] = 0 THEN OpenOf(base, s) = {} ELSE look[w] \in OpenOf(base, s)
      BY <1>0, <3>1 DEF LookInv, s
    <3> QED BY <1>3, <3>1, <3>2, <3>3
  <2> QED BY <2>1, <2>2
<1> DEFINE view == WithEvent(txn, found, s)
           k    == Fed(txn, found)
<1>5. /\ k \in Id
      /\ k = found \/ (found = 0 /\ txn.incident[k] = NoIncident)
      /\ view.state = txn.state /\ view \in Bases
      /\ \A i \in Id \ {k} : view.incident[i] = txn.incident[i]
      /\ view.incident[k].last = instant
      /\ found # 0 => /\ view.incident[k].subject = txn.incident[k].subject
                      /\ view.incident[k].closed = txn.incident[k].closed
      /\ found = 0 => view.incident[k].subject = s /\ view.incident[k].closed = 0
  <2>1. 0 \notin Id /\ txn \in Bases /\ s \in Subject /\ found \in Id \cup {0} /\ instant \in Nat
    BY <1>3, <1>4, IdFacts
  <2>2. \E i \in Id : txn.incident[i] = NoIncident
    BY <1>2
  <2> QED BY <2>1, <2>2, EventFacts
<1>6. Writes(w, view)
  BY <1>1
<1> HIDE DEF view, k
<1>7. k = found => found # 0
  BY <1>5, IdFacts
<1>8. found = 0 => txn.incident[k].subject = NoSubject
  BY <1>5, <1>7 DEF NoIncident
<1>9. view.incident[k].subject = s
  BY <1>4, <1>5, <1>7
<1>10. \A i \in Id : base.incident[i].subject # NoSubject =>
         /\ view.incident[i].subject = base.incident[i].subject
         /\ view.incident[i].closed = base.incident[i].closed
  <2> SUFFICES ASSUME NEW i \in Id, base.incident[i].subject # NoSubject
               PROVE  /\ view.incident[i].subject = base.incident[i].subject
                      /\ view.incident[i].closed = base.incident[i].closed
    OBVIOUS
  <2>1. txn.incident[i].subject = base.incident[i].subject /\ txn.incident[i].closed = base.incident[i].closed
    BY <1>0 DEF ViewInv
  <2>2. CASE i # k
    BY <1>5, <2>1, <2>2
  <2>3. CASE i = k
    <3>1. found # 0
      BY <1>8, <2>1, <2>3
    <3> QED BY <1>5, <2>1, <2>3, <3>1
  <2> QED BY <2>2, <2>3
<1>11. /\ ViewInv' /\ txn' = view /\ holder' = w
       /\ ran' \in [Server -> Nat] /\ \A v \in Server : ran'[v] <= Len(batch'[v])
       /\ \A v \in Server \ {w} : ran'[v] = ran[v] /\ holder' # v
  BY <1>2, <1>5, <1>6, <1>10, WriteFacts
<1>12. look' \in [Server -> Id \cup {0, NotLooked}] /\ look'[w] = NotLooked /\ \A v \in Server \ {w} : look'[v] = look[v]
  BY <1>2, <1>3
<1>13. IncidentsTypeOK'
  <2>1. Bases' = Bases /\ States' = States
    BY <1>2, SameTypes
  <2> QED BY <1>0, <1>2, <1>5, <1>11, <1>12, <2>1 DEF IncidentsTypeOK
<1>14. \A x \in Subject \ raced : SingleIn(view, x)
  <2> SUFFICES ASSUME NEW x \in Subject \ raced PROVE SingleIn(view, x)
    OBVIOUS
  <2>1. SingleIn(txn, x)
    BY <1>0 DEF SingleInv
  <2>2. CASE x # s
    <3>1. \A i \in Id : view.incident[i].subject = x => view.incident[i] = txn.incident[i]
      BY <1>5, <1>9, <2>2
    <3>2. OpenOf(view, x) \subseteq OpenOf(txn, x)
      BY <3>1 DEF OpenOf, IsOpen
    <3> QED BY <2>1, <3>1, <3>2 DEF SingleIn, IsOpen
  <2>3. CASE x = s
    <3>1. IF found = 0 THEN OpenOf(txn, s) = {} ELSE k = found /\ found \in OpenOf(txn, s)
      BY <1>4, <1>5, <2>3
    <3>2. view.incident[k].closed = 0
      BY <1>5, <3>1 DEF OpenOf, IsOpen
    <3>3. \A i \in Id : i # k => (IsOpen(view, i) <=> IsOpen(txn, i)) /\ view.incident[i] = txn.incident[i]
      BY <1>5 DEF IsOpen
    <3>4. \A i \in OpenOf(view, s) : i = k
      <4> SUFFICES ASSUME NEW i \in OpenOf(view, s), i # k PROVE FALSE
        OBVIOUS
      <4>1. i \in OpenOf(txn, s)
        BY <3>3 DEF OpenOf
      <4> QED BY <2>1, <2>3, <3>1, <4>1 DEF SingleIn
    <3>5. IsOpen(view, k)
      BY <1>3, <1>9, <3>2 DEF IsOpen
    <3> QED BY <2>1, <2>3, <3>3, <3>4, <3>5 DEF SingleIn
  <2> QED BY <2>2, <2>3
<1> QED BY <1>2, <1>11, <1>12, <1>13, <1>14, ThreadInv

LEMMA EndInv ==
    ASSUME IncidentsInv, NEW w \in Server, UndoBatch(w) \/ ServerDies(w)
    PROVE  IncidentsInv'
<1>0. IncidentsTypeOK /\ ViewInv /\ LookInv /\ SingleInv
  BY DEF IncidentsInv
<1>1. /\ Releases(w) /\ ran' = [ran EXCEPT ![w] = 0] /\ look' = [look EXCEPT ![w] = NotLooked]
      /\ UNCHANGED <<instant, base, sweep, raced>>
  BY DEF UndoBatch, ServerDies, NoBatch
<1>2. /\ txn' \in Bases /\ holder' \in Server \cup {NoServer} /\ holder' # w
      /\ \A v \in Server \ {w} : holder' # v \/ holder = v
      /\ txn' = txn \/ txn' = base
      /\ holder' = NoServer => txn' = base'
      /\ holder # w => holder' = holder
      /\ \A s \in Subject \ raced : SingleIn(txn', s)
  BY <1>1, ReleaseFacts
<1>3. /\ ran \in [Server -> Nat] /\ look \in [Server -> Id \cup {0, NotLooked}]
      /\ batch \in [Server -> Seq(Subject \cup {Flush})] /\ \A v \in Server : ran[v] <= Len(batch[v])
  BY <1>0 DEF IncidentsTypeOK
<1>4. /\ ran' \in [Server -> Nat] /\ look' \in [Server -> Id \cup {0, NotLooked}] /\ look'[w] = NotLooked /\ ran'[w] = 0
      /\ \A v \in Server \ {w} : look'[v] = look[v] /\ ran'[v] = ran[v]
  BY <1>1, <1>3
<1>5. ViewInv'
  <2>1. \A v \in Server : ran'[v] > 0 => holder' = v
    <3> SUFFICES ASSUME NEW v \in Server, ran'[v] > 0 PROVE holder' = v
      OBVIOUS
    <3>1. v # w
      BY <1>4
    <3>2. holder = v
      BY <1>0, <1>4, <3>1 DEF ViewInv
    <3> QED BY <1>2, <3>1, <3>2
  <2>2. \A i \in Id : base.incident[i].subject # NoSubject =>
          /\ txn'.incident[i].subject = base.incident[i].subject
          /\ txn'.incident[i].closed = base.incident[i].closed
    BY <1>0, <1>2 DEF ViewInv
  <2> QED BY <1>1, <1>2, <2>1, <2>2 DEF ViewInv
<1>6. Bases' = Bases /\ States' = States
  BY <1>1, SameTypes
<1>7. CASE UndoBatch(w)
  <2>1. UNCHANGED <<buffer, jobs, batch, taken>>
    BY <1>7 DEF UndoBatch
  <2>2. \A v \in Server : ran'[v] <= Len(batch'[v])
    <3> SUFFICES ASSUME NEW v \in Server PROVE ran'[v] <= Len(batch[v])
      BY <2>1
    <3>1. Len(batch[v]) \in Nat
      BY <1>3
    <3>2. ran[v] <= Len(batch[v])
      BY <1>3
    <3>3. v # w => ran'[v] = ran[v]
      BY <1>4
    <3> QED BY <1>4, <3>1, <3>2, <3>3
  <2>3. IncidentsTypeOK'
    BY <1>0, <1>1, <1>2, <1>4, <1>6, <2>1, <2>2 DEF IncidentsTypeOK
  <2>4. \A v \in Server \ {w} : batch'[v] = batch[v]
    BY <2>1
  <2> QED BY <1>1, <1>2, <1>4, <1>5, <2>3, <2>4, ThreadInv
<1>8. CASE ServerDies(w)
  <2>1. /\ NoBatch(w) /\ buffer' = [buffer EXCEPT ![w] = NoStates] /\ jobs' = [jobs EXCEPT ![w] = <<>>]
    BY <1>8 DEF ServerDies
  <2>2. /\ batch' \in [Server -> Seq(Subject \cup {Flush})] /\ taken' \in [Server -> States]
        /\ \A v \in Server : ran'[v] <= Len(batch'[v])
    BY <1>0, <1>1, <2>1, EndTypes
  <2>3. /\ buffer \in [Server -> States] /\ jobs \in [Server -> Seq(Subject \cup {Flush})] /\ instant \in Nat
    BY <1>0, TypeFacts DEF IncidentsTypeOK
  <2>4. NoStates \in States /\ <<>> \in Seq(Subject \cup {Flush})
    BY <2>3 DEF NoStates, NoState, States
  <2>5. buffer' \in [Server -> States] /\ jobs' \in [Server -> Seq(Subject \cup {Flush})]
    BY <2>1, <2>3, <2>4
  <2>6. IncidentsTypeOK'
    BY <1>0, <1>1, <1>2, <1>4, <1>6, <2>2, <2>5 DEF IncidentsTypeOK
  <2>7. \A v \in Server \ {w} : batch'[v] = batch[v]
    BY <1>3, <2>1 DEF NoBatch
  <2> QED BY <1>1, <1>2, <1>4, <1>5, <2>6, <2>7, ThreadInv
<1> QED BY <1>7, <1>8

-----------------------------------------------------------------------------
(* The invariant.                                                           *)

LEMMA InitHolds == IncidentsInit => IncidentsInv
<1> SUFFICES ASSUME IncidentsInit PROVE IncidentsInv
  OBVIOUS
<1> DEFINE none == [i \in Id |-> NoIncident]
<1>1. /\ instant = 1 /\ base = [state |-> NoStates, incident |-> none] /\ txn = base /\ holder = NoServer
      /\ buffer = [w \in Server |-> NoStates]
      /\ jobs = [w \in Server |-> <<>>] /\ batch = [w \in Server |-> <<>>]
      /\ ran = [w \in Server |-> 0] /\ taken = [w \in Server |-> Untaken]
      /\ look = [w \in Server |-> NotLooked] /\ sweep = NoSweep /\ raced = {}
  BY DEF IncidentsInit
<1>2. NoStates \in States /\ Untaken \in States
  BY <1>1 DEF NoStates, NoState, Untaken, States
<1>3. none \in [Id -> [subject : Subject \cup {NoSubject}, last : 0..instant, closed : 0..instant]]
  BY <1>1 DEF NoIncident
<1>4. \A i \in Id : none[i].subject = NoSubject
  BY DEF NoIncident
<1> HIDE DEF none
<1>5. base \in Bases /\ base.incident = none
  BY <1>1, <1>2, <1>3 DEF Bases
<1>6. /\ <<>> \in Seq(Subject \cup {Flush}) /\ Len(<<>>) = 0
      /\ NoSweep \in [step : {"none", "listing", "closing"}, todo : SUBSET Id, chosen : Id \cup {0}]
  BY DEF NoSweep
<1>7. IncidentsTypeOK
  <2>1. /\ jobs \in [Server -> Seq(Subject \cup {Flush})] /\ batch \in [Server -> Seq(Subject \cup {Flush})]
        /\ ran \in [Server -> Nat] /\ \A w \in Server : ran[w] <= Len(batch[w])
    BY <1>1, <1>6
  <2> QED BY <1>1, <1>2, <1>5, <1>6, <2>1 DEF IncidentsTypeOK
<1>8. ViewInv
  BY <1>1 DEF ViewInv
<1>9. LookInv
  BY <1>1 DEF LookInv
<1>10. SingleInv
  <2> SUFFICES ASSUME NEW s \in Subject PROVE SingleIn(base, s)
    BY <1>1 DEF SingleInv
  <2>1. NoSubject \notin Subject
    BY IncidentsAssumption
  <2> QED BY <1>4, <1>5, <2>1 DEF SingleIn, OpenOf
<1>11. SweepInv
  BY <1>1 DEF SweepInv, NoSweep
<1> QED BY <1>7, <1>8, <1>9, <1>10, <1>11 DEF IncidentsInv

LEMMA StepHolds == IncidentsInv /\ [IncidentsNext]_incidentsVars => IncidentsInv'
<1> SUFFICES ASSUME IncidentsInv, [IncidentsNext]_incidentsVars PROVE IncidentsInv'
  OBVIOUS
<1>1. ASSUME NEW w \in Server, Thread(w) PROVE IncidentsInv'
  BY <1>1, TakeBatchInv, RunFlushInv, LookStepInv, RecordIncidentInv, CommitBatchInv, EndInv, MaintainInv DEF Thread
<1>2. ASSUME NEW w \in Server, ServerDies(w) PROVE IncidentsInv'
  BY <1>2, EndInv
<1>3. ASSUME NEW w \in Server, NEW s \in Subject, Observe(w, s) PROVE IncidentsInv'
  BY <1>3, OutsideInv
<1>4. CASE Operator
  BY <1>4, OperatorWritesInv, OutsideInv DEF Operator
<1>5. CASE InstantPasses
  BY <1>5, OutsideInv
<1>6. CASE UNCHANGED incidentsVars
  <2>1. UNCHANGED <<instant, base, txn, holder, buffer, jobs, batch, ran, taken, look, sweep, raced>>
    BY <1>6 DEF incidentsVars
  <2>2. SweepInv'
    BY <2>1, SweepKept
  <2>3. States' = States
    BY <2>1, SameTypes
  <2>4. /\ buffer' \in [Server -> States'] /\ jobs' \in [Server -> Seq(Subject \cup {Flush})]
        /\ sweep' \in [step : {"none", "listing", "closing"}, todo : SUBSET Id, chosen : Id \cup {0}]
    BY <2>1, <2>3 DEF IncidentsInv, IncidentsTypeOK
  <2> QED BY <2>1, <2>2, <2>4, QuietInv
<1> QED BY <1>1, <1>2, <1>3, <1>4, <1>5, <1>6 DEF IncidentsNext

LEMMA IncidentsInvariance == IncidentsSpec => []IncidentsInv
<1> QED BY InitHolds, StepHolds, PTL DEF IncidentsSpec

-----------------------------------------------------------------------------
(* The theorems.                                                            *)

\* The variables keep their types.
THEOREM IncidentsTypeCorrect == IncidentsSpec => []IncidentsTypeOK
<1>1. IncidentsInv => IncidentsTypeOK
  BY DEF IncidentsInv
<1> QED BY <1>1, IncidentsInvariance, PTL

\* A subject has one open incident at most and no closed one is fed, unless the
\* base changed between a look outside a transaction and the write that relied on it:
\* create_or_update_incident in the writer threads of any number of processes.
THEOREM OneIncident == IncidentsSpec => []OneIncidentAtATime
<1>1. IncidentsInv => OneIncidentAtATime
  BY DEF IncidentsInv, SingleInv, SingleIn, OneIncidentAtATime
<1> QED BY <1>1, IncidentsInvariance, PTL

\* An incident is closed by hand or when its subject is back to normal and
\* silent, unless the subject changed under a sweep: close_quiet_incidents.
THEOREM ClosuresAreQuiet == IncidentsSpec => ClosedWhenQuiet
<1> DEFINE Quiet ==
      \A i \in Id : IsOpen(base, i) /\ base'.incident[i].closed # 0 =>
          \/ CloseByHand(i)
          \/ Silent(base, i) /\ Cleared(Expired(base), i)
          \/ base.incident[i].subject \in raced
<1>1. IncidentsInv /\ [IncidentsNext]_incidentsVars => [Quiet]_incidentsVars
  <2> SUFFICES ASSUME IncidentsInv, IncidentsNext,
                      NEW i \in Id, IsOpen(base, i), base'.incident[i].closed # 0,
                      ~CloseByHand(i), base.incident[i].subject \notin raced
               PROVE  Silent(base, i) /\ Cleared(Expired(base), i)
    OBVIOUS
  <2>0. /\ IncidentsTypeOK /\ ViewInv /\ SweepInv /\ base \in Bases /\ instant \in Nat
        /\ base.incident[i].subject \in Subject /\ base.incident[i].closed = 0
    BY TypeFacts, BaseFacts DEF IncidentsInv, IsOpen
  <2>1. base'.incident[i] # base.incident[i]
    BY <2>0
  <2>2. CASE \E w \in Server : CommitBatch(w)
    <3>1. base' = txn
      BY <2>2 DEF CommitBatch, CommitsAs
    <3> QED BY <2>0, <3>1 DEF ViewInv, IsOpen
  <2>3. CASE \E w \in Server : Maintain(w)
    <3> DEFINE swept == Expired(base)
               ids   == {j \in Id : MayClose(swept, j)}
    <3>1. base' = Closed(swept, ids)
      BY <2>3 DEF Maintain, CommitsAs
    <3>2. swept \in Bases /\ swept.incident = base.incident
      BY <2>0, ExpiredFacts
    <3>3. i \in ids
      <4> HIDE DEF swept, ids
      <4> QED BY <2>0, <2>1, <3>1, <3>2, ClosedFacts
    <3>4. MayClose(swept, i)
      BY <3>3
    <3> QED BY <3>2, <3>4 DEF MayClose, Silent
  <2>4. CASE SweepStates
    <3>1. base' = Expired(base)
      BY <2>4 DEF SweepStates, CommitsAs
    <3> QED BY <2>0, <2>1, <3>1, ExpiredFacts
  <2>5. CASE SweepClose
    <3> DEFINE ids == {j \in {sweep.chosen} : IsOpen(base, j)}
    <3>1. base' = Closed(base, ids) /\ sweep.chosen # 0
      BY <2>5 DEF SweepClose, CommitsAs
    <3>2. i \in ids
      <4> HIDE DEF ids
      <4> QED BY <2>0, <2>1, <3>1, ClosedFacts
    <3>3. i = sweep.chosen /\ Silent(base, i) /\ Cleared(base, i)
      BY <2>0, <3>1, <3>2 DEF SweepInv
    <3>4. /\ Expired(base).incident = base.incident
          /\ \A s \in Subject : base.state[s].level = "normal" => Expired(base).state[s].level = "normal"
      BY <2>0, ExpiredFacts
    <3> QED BY <2>0, <3>3, <3>4 DEF Cleared
  <2>6. CASE \E j \in Id : CloseByHand(j)
    <3>1. PICK j \in Id : CloseByHand(j)
      BY <2>6
    <3>2. base' = Closed(base, {j}) /\ j # i
      BY <3>1, SMTT(30) DEF CloseByHand, CommitsAs
    <3> QED BY <2>0, <2>1, <3>2, ClosedFacts
  <2>7. CASE base' = base
    BY <2>1, <2>7
  <2>8. \/ \E w \in Server : CommitBatch(w) \/ Maintain(w)
        \/ SweepStates \/ SweepClose \/ \E j \in Id : CloseByHand(j)
        \/ base' = base
    BY DEF IncidentsNext, Thread, Operator, TakeBatch, RunFlush, Look, RecordIncident, UndoBatch, ServerDies, Observe,
           SweepList, SweepLook, SweepEnds, InstantPasses
  <2> QED BY <2>2, <2>3, <2>4, <2>5, <2>6, <2>7, <2>8
<1>2. IncidentsSpec => [][Quiet]_incidentsVars
  BY <1>1, IncidentsInvariance, PTL DEF IncidentsSpec
<1> QED BY <1>2 DEF ClosedWhenQuiet
=============================================================================
