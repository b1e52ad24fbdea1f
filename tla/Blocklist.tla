------------------------------ MODULE Blocklist ------------------------------
(***************************************************************************)
(* The blocklist file and the processes that write it: the workers (their  *)
(* automatic bans), the operators' tools and RIPOSTE.  A write locks       *)
(* blocklist.json.lock, reads the file, replaces it and unlocks; when the  *)
(* lock cannot be opened, or is held for more than a second, it goes on    *)
(* without the lock.  A read goes through a cache kept by the modification *)
(* time of the file.                                                       *)
(*                                                                         *)
(* A list gives each network its entry: a file written by the program has  *)
(* at most one per network.  The modification time of the file is the tick *)
(* of its last write, 0 when the file does not exist.                      *)
(***************************************************************************)
EXTENDS Naturals, FiniteSets

CONSTANTS
    Network,
    Workers,       \* server processes: automatic bans
    Operators,     \* the CLI and the terminal interface
    Ripostes,      \* the RIPOSTE process, or none
    Nobody,        \* no holder of the lock
    AutoMax,       \* reputation.auto_block_max_entries
    AutoTime,      \* reputation.auto_block_duration_seconds
    RiposteTime,   \* duration of the bans of RIPOSTE
    ManualTimes,   \* durations the operators give, when they do not ban for good
    Kept,          \* the lists that the file may hold when the processes start
    MaxClock,      \* bound: the last tick; the processes start at the second one
    MaxWrites,     \* bound: writes begun
    MaxListFaults  \* bound: timeouts, unreadable file, failed saves, deaths

Writers == Workers \cup Operators \cup Ripostes

ASSUME BlocklistAssumption ==
    /\ Nobody \notin Writers /\ Nobody \notin Network
    /\ IsFiniteSet(Network) /\ IsFiniteSet(Workers) /\ Workers # {}
    /\ {AutoMax, AutoTime, RiposteTime, MaxClock, MaxWrites, MaxListFaults} \subseteq Nat /\ MaxClock > 0
    /\ ManualTimes \subseteq 0..MaxClock

VARIABLES
    clock,
    file, mtime,   \* the list in the file and its modification time
    readable,      \* the file can be read (its mode and owner)
    lock,          \* holder of the lock file
    step,          \* where each writer is
    op,            \* the operation it runs
    locked,        \* it holds the lock
    stat,          \* the modification time its current load saw
    list,          \* the list it works on
    cache, cacheTime,
    \* history variables and bounds
    disturbed,     \* somebody wrote without the lock since it loaded its list
    guess,         \* its list is its cache: the file could not be read
    coarse,        \* two writes have had the same modification time
    unlocked,      \* a write was made without the lock
    hidden,        \* the file has been unreadable
    writes, listFaults

listVars == <<clock, file, mtime, readable, lock, step, op, locked, stat, list, cache, cacheTime,
              disturbed, guess, coarse, unlocked, hidden, writes, listFaults>>

Permanent == 2 * MaxClock + AutoTime + RiposteTime + 2
NoBan     == [source |-> "none", until |-> 0]
NoBans    == [n \in Network |-> NoBan]
Bans      == [source : {"none", "auto", "manual", "riposte"}, until : 0..Permanent]
Lists     == [Network -> Bans]
Ops       == [kind : {"none", "add", "add_unless_stronger", "remove", "remove_if"},
              network : Network \cup {Nobody}, ban : Bans]
NoOp      == [kind |-> "none", network |-> Nobody, ban |-> NoBan]

InForceAt(ban, t) == ban.source # "none" /\ t < ban.until

\* is_stronger_entry, for a candidate that ends one day.
StrongerBan(ban, candidate, t) ==
    /\ InForceAt(ban, t)
    /\ ban.source = "manual" \/ ban.until = Permanent \/ ban.until >= candidate.until

Automatic(o) == o.kind \in {"add_unless_stronger", "remove_if"}

\* Mutant of Changes: RIPOSTE lifts whatever ban the network has.
ChangesWhatever(l, o, t) ==
    \/ o.kind = "add"
    \/ o.kind = "add_unless_stronger" /\ ~StrongerBan(l[o.network], o.ban, t)
    \/ o.kind \in {"remove", "remove_if"} /\ l[o.network] # NoBan

\* Whether the operation changes the list, and the list it makes.
Changes(l, o, t) ==
    \/ o.kind = "add"
    \/ o.kind = "add_unless_stronger" /\ ~StrongerBan(l[o.network], o.ban, t)
    \/ o.kind = "remove" /\ l[o.network] # NoBan
    \/ o.kind = "remove_if" /\ l[o.network].source = "riposte"

Apply(l, o) == [l EXCEPT ![o.network] = o.ban]

AutoCount(l) == Cardinality({n \in Network : l[n].source = "auto"})

ASSUME KeptAssumption == Kept \subseteq {l \in Lists : AutoCount(l) <= AutoMax}

BlocklistInit ==
    /\ clock = 2
    /\ file \in Kept /\ mtime = (IF file = NoBans THEN 0 ELSE 1) /\ readable = TRUE
    /\ lock = Nobody
    /\ step = [p \in Writers |-> "idle"]
    /\ op = [p \in Writers |-> NoOp]
    /\ locked = [p \in Writers |-> FALSE]
    /\ stat = [p \in Writers |-> 0]
    /\ list = [p \in Writers |-> NoBans]
    /\ cache = [p \in Writers |-> NoBans] /\ cacheTime = [p \in Writers |-> 0]
    /\ disturbed = [p \in Writers |-> FALSE] /\ guess = [p \in Writers |-> FALSE]
    /\ coarse = FALSE /\ unlocked = FALSE /\ hidden = FALSE
    /\ writes = 0 /\ listFaults = 0

Goes(p, from, to) == step[p] = from /\ step' = [step EXCEPT ![p] = to]
Fault == listFaults < MaxListFaults /\ listFaults' = listFaults + 1

(***************************************************************************)
(* Reads.  _load looks at the modification time, then reads the file when  *)
(* its cache is of another time.  A file that does not exist empties the   *)
(* cache; one that cannot be read leaves the last list.                    *)
(***************************************************************************)
LookToCount(p) ==
    /\ p \in Workers
    /\ Goes(p, "idle", "counting")
    /\ stat' = [stat EXCEPT ![p] = mtime]
    /\ IF mtime = 0
       THEN cache' = [cache EXCEPT ![p] = NoBans] /\ cacheTime' = [cacheTime EXCEPT ![p] = 0]
       ELSE UNCHANGED <<cache, cacheTime>>
    /\ UNCHANGED <<clock, file, mtime, readable, lock, op, locked, list, disturbed, guess, coarse,
                   unlocked, hidden, writes, listFaults>>

Cached(p) == stat[p] # 0 /\ cacheTime[p] = stat[p]

\* The list a read returns, and what it leaves in the cache.
ReadCache(p) == IF stat[p] = 0 \/ Cached(p) \/ ~readable THEN cache[p] ELSE file
ReadTime(p)  == IF stat[p] = 0 \/ Cached(p) \/ ~readable THEN cacheTime[p] ELSE stat[p]

\* Mutant of BelowLimit: a full list still takes one ban.
BelowLimitOrAt(p) == AutoCount(ReadCache(p)) <= AutoMax

BelowLimit(p) == AutoCount(ReadCache(p)) < AutoMax

\* count_auto_entries, then the automatic ban of an address or nothing.
CountAuto(p) ==
    /\ step[p] = "counting"
    /\ cache' = [cache EXCEPT ![p] = ReadCache(p)]
    /\ cacheTime' = [cacheTime EXCEPT ![p] = ReadTime(p)]
    /\ \/ /\ BelowLimit(p) /\ writes < MaxWrites /\ writes' = writes + 1
          /\ \E n \in Network : op' = [op EXCEPT ![p] =
                [kind |-> "add_unless_stronger", network |-> n,
                 ban |-> [source |-> "auto", until |-> clock + AutoTime]]]
          /\ step' = [step EXCEPT ![p] = "locking"]
       \/ step' = [step EXCEPT ![p] = "idle"] /\ UNCHANGED <<op, writes>>
    /\ stat' = [stat EXCEPT ![p] = 0]
    /\ UNCHANGED <<clock, file, mtime, readable, lock, locked, list, disturbed, guess, coarse,
                   unlocked, hidden, listFaults>>

(***************************************************************************)
(* Writes of the operators and of RIPOSTE.                                 *)
(***************************************************************************)
Asked(p) ==
    \/ /\ p \in Operators
       /\ \E n \in Network : \/ \E t \in {clock + d : d \in ManualTimes} \cup {Permanent} :
                                   op' = [op EXCEPT ![p] = [kind |-> "add", network |-> n,
                                           ban |-> [source |-> "manual", until |-> t]]]
                             \/ op' = [op EXCEPT ![p] = [kind |-> "remove", network |-> n, ban |-> NoBan]]
    \/ /\ p \in Ripostes
       /\ \E n \in Network : \/ op' = [op EXCEPT ![p] = [kind |-> "add_unless_stronger", network |-> n,
                                        ban |-> [source |-> "riposte", until |-> clock + RiposteTime]]]
                             \/ op' = [op EXCEPT ![p] = [kind |-> "remove_if", network |-> n, ban |-> NoBan]]

BeginWrite(p) ==
    /\ Goes(p, "idle", "locking")
    /\ writes < MaxWrites /\ writes' = writes + 1
    /\ Asked(p)
    /\ UNCHANGED <<clock, file, mtime, readable, lock, locked, stat, list, cache, cacheTime,
                   disturbed, guess, coarse, unlocked, hidden, listFaults>>

(***************************************************************************)
(* exclusive_file_lock.  The descriptor of a process that dies is closed,  *)
(* which frees the lock.                                                   *)
(***************************************************************************)
\* Mutant of Acquire: the lock is not exclusive.
AcquireShared(p) ==
    /\ Goes(p, "locking", "loading")
    /\ lock' = p /\ locked' = [locked EXCEPT ![p] = TRUE]
    /\ UNCHANGED <<clock, file, mtime, readable, op, stat, list, cache, cacheTime, disturbed, guess,
                   coarse, unlocked, hidden, writes, listFaults>>

Acquire(p) ==
    /\ Goes(p, "locking", "loading")
    /\ lock = Nobody /\ lock' = p
    /\ locked' = [locked EXCEPT ![p] = TRUE]
    /\ UNCHANGED <<clock, file, mtime, readable, op, stat, list, cache, cacheTime, disturbed, guess,
                   coarse, unlocked, hidden, writes, listFaults>>

\* The lock file cannot be opened, or the lock was held for the whole delay.
GoWithoutLock(p) ==
    /\ Goes(p, "locking", "loading")
    /\ Fault
    /\ UNCHANGED <<clock, file, mtime, readable, lock, op, locked, stat, list, cache, cacheTime,
                   disturbed, guess, coarse, unlocked, hidden, writes>>

Unlocks(p) ==
    /\ lock' = IF locked[p] THEN Nobody ELSE lock
    /\ locked' = [locked EXCEPT ![p] = FALSE]

Forgets(p) ==
    /\ op' = [op EXCEPT ![p] = NoOp]
    /\ list' = [list EXCEPT ![p] = NoBans]
    /\ stat' = [stat EXCEPT ![p] = 0]
    /\ guess' = [guess EXCEPT ![p] = FALSE]

(***************************************************************************)
(* The load of a write reads the file whatever its cache says; a file that *)
(* cannot be read is worth the cache of the same modification time, and    *)
(* without one the write is refused.                                       *)
(***************************************************************************)
LookToWrite(p) ==
    /\ Goes(p, "loading", "looked")
    /\ stat' = [stat EXCEPT ![p] = mtime]
    /\ disturbed' = [disturbed EXCEPT ![p] = FALSE]
    /\ UNCHANGED <<clock, file, mtime, readable, lock, op, locked, list, cache, cacheTime, guess,
                   coarse, unlocked, hidden, writes, listFaults>>

LoadToWrite(p) ==
    /\ Goes(p, "looked", "loaded")
    /\ \/ /\ stat[p] = 0
          /\ list' = [list EXCEPT ![p] = NoBans]
          /\ cache' = [cache EXCEPT ![p] = NoBans] /\ cacheTime' = [cacheTime EXCEPT ![p] = 0]
          /\ UNCHANGED guess
       \/ /\ stat[p] # 0 /\ readable
          /\ list' = [list EXCEPT ![p] = file]
          /\ cache' = [cache EXCEPT ![p] = file] /\ cacheTime' = [cacheTime EXCEPT ![p] = stat[p]]
          /\ UNCHANGED guess
       \/ /\ ~readable /\ Cached(p)
          /\ list' = [list EXCEPT ![p] = cache[p]]
          /\ guess' = [guess EXCEPT ![p] = TRUE]
          /\ UNCHANGED <<cache, cacheTime>>
    /\ UNCHANGED <<clock, file, mtime, readable, lock, op, locked, stat, disturbed, coarse, unlocked, hidden,
                   writes, listFaults>>

\* BlocklistUnreadableError: nothing is written.
Unreadable(p) ==
    /\ Goes(p, "looked", "idle")
    /\ stat[p] # 0 /\ ~readable /\ ~Cached(p)
    /\ Unlocks(p) /\ Forgets(p)
    /\ UNCHANGED <<clock, file, mtime, readable, cache, cacheTime, disturbed, coarse, unlocked, hidden,
                   writes, listFaults>>

NothingToWrite(p) ==
    /\ Goes(p, "loaded", "idle")
    /\ ~Changes(list[p], op[p], clock)
    /\ Unlocks(p) /\ Forgets(p)
    /\ UNCHANGED <<clock, file, mtime, readable, cache, cacheTime, disturbed, coarse, unlocked, hidden,
                   writes, listFaults>>

(***************************************************************************)
(* _save replaces the file, then keeps the list it wrote as its cache,     *)
(* with the modification time it reads back.                               *)
(***************************************************************************)
\* Mutant of Replace: the cache keeps the list of before the write.
ReplaceUncached(p) ==
    /\ Goes(p, "loaded", "replaced")
    /\ Changes(list[p], op[p], clock)
    /\ file' = Apply(list[p], op[p]) /\ mtime' = clock /\ readable' = TRUE
    /\ coarse' = (coarse \/ mtime = clock)
    /\ unlocked' = (unlocked \/ ~locked[p])
    /\ disturbed' = IF locked[p] THEN disturbed ELSE [q \in Writers |-> TRUE]
    /\ UNCHANGED <<clock, lock, op, locked, stat, list, cache, cacheTime, guess, hidden, writes, listFaults>>

Replace(p) ==
    /\ Goes(p, "loaded", "replaced")
    /\ Changes(list[p], op[p], clock)
    /\ file' = Apply(list[p], op[p]) /\ mtime' = clock /\ readable' = TRUE
    /\ cache' = [cache EXCEPT ![p] = Apply(list[p], op[p])]
    /\ coarse' = (coarse \/ mtime = clock)
    /\ unlocked' = (unlocked \/ ~locked[p])
    /\ disturbed' = IF locked[p] THEN disturbed ELSE [q \in Writers |-> TRUE]
    /\ UNCHANGED <<clock, lock, op, locked, stat, list, cacheTime, guess, hidden, writes, listFaults>>

KeepTime(p) ==
    /\ Goes(p, "replaced", "idle")
    /\ cacheTime' = [cacheTime EXCEPT ![p] = mtime]
    /\ Unlocks(p) /\ Forgets(p)
    /\ UNCHANGED <<clock, file, mtime, readable, cache, disturbed, coarse, unlocked, hidden, writes, listFaults>>

\* The temporary file cannot be written: the list in the file stays.
SaveFails(p) ==
    /\ Goes(p, "loaded", "idle")
    /\ Changes(list[p], op[p], clock)
    /\ Fault
    /\ Unlocks(p) /\ Forgets(p)
    /\ UNCHANGED <<clock, file, mtime, readable, cache, cacheTime, disturbed, coarse, unlocked, hidden, writes>>

(***************************************************************************)
(* The world: time, the rights of the file, the death of a process.        *)
(***************************************************************************)
ListTick ==
    /\ clock < MaxClock /\ clock' = clock + 1
    /\ UNCHANGED <<file, mtime, readable, lock, step, op, locked, stat, list, cache, cacheTime,
                   disturbed, guess, coarse, unlocked, hidden, writes, listFaults>>

LoseRights ==
    /\ mtime # 0 /\ readable /\ readable' = FALSE /\ hidden' = TRUE
    /\ Fault
    /\ UNCHANGED <<clock, file, mtime, lock, step, op, locked, stat, list, cache, cacheTime,
                   disturbed, guess, coarse, unlocked, writes>>

RegainRights ==
    /\ ~readable /\ readable' = TRUE
    /\ UNCHANGED <<clock, file, mtime, lock, step, op, locked, stat, list, cache, cacheTime,
                   disturbed, guess, coarse, unlocked, hidden, writes, listFaults>>

WriterDies(p) ==
    /\ step[p] # "idle" /\ step' = [step EXCEPT ![p] = "idle"]
    /\ Fault
    /\ Unlocks(p) /\ Forgets(p)
    /\ cache' = [cache EXCEPT ![p] = NoBans] /\ cacheTime' = [cacheTime EXCEPT ![p] = 0]
    /\ UNCHANGED <<clock, file, mtime, readable, disturbed, coarse, unlocked, hidden, writes>>

Writing(p) ==
    \/ LookToCount(p) \/ CountAuto(p) \/ BeginWrite(p)
    \/ Acquire(p) \/ GoWithoutLock(p)
    \/ LookToWrite(p) \/ LoadToWrite(p) \/ Unreadable(p) \/ NothingToWrite(p)
    \/ Replace(p) \/ KeepTime(p) \/ SaveFails(p)
    \/ WriterDies(p)

BlocklistNext == (\E p \in Writers : Writing(p)) \/ ListTick \/ LoseRights \/ RegainRights

BlocklistSpec == BlocklistInit /\ [][BlocklistNext]_listVars

-----------------------------------------------------------------------------
BlocklistTypeOK ==
    /\ clock \in 1..(MaxClock + 1) /\ mtime \in 0..clock
    /\ file \in Lists /\ readable \in BOOLEAN
    /\ lock \in Writers \cup {Nobody}
    /\ step \in [Writers -> {"idle", "counting", "locking", "loading", "looked", "loaded", "replaced"}]
    /\ op \in [Writers -> Ops]
    /\ locked \in [Writers -> BOOLEAN]
    /\ stat \in [Writers -> 0..clock]
    /\ list \in [Writers -> Lists]
    /\ cache \in [Writers -> Lists] /\ cacheTime \in [Writers -> 0..clock]
    /\ disturbed \in [Writers -> BOOLEAN] /\ guess \in [Writers -> BOOLEAN]
    /\ coarse \in BOOLEAN /\ unlocked \in BOOLEAN /\ hidden \in BOOLEAN
    /\ writes \in 0..MaxWrites /\ listFaults \in 0..MaxListFaults

\* The writer may rely on its list: it holds the lock, nobody wrote without it since the load, and
\* the list is not a cache of a modification time that two writes have shared.
Reliable(p) == locked[p] /\ ~disturbed[p] /\ ~(guess[p] /\ (coarse \/ unlocked))

\* A writer that may rely on its list is about to change exactly what the file holds: no ban written
\* by another process in between is lost, whatever timeouts and deaths came before.
ListIsCurrent == \A p \in Writers : step[p] = "loaded" /\ Reliable(p) => list[p] = file

\* The entry of a network changes only by an operation on that network, and a manual ban in force is
\* never replaced or removed by an automatic one, unless a writer went on without the lock.
ManualBanStands ==
    [][\A n \in Network : file'[n] # file[n] =>
          \E p \in Writers :
              /\ step[p] = "loaded"
              /\ Reliable(p) =>
                    /\ op[p].network = n
                    /\ Automatic(op[p]) => ~(file[n].source = "manual" /\ InForceAt(file[n], clock))]_listVars

\* The limit of automatic bans is read before the lock is taken: it can be exceeded, by one ban per
\* other worker and no more, as long as the file can be read and nobody writes without the lock.
AutoBansBounded == ~unlocked /\ ~hidden => AutoCount(file) <= AutoMax + Cardinality(Workers) - 1

\* A cache of the modification time of the file is what the file holds, unless two writes shared a
\* modification time or a writer went on without the lock.
CacheIsTheFile ==
    \A p \in Writers :
        /\ cacheTime[p] = mtime /\ step[p] # "replaced" /\ ~coarse /\ ~unlocked
        => cache[p] = file

\* Neither a list about to be written nor a cached one that is used is older than the file.
ListsAreCurrent == ListIsCurrent /\ CacheIsTheFile
=============================================================================
