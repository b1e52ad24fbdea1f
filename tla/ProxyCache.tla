------------------------------ MODULE ProxyCache ------------------------------
(***************************************************************************)
(* The cache of proxied responses: one directory on disk, shared by the    *)
(* workers and by the terminal interface, with in each worker an index of  *)
(* the files it knows, used for the eviction, and one lock per resource    *)
(* that keeps concurrent requests from fetching it together.               *)
(*                                                                         *)
(* A worker runs one request at a time between two awaits, and a store is  *)
(* synchronous: while a request fills its file, the others of its worker   *)
(* wait, the other processes do not.  A file is opened (created or cut to  *)
(* nothing), then written at once.                                         *)
(***************************************************************************)
EXTENDS Naturals, FiniteSets

LOCAL INSTANCE Functions

CONSTANTS
    Worker,
    Task,        \* the handlers of requests
    Resource,    \* primary keys of one zone
    Variant,     \* values of the headers of Vary
    NoTask,      \* no holder of a lock
    Sizes,       \* sizes of an encoded entry
    MaxSize,     \* cache_max_size_mb
    MaxArrivals, \* bound: requests
    MaxCacheFaults \* bound: failed writes, restarts, removals

CacheFile == Resource \X Variant

ASSUME CacheAssumption ==
    /\ Sizes \subseteq Nat \ {0} /\ Sizes # {}
    /\ MaxSize \in Nat /\ MaxArrivals \in Nat /\ MaxCacheFaults \in Nat
    /\ NoTask \notin Task /\ NoTask \notin Worker
    /\ Worker # {} /\ CacheFile # {}

VARIABLES
    disk,      \* what each path holds: its state ("none", "fresh", "expired", "torn") and size
    index,     \* of each worker: the size of each entry it knows
    older,     \* of each worker: the pairs of entries of which the first was used before the second
    keyLock,   \* of each worker and resource: the handler that holds the lock
    doing,     \* of each handler: where it is
    home,      \* its worker
    wants,     \* the file that would answer it
    linked,    \* the file it has open is still the one at that path
    \* history variables and bounds
    fetches,   \* of each worker and file: fetches begun
    losses,    \* of each file: times a fresh entry expired, was cut, removed or never stored
    overlapped,\* files that two processes have had open together
    arrivals, cacheFaults

cacheVars == <<disk, index, older, keyLock, doing, home, wants, linked, fetches, losses, overlapped,
               arrivals, cacheFaults>>

NoFile == [state |-> "none", size |-> 0]

\* An index entry is named by the prefix of the zone when a request stored it, by the name of the
\* directory when it was found there at the start of the worker: one file can have both.
Named == [name : {"zone", "directory"}, file : CacheFile]
ZoneEntry(f) == [name |-> "zone", file |-> f]

AnyWorker == CHOOSE w \in Worker : TRUE
AnyFile == CHOOSE f \in CacheFile : TRUE

CacheInit ==
    /\ disk = [f \in CacheFile |-> NoFile]
    /\ index = [w \in Worker |-> << >>] /\ older = [w \in Worker |-> {}]
    /\ keyLock = [w \in Worker |-> [r \in Resource |-> NoTask]]
    /\ doing = [t \in Task |-> "idle"]
    /\ home = [t \in Task |-> AnyWorker] /\ wants = [t \in Task |-> AnyFile]
    /\ linked = [t \in Task |-> FALSE]
    /\ fetches = [w \in Worker |-> [f \in CacheFile |-> 0]]
    /\ losses = [f \in CacheFile |-> 0]
    /\ overlapped = {}
    /\ arrivals = 0 /\ cacheFaults = 0

(***************************************************************************)
(* Lookups: every variant of the resource is read and decoded, and those   *)
(* that the index knows by the prefix of the zone become the most recent   *)
(* ones.  One that cannot be decoded fails the request.                    *)
(***************************************************************************)
Variants(r)  == {f \in CacheFile : f[1] = r /\ disk[f].state # "none"}
Torn(r)      == \E f \in Variants(r) : disk[f].state = "torn"
Hit(f)       == disk[f].state = "fresh"

\* The order of some entries when these ones have just been used, together.
Used(order, entries, used) ==
    {pair \in order : pair[1] \notin used /\ pair[2] \notin used} \cup ((entries \ used) \X used)

Touched(w, files) ==
    LET used == {k \in DOMAIN index[w] : k.name = "zone" /\ k.file \in files}
    IN [older EXCEPT ![w] = Used(@, DOMAIN index[w], used)]

\* What a lookup does to the order of the entries: a torn one stops it on its way.
LookedUp(w, r) ==
    IF Torn(r) THEN {Touched(w, files) : files \in SUBSET Variants(r)} ELSE {Touched(w, Variants(r))}

\* The worker is not in the middle of a store.
Free(w) == \A t \in Task : doing[t] = "filling" => home[t] # w

\* serve_proxy up to the lock: served from the cache, failed by a torn entry, or waiting.
Arrive(t) ==
    /\ doing[t] = "idle" /\ arrivals < MaxArrivals /\ arrivals' = arrivals + 1
    /\ \E w \in Worker, f \in CacheFile :
          /\ Free(w)
          /\ older' \in LookedUp(w, f[1])
          /\ IF Torn(f[1]) \/ Hit(f) THEN UNCHANGED <<doing, home, wants>>
             ELSE /\ doing' = [doing EXCEPT ![t] = "waiting"]
                  /\ home' = [home EXCEPT ![t] = w] /\ wants' = [wants EXCEPT ![t] = f]
    /\ UNCHANGED <<disk, index, keyLock, linked, fetches, losses, overlapped, cacheFaults>>

Ends(tasks) ==
    /\ doing' = [t \in Task |-> IF t \in tasks THEN "idle" ELSE doing[t]]
    /\ home' = [t \in Task |-> IF t \in tasks THEN AnyWorker ELSE home[t]]
    /\ wants' = [t \in Task |-> IF t \in tasks THEN AnyFile ELSE wants[t]]

\* The task is cancelled while it waits for the lock.
GiveUp(t) ==
    /\ doing[t] = "waiting" /\ Free(home[t])
    /\ Ends({t})
    /\ UNCHANGED <<disk, index, older, keyLock, linked, fetches, losses, overlapped, arrivals, cacheFaults>>

Holder(t) == keyLock[home[t]][wants[t][1]]
SetLock(t, who) == keyLock' = [keyLock EXCEPT ![home[t]][wants[t][1]] = who]

\* Mutant of EnterLock: no second lookup under the lock.
EnterBlindly(t) ==
    /\ doing[t] = "waiting" /\ Holder(t) = NoTask /\ Free(home[t])
    /\ doing' = [doing EXCEPT ![t] = "fetching"] /\ SetLock(t, t)
    /\ fetches' = [fetches EXCEPT ![home[t]][wants[t]] = @ + 1]
    /\ UNCHANGED <<disk, index, older, home, wants, linked, losses, overlapped, arrivals, cacheFaults>>

\* The lock is free: a second lookup, then the fetch if it still finds nothing.
EnterLock(t) ==
    /\ doing[t] = "waiting" /\ Holder(t) = NoTask /\ Free(home[t])
    /\ older' \in LookedUp(home[t], wants[t][1])
    /\ IF Torn(wants[t][1]) \/ Hit(wants[t])
       THEN Ends({t}) /\ UNCHANGED <<keyLock, fetches>>
       ELSE /\ doing' = [doing EXCEPT ![t] = "fetching"] /\ SetLock(t, t)
            /\ fetches' = [fetches EXCEPT ![home[t]][wants[t]] = @ + 1]
            /\ UNCHANGED <<home, wants>>
    /\ UNCHANGED <<disk, index, linked, losses, overlapped, arrivals, cacheFaults>>

Lose(files) == losses' = [f \in CacheFile |-> losses[f] + IF f \in files THEN 1 ELSE 0]

\* The answer may not be kept (an error, Set-Cookie, no-store), or there is none.
NotKept(t) ==
    /\ doing[t] = "fetching" /\ Free(home[t])
    /\ Ends({t}) /\ SetLock(t, NoTask)
    /\ Lose({wants[t]})
    /\ UNCHANGED <<disk, index, older, linked, fetches, overlapped, arrivals, cacheFaults>>

Opened(f) == {t \in Task : doing[t] = "filling" /\ linked[t] /\ wants[t] = f}

\* Mutant of Open: the file is not cut.
OpenUncut(t) ==
    /\ doing[t] = "fetching" /\ Free(home[t])
    /\ doing' = [doing EXCEPT ![t] = "filling"] /\ linked' = [linked EXCEPT ![t] = TRUE]
    /\ disk' = [disk EXCEPT ![wants[t]] = [state |-> "torn", size |-> @.size]]
    /\ overlapped' = IF Opened(wants[t]) # {} THEN overlapped \cup {wants[t]} ELSE overlapped
    /\ UNCHANGED <<index, older, keyLock, home, wants, fetches, losses, arrivals, cacheFaults>>

\* write_bytes opens the file of the variant: created, or cut to nothing.
Open(t) ==
    /\ doing[t] = "fetching" /\ Free(home[t])
    /\ doing' = [doing EXCEPT ![t] = "filling"] /\ linked' = [linked EXCEPT ![t] = TRUE]
    /\ disk' = [disk EXCEPT ![wants[t]] = [state |-> "torn", size |-> 0]]
    /\ Lose({f \in {wants[t]} : Hit(f)})
    /\ overlapped' = IF Opened(wants[t]) # {} THEN overlapped \cup {wants[t]} ELSE overlapped
    /\ UNCHANGED <<index, older, keyLock, home, wants, fetches, arrivals, cacheFaults>>

(***************************************************************************)
(* _evict_if_needed removes the files of the least recently used entries,  *)
(* one by one, until the total of the index is at most the maximum.  Of    *)
(* entries used together any may be removed first (the code takes them in  *)
(* the order of their insertion, those of the disk in that of their times).*)
(***************************************************************************)
Oldest(order, out) == \A pair \in order : pair[2] \in out => pair[1] \in out

Without(entries, out) == [k \in DOMAIN entries \ out |-> entries[k]]
TooMuch(entries) == SumFunction(entries) > MaxSize

Evictions(entries, order) ==
    {out \in SUBSET DOMAIN entries :
        /\ Oldest(order, out) /\ ~TooMuch(Without(entries, out))
        /\ out # {} =>
              \E last \in out : Oldest(order, out \ {last}) /\ TooMuch(Without(entries, out \ {last}))}

Stored(f, entries, size) ==
    [k \in DOMAIN entries \cup {ZoneEntry(f)} |-> IF k = ZoneEntry(f) THEN size ELSE entries[k]]

\* A file as a write of this size leaves it: a longer content keeps its end.
Written(file, size) ==
    IF file.size > size THEN [state |-> "torn", size |-> file.size] ELSE [state |-> "fresh", size |-> size]

Removed(content, files) == [f \in CacheFile |-> IF f \in files THEN NoFile ELSE content[f]]
Unlinked(files) == [t \in Task |-> linked[t] /\ wants[t] \notin files]

\* The content is written, the index updated, the excess evicted and the lock released.
Fill(t) ==
    /\ doing[t] = "filling"
    /\ \E size \in Sizes :
          LET entries == Stored(wants[t], index[home[t]], size)
              order   == Used(older[home[t]], DOMAIN entries, {ZoneEntry(wants[t])})
              content == IF linked[t] THEN [disk EXCEPT ![wants[t]] = Written(@, size)] ELSE disk IN
          \E out \in Evictions(entries, order) :
              LET files == {k.file : k \in out} IN
              /\ index' = [index EXCEPT ![home[t]] = Without(entries, out)]
              /\ older' = [older EXCEPT ![home[t]] = {pair \in order : pair[1] \notin out /\ pair[2] \notin out}]
              /\ disk' = Removed(content, files)
              /\ linked' = [Unlinked(files) EXCEPT ![t] = FALSE]
              /\ Lose({f \in files : content[f].state \in {"fresh", "torn"}}
                        \cup (IF linked[t] THEN {} ELSE {wants[t]}))
    /\ Ends({t}) /\ SetLock(t, NoTask)
    /\ UNCHANGED <<fetches, overlapped, arrivals, cacheFaults>>

CacheFault == cacheFaults < MaxCacheFaults /\ cacheFaults' = cacheFaults + 1

\* The disk is full: the request fails and the file stays as it is.
FillFails(t) ==
    /\ doing[t] = "filling"
    /\ CacheFault
    /\ Ends({t}) /\ SetLock(t, NoTask)
    /\ linked' = [linked EXCEPT ![t] = FALSE]
    /\ Lose({wants[t]})
    /\ UNCHANGED <<disk, index, older, fetches, overlapped, arrivals>>

(***************************************************************************)
(* The world: time, the purge by the terminal interface (file by file),    *)
(* the death of a worker and its restart.                                  *)
(***************************************************************************)
Expire(f) ==
    /\ disk[f].state = "fresh" /\ disk' = [disk EXCEPT ![f].state = "expired"]
    /\ Lose({f})
    /\ UNCHANGED <<index, older, keyLock, doing, home, wants, linked, fetches, overlapped, arrivals, cacheFaults>>

Purge(f) ==
    /\ disk[f].state # "none" /\ disk' = Removed(disk, {f})
    /\ CacheFault
    /\ linked' = Unlinked({f})
    /\ Lose({f})
    /\ UNCHANGED <<index, older, keyLock, doing, home, wants, fetches, overlapped, arrivals>>

Present == {f \in CacheFile : disk[f].state # "none"}

\* Mutant of Rebuilt: the index starts empty.
RebuiltEmpty == << >>

\* _rebuild_index lists the files of the disk; the order of their times is left open.
Rebuilt == [k \in {[name |-> "directory", file |-> f] : f \in Present} |-> disk[k.file].size]

RestartWorker(w) ==
    /\ CacheFault
    /\ index' = [index EXCEPT ![w] = Rebuilt] /\ older' = [older EXCEPT ![w] = {}]
    /\ keyLock' = [keyLock EXCEPT ![w] = [r \in Resource |-> NoTask]]
    /\ Ends({t \in Task : home[t] = w})
    /\ linked' = [t \in Task |-> linked[t] /\ home[t] # w]
    /\ Lose({wants[t] : t \in {u \in Task : home[u] = w /\ doing[u] \in {"fetching", "filling"}}})
    /\ UNCHANGED <<disk, fetches, overlapped, arrivals>>

CacheNext ==
    \/ \E t \in Task : \/ Arrive(t) \/ GiveUp(t) \/ EnterLock(t) \/ NotKept(t)
                       \/ Open(t) \/ Fill(t) \/ FillFails(t)
    \/ \E f \in CacheFile : Expire(f) \/ Purge(f)
    \/ \E w \in Worker : RestartWorker(w)

CacheSpec == CacheInit /\ [][CacheNext]_cacheVars

-----------------------------------------------------------------------------
Indexes == UNION {[entries -> Sizes \cup {0}] : entries \in SUBSET Named}

CacheTypeOK ==
    /\ disk \in [CacheFile -> [state : {"none", "fresh", "expired", "torn"}, size : Sizes \cup {0}]]
    /\ index \in [Worker -> Indexes]
    /\ older \in [Worker -> SUBSET (Named \X Named)]
    /\ keyLock \in [Worker -> [Resource -> Task \cup {NoTask}]]
    /\ doing \in [Task -> {"idle", "waiting", "fetching", "filling"}]
    /\ home \in [Task -> Worker] /\ wants \in [Task -> CacheFile]
    /\ linked \in [Task -> BOOLEAN]
    /\ fetches \in [Worker -> [CacheFile -> Nat]] /\ losses \in [CacheFile -> Nat]
    /\ overlapped \subseteq CacheFile
    /\ arrivals \in 0..MaxArrivals /\ cacheFaults \in 0..MaxCacheFaults

\* However many requests of a worker want a resource together, the worker fetches it once, and once
\* more each time the entry expires, is removed or could not be kept.
FetchesAreNeeded ==
    \A w \in Worker, f \in CacheFile : fetches[w][f] <= 1 + losses[f]

\* Every whole file of the directory is in the index of a worker with its size, and the index of a
\* worker that has stored since its start counts at most MaxSize: no file escapes the eviction, also
\* after restarts, purges by the terminal interface and evictions by one worker behind another.
EveryFileIsCounted ==
    /\ \A f \in CacheFile :
          disk[f].state \in {"fresh", "expired"} =>
              \E w \in Worker : \E k \in DOMAIN index[w] : k.file = f /\ index[w][k] = disk[f].size
    /\ \A w \in Worker : (\E k \in DOMAIN index[w] : k.name = "zone") => ~TooMuch(index[w])

\* An entry that cannot be decoded, and fails every request of its resource, is one being written,
\* one whose write failed or was interrupted, or one that two processes wrote together.
TornHasACause ==
    \A f \in CacheFile :
        disk[f].state = "torn" => Opened(f) # {} \/ f \in overlapped \/ cacheFaults > 0

\* Both: the files of the directory are counted, and a broken one has a cause.
DirectoryIsSound == EveryFileIsCounted /\ TornHasACause
=============================================================================
