------------------------------ MODULE NativeWatch ------------------------------
(***************************************************************************)
(* The sources that the native engine may not judge alone.  A security     *)
(* process follows a source that it finds notable, for the life of its     *)
(* Active Defense state, and those that have a decoy in the base, read     *)
(* each second; it tells the engine once, by a WATCH frame, and remembers  *)
(* it.  The threads of the engine share one bounded table, where an entry  *)
(* is added or prolonged, and ends by its deadline only.                   *)
(*                                                                         *)
(* A frame of several entries is as many frames of one.  A process writes  *)
(* to the first of its channels that is open.                              *)
(***************************************************************************)
EXTENDS Naturals, Sequences, FiniteSets

CONSTANTS
    Security,       \* the security processes
    Source,         \* addresses of clients
    MaxEntries,     \* kMaxEntries
    StateLife,      \* state_ttl_seconds
    DecoyLife,      \* of an assignment
    LastSecond,     \* bound: the clock
    MaxUnread,      \* bound: frames in a channel
    MaxDecoys,      \* bound: decoys assigned
    MaxWatchFaults  \* bound: channels lost, restarts

ASSUME WatchAssumption ==
    /\ {MaxEntries, StateLife, DecoyLife, MaxUnread, MaxDecoys, MaxWatchFaults} \subseteq Nat
    /\ LastSecond \in Nat \ {0}

VARIABLES
    second,     \* the clock of the machine
    decoys,     \* the base: until when each source has a decoy
    told,       \* _watched of each process: the deadline it has sent for each source, 0 for none
    unread,     \* its WATCH frames that the engine has not read
    table,      \* entries_: the deadline of each source, 0 when it has none
    overflow,   \* overflow_
    \* history variables and bounds
    refused,    \* entries, of a process and a source, refused since the table had a place
    missed,     \* entries refused before, or lost with a channel
    decoysMade, watchFaults

watchVars == <<second, decoys, decoysMade, told, unread, table, overflow, refused, missed, watchFaults>>

Deadline == 0..(LastSecond + StateLife + DecoyLife + 1)

WatchInit ==
    /\ second = 1
    /\ decoys = [s \in Source |-> 0]
    /\ told = [p \in Security |-> [s \in Source |-> 0]]
    /\ unread = [p \in Security |-> << >>]
    /\ table = [s \in Source |-> 0] /\ overflow = FALSE
    /\ refused = {} /\ missed = {} /\ decoysMade = 0 /\ watchFaults = 0

WatchFault == watchFaults < MaxWatchFaults /\ watchFaults' = watchFaults + 1

-----------------------------------------------------------------------------
\* Mutant of Purged: an entry ends one second early.
PurgedEarly(entries) == [s \in Source |-> IF entries[s] <= second + 1 THEN 0 ELSE entries[s]]

\* purge_locked
Purged(entries)   == [s \in Source |-> IF entries[s] <= second THEN 0 ELSE entries[s]]
HasPlace(entries) == Cardinality({s \in Source : entries[s] # 0}) < MaxEntries

\* Mutant of Keep: the doubt ends with the purge, whether it has freed a place or not.
KeepWithoutDoubt(entries, place) ==
    /\ table' = entries /\ overflow' = FALSE
    /\ refused' = IF place THEN {} ELSE refused
    /\ missed' = IF place THEN missed \cup refused ELSE missed

\* The table after a purge, or without one: the first place found ends the doubt.
Keep(entries, place) ==
    /\ table' = entries
    /\ overflow' = (overflow /\ ~place)
    /\ refused' = IF place THEN {} ELSE refused
    /\ missed' = IF place THEN missed \cup refused ELSE missed

\* WatchList::add, of an entry of the process p.
Add(p, s, until) ==
    LET entry  == {<<p, s>>}
        purged == Purged(table)
    IN  \/ until <= second /\ UNCHANGED <<table, overflow, refused, missed>>
        \/ /\ until > second /\ table[s] # 0
           /\ table' = [table EXCEPT ![s] = IF until > @ THEN until ELSE @]
           /\ refused' = refused \ entry /\ missed' = missed \ entry
           /\ UNCHANGED overflow
        \/ /\ until > second /\ table[s] = 0 /\ HasPlace(table)
           /\ table' = [table EXCEPT ![s] = until]
           /\ refused' = refused \ entry /\ missed' = missed \ entry
           /\ UNCHANGED overflow
        \/ /\ until > second /\ table[s] = 0 /\ ~HasPlace(table) /\ HasPlace(purged)
           /\ table' = [purged EXCEPT ![s] = until]
           /\ overflow' = FALSE
           /\ refused' = {} /\ missed' = (missed \cup refused) \ entry
        \/ /\ until > second /\ table[s] = 0 /\ ~HasPlace(table) /\ ~HasPlace(purged)
           /\ table' = purged /\ overflow' = TRUE
           /\ refused' = refused \cup entry /\ missed' = missed \ entry

-----------------------------------------------------------------------------
SecondPasses ==
    /\ second < LastSecond /\ second' = second + 1
    /\ UNCHANGED <<decoys, decoysMade, told, unread, table, overflow, refused, missed, watchFaults>>

\* RIPOSTE, or a process of the server, assigns a decoy.
AssignDecoyTo(s) ==
    /\ decoysMade < MaxDecoys /\ decoysMade' = decoysMade + 1
    /\ decoys' = [decoys EXCEPT ![s] = second + DecoyLife]
    /\ UNCHANGED <<second, told, unread, table, overflow, refused, missed, watchFaults>>

\* _send_watch: only a deadline later than the one already sent; the deadline of the frame is rounded up.
SendWatch(p, s, until) ==
    /\ until + 1 > told[p][s] /\ Len(unread[p]) < MaxUnread
    /\ told' = [told EXCEPT ![p][s] = until + 1]
    /\ unread' = [unread EXCEPT ![p] = Append(@, [source |-> s, until |-> until + 1])]
    /\ UNCHANGED <<second, decoys, decoysMade, table, overflow, refused, missed, watchFaults>>

\* A request of the source is notable: _watch_source, by its state or by the decoy it is given.
Follow(p, s)       == SendWatch(p, s, second + StateLife)
FollowDecoyed(p, s) ==
    /\ decoys[s] > second
    /\ SendWatch(p, s, IF decoys[s] > second + StateLife THEN decoys[s] ELSE second + StateLife)
SyncWatchList(p)   == \E s \in Source : decoys[s] > second /\ SendWatch(p, s, decoys[s])

\* apply_watch
ReadWatch(p) ==
    /\ unread[p] # << >>
    /\ unread' = [unread EXCEPT ![p] = Tail(@)]
    /\ Add(p, Head(unread[p]).source, Head(unread[p]).until)
    /\ UNCHANGED <<second, decoys, decoysMade, told, watchFaults>>

\* requires_python, for a request of the source.
RequiresPython(s) ==
    LET purged == Purged(table)
    IN  /\ \/ /\ overflow /\ ~HasPlace(purged)
              /\ Keep(purged, FALSE)
           \/ /\ overflow /\ HasPlace(purged)
              /\ Keep(purged, TRUE)
           \/ /\ ~overflow
              /\ Keep([table EXCEPT ![s] = IF @ > second THEN @ ELSE 0], FALSE)
        /\ UNCHANGED <<second, decoys, decoysMade, told, unread, watchFaults>>

\* The channel that the process writes to is lost; it goes on with the next.
LoseWatchChannel(p) ==
    /\ WatchFault
    /\ missed' = missed \cup {<<p, unread[p][i].source>> : i \in DOMAIN unread[p]}
    /\ unread' = [unread EXCEPT ![p] = << >>]
    /\ UNCHANGED <<second, decoys, decoysMade, told, table, overflow, refused>>

\* The process is relaunched: its frames are read all the same.
RelaunchProcess(p) ==
    /\ WatchFault
    /\ told' = [told EXCEPT ![p] = [s \in Source |-> 0]]
    /\ UNCHANGED <<second, decoys, decoysMade, unread, table, overflow, refused, missed>>

\* The engine is relaunched: the processes end with their channels.
RelaunchAll ==
    /\ WatchFault
    /\ told' = [p \in Security |-> [s \in Source |-> 0]]
    /\ unread' = [p \in Security |-> << >>]
    /\ table' = [s \in Source |-> 0] /\ overflow' = FALSE
    /\ refused' = {} /\ missed' = {}
    /\ UNCHANGED <<second, decoys, decoysMade>>

WatchNext ==
    \/ SecondPasses \/ RelaunchAll
    \/ \E s \in Source : AssignDecoyTo(s) \/ RequiresPython(s)
    \/ \E p \in Security : SyncWatchList(p) \/ ReadWatch(p) \/ LoseWatchChannel(p) \/ RelaunchProcess(p)
                           \/ (\E s \in Source : Follow(p, s) \/ FollowDecoyed(p, s))

WatchSpec == WatchInit /\ [][WatchNext]_watchVars

-----------------------------------------------------------------------------
\* The variables keep their types.
WatchTypeOK ==
    /\ second \in 1..LastSecond
    /\ decoys \in [Source -> 0..(LastSecond + DecoyLife)] /\ told \in [Security -> [Source -> Deadline]]
    /\ unread \in [Security -> Seq([source : Source, until : Deadline])]
    /\ table \in [Source -> Deadline] /\ overflow \in BOOLEAN
    /\ refused \subseteq Security \X Source /\ missed \subseteq Security \X Source
    /\ decoysMade \in 0..MaxDecoys /\ watchFaults \in 0..MaxWatchFaults

\* What requires_python answers now.
JudgedAlone(s) == table[s] <= second /\ (overflow => HasPlace(Purged(table)))

\* While a process holds a source to be followed, the engine sends it every request of the source,
\* except before it reads the frame, and after it lost the entry: with a channel, or in a full table
\* that has had a place since.
FollowedGoToPython ==
    \A p \in Security, s \in Source :
        told[p][s] > second /\ JudgedAlone(s)
            => \/ \E i \in DOMAIN unread[p] : unread[p][i].source = s
               \/ <<p, s>> \in missed
               \/ <<p, s>> \in refused /\ HasPlace(Purged(table))
=============================================================================
