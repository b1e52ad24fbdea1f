# omega-serv: a TLA+ verification project

omega-serv is a Python HTTP server with a web application firewall (WAF), a
deception layer (Active Defense), an automatic response process (RIPOSTE), a
reverse proxy and a native front end. This directory holds TLA+ models of its
stateful core, the TLC configurations that model-check them, and theorems the
TLA+ proof system checks. All paths below are relative to
`src/src/omega_serv/`.

| Question | Module | Runs | Proved |
|---|---|---|---|
| Do the deferred writes of Active Defense hide, lose or reorder a threat state? | `WriteBehind`, `StateStore` | `write_behind`, `write_behind_liveness`, `write_behind_hidden` | `WriteBehindProofs` |
| Do RIPOSTE's registry, the blocklist and the decoys stay in agreement? | `RiposteActions` | `riposte_bans`, `riposte_decoys`, `riposte_interrupted`, `riposte_removed_outside` | `RiposteActionsProofs` |
| Is every line of a journal seen once, and every event seen handled? | `RiposteFollow` | `riposte_follow`, `riposte_follow_lost`, `riposte_follow_stuck` | `RiposteFollowProofs` |
| Does the bounded memory of a source answer like its whole history? | `RiposteHistory` | `server` | `MemoryProofs` |
| Does a writer of the blocklist file lose a ban, or exceed the limit? | `Blocklist` | `server` | `FileProofs` |
| Does a subject have one open incident, closed only when it is quiet? | `Incidents` | `server` | `FileProofs` |
| Are the counters that the workers share those of one process? | `SharedRates`, `SharedHits`, `SharedCounters` | `server` | `MemoryProofs` |
| Does the proxy count its requests, keep its limits, and send a request once? | `ProxyBalance` | `server` | `ProxyProofs` |
| Does the cache of the proxy fetch too much, forget a file, or keep a torn one? | `ProxyCache` | `server` | `ProxyProofs` |
| Does a stop reach every worker? Does the native mode run mixed configurations? | `BoostSupervisor`, `NativeSupervisor` | `server` | `ProcessProofs` |
| Does each verdict find its request? Is a followed source always sent to Python? | `NativeInspection`, `NativeWatch` | `server` | `ProcessProofs` |
| Can a restoration leave a base beside the `-wal` of another, or lose the way back? | `Restore` | `server`, `restore_way_back` | `FileProofs` (the `-wal`) |

To check: `tlc -config MCWriteBehind.cfg MCWriteBehind`, and so on for each
`.cfg` with the module that `PROJECT.json` gives it; `tlapm` on each of
`WriteBehindProofs`, `RiposteActionsProofs`, `RiposteFollowProofs`, `FileProofs`,
`MemoryProofs`, `ProxyProofs`, `ProcessProofs` and `ServerProofs`. Each takes five minutes at most.

## 1. The system

### Processes and what they share

    server workers (asyncio)      RIPOSTE process           operators (CLI, TUI)
      WAF, Active Defense           journals -> decisions      blocklist, commands
          |        |   \              |      |      |              |
          |   threat.sqlite  journals-+  riposte.sqlite  <---------+
          |   (incidents, decoys)  \_________|                     |
          +-------------- blocklist.json ----+---------------------+

* Each **server worker** is one asyncio loop with one writer thread for the
  Active Defense database.
* **RIPOSTE** is one child process, restarted by the server
  (`RiposteChildSupervisor`). It follows the WAF and the security journals,
  decides, and writes bans in the blocklist file and decoys in the assignments of
  Active Defense. Operators talk to it through commands in its database.
* The **blocklist file** is shared by the workers, RIPOSTE and the operators
  under an advisory lock with a timeout.

* Besides, the **main process of the boost mode** forks the workers and relaunches them; in
  the native mode a **supervisor** drives the C++ engine over a control channel and keeps the
  security processes. The workers share **counters in mapped memory** and the
  **directory of the proxy cache**.

### Components

| Component | State | Operations | Hard because | What makes it correct |
|---|---|---|---|---|
| Active Defense write-behind (`infrastructure/persistence/active_defense_write_behind.py`) | pending states, buffer, queue, batch and transaction of the thread, table | `save_many`, `get`, `submit`, `flush`, `stop`, `_run`, `_execute` | loop and thread interleave, rollback and replay, two bounds, callbacks after the commit | reads its own writes, nothing lost silently, never an older state, flush and stop keep their word |
| RIPOSTE actions (`application/riposte/actuator.py`, `engine.py`, `commands.py`, store) | registry, memory of the sources, exemptions, commands, emergency stop | `handle`, `apply`, `revoke`, `reconcile`, `run_pending` | the effect is in another file than the registry, others write it, death between any two writes | what is closed is not in place, limits, priorities of the operators, final states |
| RIPOSTE journal following (`infrastructure/riposte/log_follower.py`, `application/riposte/follow_journals.py`) | position and fingerprint per journal, events seen | `read_new_lines`, `follow_once`, `run_riposte` | rotation in place, replacement, errors, death between mark and save | each line seen, no event twice, each event seen is handled |
| RIPOSTE history and decision (`domain/security/riposte/history.py`, `decide.py`) | episodes and past actions of a source, bounded in number and in age | `apply_event`, `decide`, `next_tier_index`, `end_action`, `forget_before` | late events, actions lifted or dropped, marks of failed decisions | the episodes and the tiers of the definition, one decision per episode |
| Blocklist file (`infrastructure/waf/blocklist_store.py`) | entries, read cache by modification time, lock | add, add unless stronger, remove, count | several writers, lock that gives up, stale cache | no ban lost, manual bans stand, limit of automatic bans |
| Active Defense observation, incidents, deception | scores, incidents, assignments | `observe_threat`, open, feed, close, sweep | looks before the transaction begins, replays, several servers | one open incident per subject, closed when quiet |
| WAF evaluation, shared counters (`infrastructure/waf/shared_counters.py`) | slots of a segment in mapped memory | `check`, `record`, `count`, `reset` | workers reuse and take over slots | a key counts as if it were alone |
| asyncio server | connections, configuration | accept, keep-alive, reload, close | cancellation, reload during requests | limit of connections, graceful close |
| Reverse proxy (`application/proxy`, `infrastructure/proxy`) | places, health, kept connections; cache directory, index, locks | choose, attempt, retry, tunnel, probe; look up, fetch, store, evict, purge | cancellation at each await, retries, other processes on the same directory | exact count of places, limits, no repeated effect; one fetch, every file counted |
| Supervision (workers, native engine, security workers) | children, deaths, configuration and its generation | fork, relay, reap, relaunch, reload, stop | deaths, signals and late answers meet | the stop reaches all, one configuration runs |
| Backups and restore (`application/persistence/restore_backup.py`) | bases and their `-wal`, files set aside | stop, set aside, extract, record, start | failure, death or another process between two files | no foreign `-wal`, a way back |
| Native HTTP core (C++, `native/omega-http-core/src`): the channel to the security process and the watch list | requests that wait for a verdict, delegated ones, table of the sources followed | INSPECT, VERDICT, WATCH, delegation, delay, loss of the channel | answers that come late, a channel that is lost, a full table, two processes on one list | each verdict finds its request, a followed source is sent to Python |
| Rest of the native HTTP core, configuration, uploads, TLS, interfaces | | | mostly sequential or presentation | out of the plan, see section 5 |

`PROJECT.json` lists every component with its sources and status, and 40
hazards, each at the line where it bites, with the properties that would catch
it, or a note where a property sets the case of the hazard apart and shows that it is the only one.

## 2. What is modelled

### `WriteBehind` and `StateStore`

One worker process: the request loop (`Submit`, `SaveAccepted`, `SaveRefused`,
`SubmitFlushJob`, `DropBuffer`, `CallFlush`, `Stop`) and the writer thread
(`OpenConnection`, `GetFirst`, `Collect`, `BeginTry`, `RunFlushJob`, `Commit`,
`RunCallback`, `RollBack`, `Retry`, `AbandonBatch`, `StartPurge`, ...).
`EndOfProcess` is a death, or an exit, followed by a new process on the same
database.

* A threat state is a subject and a stamp: the order of the saves, which is that
  of `updated_at`. The jobs of the incident and the deception repositories only
  take a place in the queue.
* The granularity is the one of the locks: `save_many` takes the buffer lock,
  releases it and then deposits its job, so it is two actions with the thread
  in between; the thread's jobs run one at a time inside an open transaction
  `tx`, that `Commit` copies to `db` and `RollBack` throws away.
* The counter `dropped` is incremented atomically here. In the code it is a `+=`
  of two threads without a lock. The properties only use `dropped = 0`, which a lost
  increment cannot restore.
* `StateStore` is what the repository promises: a visible and a durable state per
  subject, `Accept`, `Refuse`, `Commit`, `Restart`. Everything else the program
  does must leave both unchanged. `ImplementsStore` states the refinement with
  `visible` the result of `get`, `durable` the table, and `weak` the subjects
  whose newest state the queue refused.

`flush()` promises that (comment in `flush`) « tout ce qui precede est en base ». That is false of a
writer told to stop: the batch abandoned at the stop may hold states that
the flush covers. `FlushMeansStoredWhileRunning` therefore excludes a stopping
writer.

### `RiposteActions`

The RIPOSTE process as a program counter (`pc`) over the handlers `_tick`
(commands, then reconciliation), `RiposteEngine.handle`, `RiposteActuator.apply`,
`revoke` and `reconcile`; each write to the registry, the blocklist file or
the assignments is an action, and `Die` may come between any two. The environment
is the rest of the system: `BanByHand`, `LiftByHand`, `AutoBan`,
`DecoyByActiveDefense`, `ReleaseByHand`, `Deposit`, `EmergencyStop`, `Resume`,
`Reload`, and a blocklist file that becomes unreadable or unreachable.

What is abstracted:

* the conditions of a policy: any observed source may satisfy one, and the silence
  after an episode may always have been long enough;
* the windows of 30 days and more (recidive, retention) are longer than a run, so
  the purges by age (90 days, 100 000 rows) and the audit trail are absent;
* instants are ticks, `reconcile` takes the clock at each action, and two
  writers never write at the same instant;
* a change of the file with an unchanged modification time is modelled in `Blocklist`;
  a file that is not JSON any more is not modelled;
* an operator deposits a command for an action the console shows while the
  process is idle or down, and the configuration changes only by a reload;
* the check of one decoy subject and its release are one step.

Three history variables set apart what the code gives up knowingly: `orphans`,
actions closed by a path that does not look at what is in place (no mechanism,
a list read as empty, a decoy with no recorded subject); `forgotten`, actions
the process died on before it saved their source; `cleared`, a `revoke_all`
that ended well during an emergency stop. The two findings below are the paths
behind `orphans`: without that exception `OverIsOver` is false.

### `RiposteFollow`

One turn of `run_riposte`: for each journal `Look` (`stat`, `_resolve_start`),
`Read` (the chunk), `Remember` (`_remember`), `MarkLine` for each line
(`mark_seen` is a transaction of its own), `SavePosition`; then `Handle` for each
event, and `EndTurn` with the purge of the events seen. `FailTurn` is the
`except OSError` of the loop. The environment appends lines, empties a journal in
place (`Rotate`), replaces it without some of its lines (`Replace`), and takes
away and gives back the right to read it.

* A line is its event, an event is the rank of its timestamp; offsets count lines
  and the fingerprint is the first `Prefix` lines. A line is in the journal once
  its newline is, so partial lines are absent by construction; over-long lines and
  lines with no event are left out.
* `os.stat` and the fingerprint `_resolve_start` compares are one step; the reading
  of the chunk and the fingerprint `_remember` takes are two more, and the journal may
  change between the three.
* `ShortJournals` is the assumption that the comment of `SEEN_EVENTS_RETENTION`
  makes, that no journal goes further back than the events seen are kept: the purge
  then drops no event a journal still holds. `HandledOnce` holds with it and fails
  without it.
* `raced` names the journals that changed where the follower cannot see it (between
  `stat`, the chunk and the fingerprint when the fingerprint is to be taken anew, between
  the creation of the follower and its first reading, or with the inode number of the file it
  followed). `PositionBehindMarks` and `SeenUnlessStuck` set them apart.
* `stale` names the journals whose last `Remember` kept the fingerprint of an older file
  although the reading had just started again from the beginning (`_remember`,
  `log_follower.py:152-162`, compares offsets and lengths, not the reason of the start).
  The next turn then starts again too. `EveryLineIsSeen` states the docstring's promise and is
  false in that case (`riposte_follow_stuck`); `SeenUnlessStuck` states what is left of it: the
  lines of the first chunk are seen even then, every line is in every other case, and a line is
  due again once the fingerprint has been taken anew.
* `FollowAssumption` asks that the fingerprint covers no more than one reading takes: 256
  bytes against 4 MiB.
* Lines that a rotation or a replacement removes before they are read are lost to
  the follower; so are those the server writes to a replaced file for up to a
  second. No property claims them.

### `RiposteHistory`

What RIPOSTE remembers of one source. `Watch`, `Strike` and `Miss` are one event
handled without a decision, with one that succeeds, and with one that fails; each is
the whole of `apply_event`, `decide` and the marks of `RiposteEngine.handle`.
`Leaves`, `LiftAction` and `NotCounted` end an action, lift it early and exclude it
from the tiers; `ForgetSource` and `PurgeSource` drop the source. An event may be
older than the previous one by at most `Lateness`.

The history variables hold what the definitions speak of: `truth`, the episodes
computed from every event without any bound, and `acts`, every action taken.
`MemoryAnswersAsHistory` compares the answers of the bounded memory with them. `astray`
names the three cases in which the code knowingly departs from the definition: an event
came late, a decision failed although an action was remembered, an action was dropped
before its end, by the bound of the memory or by the purge of the source. `past` is a function from
the identities of the registry. `HistoryAssumption` asks for a retention of at least the window of the
tiers plus twice the lateness, and the windows of the episodes and of the returns plus the lateness, and for
no more `returns` than `MAX_EPISODES`: the default configuration has it (90 days against 30), its
validation does not check it.

### `Blocklist`

Any number of processes on the blocklist file: the counting read of a worker
(`LookToCount`, `CountAuto`) before its automatic ban; then a write as the code does
it: `Acquire` or, after a second, `GoWithoutLock`; `LookToWrite` (`stat`) and
`LoadToWrite` (the read through the cache) or `Unreadable`; `Replace`, `KeepTime` (the
cache takes the modification time), `SaveFails`. `WriterDies` is possible at every step
and the lock goes with the process.

* The modification time is a tick, so that two writes may have the same one.
* `Kept` gives the lists the file may hold at the start: a restarted worker finds bans
  older than its cache.
* History variables: `disturbed` (somebody wrote without the lock since this writer
  loaded its list), `guess` (its list is its cache, the file being unreadable), `coarse`
  (two writes had the same modification time), `unlocked`, `hidden`. They are the
  exceptions of the four properties; an unreadable blocklist makes a restarted worker count 0
  automatic bans, hence `~hidden` in `AutoBansBounded`.
* `purge_expired` is called by nothing in production: expired automatic entries count in the
  limit for ever, in the model as in the code.

### `Incidents`

The writer threads of several servers, the maintenance (`Maintain`) and the sweep of an
operator on one database. The connection begins its transaction at the first write, so the
look for an open incident (`Look`) that comes first holds nothing: it is an action of its own
when no transaction is open yet, and a part of `RecordIncident` otherwise. `UndoBatch`
replays the jobs, `ServerDies` loses them. The sweep of the CLI or TUI is one committed
statement after another (`SweepStates`, `SweepList`, `SweepLook`, `SweepClose`).

The history variable `raced` names the subjects that changed between a look without the lock
and the write that relied on it. Without that exception the properties are false, and
the code has these windows: two servers can open two incidents for one subject; an event
can be added to an incident closed meanwhile; a sweep can close an incident just fed.

### `SharedRates` and `SharedHits`

One segment of the mapped memory each; `SharedCounters` puts them together. An operation runs under the lock of the segment and
is one action. The history variables (`bucket`, `history`) are the buckets and hits each key
would have alone; `displaced` and `ousted` name the keys whose slot was taken while in use.
Tokens are counted in parts so that the refill of a tick is a whole number. `RateWindow <=
RateLife` is an assumption: a window longer than `_TTL_SECONDS` (3600 s) forgets a client
before its window ends. The creation of the segment and a worker killed while it holds a
segment lock (which blocks the others) are not modelled.

### `ProxyBalance` and `ProxyCache`

`ProxyBalance`: a step is what a handler does between two awaits; `Cancel` is possible at
each. Every strategy, the sticky cookie and the rules choose among the same candidates, so
the choice is nondeterministic. `SendAgain` is the client pool, which sends again on a new
connection when a kept one gives no answer; `AttemptFails` may retry on another
upstream. History variables: `forced` (let in although no upstream was up), `reached`, `fresh`.

`ProxyCache`: the handlers of several workers on one directory; `Open` and `Fill` are two steps
for the other processes, one for the worker. `linked` says that the file a handler has open is still the
one at that path, after an eviction or a purge. `index` gives the size of each entry a worker knows, `older`
the pairs of which the first was used before the second: entries used together, and those found at a start, may be
evicted in any order. History variables: `fetches`, `losses` (the times an
entry expired, was removed or not kept), `overlapped` (files two processes had open together).
The two modules are not composed: a cached answer takes no upstream.

### `BoostSupervisor` and `NativeSupervisor`

`BoostSupervisor`: one turn of `run_workers` is `TakeStop`, `TakeReload` or `TakeNothing`, then
`Reap`, one `HandleReaped` per worker, `EndTurn` or `EndService`; the workers and RIPOSTE die at any
time. Signals of one kind are one when pending together, and a SIGHUP that reaches a worker
before its handlers kills it (`KilledEarly`).

`NativeSupervisor`: the loop of the supervisor (`Pump`, `SendConfig`, `Accept`, `Refused`,
`NoAnswer`, relaunches), the engine that handles a configuration (`HandleConfig`), the control channel
as two queues, the security processes that load the file by themselves. `late` records an
acknowledgement after the 15 s, `why` the reason a security process may run another
configuration: its SIGHUP lost while it started, a file refused, a file edited in between.

### `NativeInspection` and `NativeWatch`

`NativeInspection`: one thread of the engine, its connections, and one security process. A request that
the engine may not judge alone is put in a queue with its number (`Inspect`) and waits; the verdict may be to
continue, to refuse, or to hand the request over to Python, under the same number. The delay of a request
passes (`DelayPasses`, fail-open or fail-closed), the client goes, the channel is lost with what
was on it. `awaited` is the table of the engine that finds the connection of a verdict by its number. What
the WAF answers is a choice; the history variables say on what each request was served or refused.

`NativeWatch`: the security processes tell the engine, in frames on their channels, until when it must
send them every request of a source; the engine keeps the deadlines in a bounded table. Seconds pass,
decoys are assigned, channels and the engine are lost and come back. `told` is what a security process
remembers having sent (`_watched`), `unread` the frames the engine has not read. A request is judged by
the state in which it is read. The stage of the security processes is on.

### `Restore`

`restore_backup` and `restore_stopping_service` by any number of operators, against a server that starts,
opens its bases, writes its PID file, stops or is killed. A base and its `-wal` are the number of the
base they belong to, so a foreign `-wal` is a number that differs. Each move of a file, each base extracted, the
record and the start of the service is a step; `RestoreFails` and `OperationStops` are an error and a
death at each of them. `intruded` records that the server opened the bases while they were replaced: the
check that it does not run comes before the replacement and nothing holds it off after.

### `Server` and `MCServer`

The twelve modules from `RiposteHistory` to `Restore` share no state with one another: `Server` puts them side by side, one
moving per behaviour (`part`), which spares TLC their products and hides no interaction. `ServerImplementsComponents` proves that its
behaviours are behaviours of each module. `MCServer` gives it one set of model values. One process, `w2`, plays a worker,
an operator and RIPOSTE for the blocklist. The symmetry group has two elements: one exchanges
two of the networks, and the two upstreams, requests, tasks and server processes with them.

## 3. Runs, bounds and fairness

Passing runs:

| Run | Instance | States | Shows |
|---|---|---|---|
| `write_behind` | 2 subjects, queue and buffer of 2, batches of 2, 3 saves, 1 other job | about 909 000 | the six invariants and `ImplementsStore` |
| `write_behind_liveness` | 1 subject, queue of 1, 2 saves | about 47 000 | `EveryStateSettles`, `StopEndsTheThread` |
| `riposte_bans` | 2 sources, 2 actions, 1 command, 1 death, 1 change from outside, bans of 1 and 2 ticks | about 3.3 million | registry, blocklist and memory in agreement |
| `riposte_decoys` | 1 source with 2 agents, decoys | about 3.3 million | `OverIsOver`: the same for assignments, subject by subject |
| `riposte_follow` | 1 journal, chunk and prefix of 2, step back of 1, 1 change; 3 lines with 1 failure and 1 death, 5 lines without them and with rotations alone | about 786 000 | following, marking and handling, under fairness |
| `server` | the twelve parts of `Server`, see below | about 1.18 million | the properties of those parts |

Why the bounds are enough for the cases meant. Two saves of one subject and one of
another fill the buffer and the queue, cross a batch in progress and leave one
state to replace; two subjects are symmetric and appear in no guard together
but through the capacity. Two actions of one source give a tier and a
recidive, and two sources a cap on active bans. One command and one death suffice
for each window between two writes, since each window is one step wide. For
`RiposteFollow` a prefix of two lines gives a fingerprint that grows with the file, so that it is
sometimes kept and sometimes taken anew. Two journals only meet in one turn, which
`riposte_follow_lost` explores; safety was also explored by hand with the two journals of RIPOSTE
and three lines (6.5 million states), and with one journal, four lines and two changes
(10.7 million). Five lines are what it takes for a journal of two lines,
emptied, to grow past its old position and past one chunk of two: the stale fingerprint then does
occur in the run, where `SeenUnlessStuck` holds and `EveryLineIsSeen` fails. `MCFairSpec` bounds
these long journals (`MCShort`) to the behaviours with no failure, no death and no replacement,
since all together are beyond TLC; it restrains the environment and the deaths, never a step of a
turn. `riposte_follow_stuck` shows the same case in three lines, with a chunk of one.

The parts of `server`, with their states:

| Part | Instance | States |
|---|---|---|
| `Blocklist` | 3 networks, 2 workers (one also operator and RIPOSTE), limit of 1, 2 writes, 3 ticks, 1 fault, an automatic ban in the file or none | 135 000 |
| `ProxyBalance` | 2 upstreams with a limit of 1, 2 requests, 1 probe, 1 change by hand | 218 000 |
| `ProxyCache` | 2 workers, 2 handlers, 1 resource with 2 variants, room for one large file, 3 arrivals, 1 fault | 40 000 |
| `SharedRates` | 3 keys in 3 slots, 2 probes, 2 requests in 2 ticks, life of 2 ticks | 21 000 |
| `SharedHits` | 3 addresses in 3 slots, 2 probes, ring of 2, 5 hits | 25 000 |
| `BoostSupervisor` | 2 workers, 1 death allowed in the window, 3 deaths | 46 000 |
| `NativeSupervisor` | 1 security process, 1 relaunch of each kind, 2 edits, 2 reloads, 2 faults | 68 000 |
| `Incidents` | 2 servers, 1 subject, 2 observations, 3 instants, 1 sweep, 1 fault | 44 000 |
| `RiposteHistory` | 6 moments, 2 actions, tiers of 1 and 2, memory of 2 episodes and 1 action | 160 000 |
| `Restore` | 2 restorers, 1 base, 2 starts, 1 fault | 75 000 |
| `NativeInspection` | 2 connections, queue of 1, 2 requests, 1 fault | 103 291 |
| `NativeWatch` | 1 security process, 2 sources, table of 1, 3 seconds, 1 decoy, 2 faults | 19 606 |

Each hazard needs two actors and one or two changes: two writers and a third network for
the limit (a limit of 1 exceeded by one), three keys in two probed slots for a takeover, two deaths
over one allowed. Larger instances were explored by hand without a violation: three writes of
the blocklist, with bans of the operators that end (2.8 million states), three observations (759 000
states), eight moments and three actions of the history (11.7 million states), two bases, two
restorers and two faults (17 million states). In the run the operators ban for good
(`ManualTimes = {}`): bans by hand that end are covered by that exploration and by the proof.

Deadlock is checked in every run but `server` and `restore_way_back`, whose bounded components stop.

Violations, each one a disagreement between the code and its own documentation:

| Run | Property | What it shows |
|---|---|---|
| `write_behind_hidden` | `EveryPendingWriteIsVisible` | a refused newer state removes the pending mark of an older one still being written: until the commit, a read returns what the base holds |
| `riposte_interrupted` | `InterruptedMeansAbsent` | a decoy assigned before a death has no recorded subject: the reconciliation closes it as interrupted while it is in place |
| `riposte_removed_outside` | `RemovedOutsideMeansAbsent` | an unreadable blocklist reads as empty in a process that has read none: running bans are closed as removed |
| `riposte_follow_lost` | `SeenIsHandled` | the second journal is unreadable: events of the first one are marked, their position saved, and never handled |
| `riposte_follow_stuck` | `EveryLineIsSeen` | a journal emptied and filled past the position and past one chunk: the stale fingerprint makes every turn start again from the beginning |
| `restore_way_back` | `WayBack` | two restorations of one backup use one directory: it ends with the main file of one base and the `-wal` of another |

### What the models showed beside the runs

Behaviour met while modelling, which departs from a comment or may surprise, and which the
properties set apart or do not speak of:

* Workers: a relaunched worker gets the configuration of the start, not that of the last
  reload; a SIGHUP sent to a worker just forked kills it; `window_seconds` above 3600 forgets
  clients before the end of the window.
* Native mode: a reload without a control channel raises an `AssertionError` that stops the service
  (`native_engine.py:150`); a late acknowledgement leaves the engine with a refused
  configuration and the next reload reuses its generation; « jamais un etat melange »
  (`serve_native.py:12`) does not hold for a security process whose reload is lost, refused or finds the
  file edited; relaunches that each take 15 s never reach the limit of deaths.
* Native inspection: under fail-open a request whose delay passes goes on, and may be delegated under the same
  number; the verdict that comes late, the « continue » of the inspection, is then taken for the answer to the
  delegation, and the client gets a 500 (« route confiée à Python : verdict sans réponse »), though
  `apply_verdict` says of a late verdict « ignore ». A verdict is dropped without a word when the channel
  raises (`except OSError: pass`).
* Native watch list: a source that a full table refuses is remembered as sent, is not sent again, and is judged
  by the engine alone once a place is free, while the security worker says « le natif envoie ici toutes
  les requetes de `ip` jusqu'a `until` ». The frame goes on the first open channel, so another thread may
  judge the next request before it is read. After a channel or an engine is lost only the decoys are sent
  again, not the sources that only have a state.
* Journals: a rotation between `stat` and the opening of a file shorter than its fingerprint
  (`log_follower.py:152-162`) leaves the old offset with the fingerprint of the new file: its first lines are never
  read, while the module promises « ne RIEN perdre » through the rotation. A file shorter than the fingerprint of
  its position is not compared at all (`log_follower.py:112-116`), and is taken as started again only when it is
  shorter than the offset as well.
* Proxy: the client pool sends any method again on a new connection, while `serve_proxy.py:54-58` says
  « jamais sur POST/PUT/DELETE » of the retry; an upstream that is down and has no probe gets no
  traffic while another is healthy; the limits are ignored when all are down. A torn cache file
  fails every request of its resource until it is evicted or purged; after a restart one file may be
  counted twice, and the eviction of its old entry deletes the fresh file.
* RIPOSTE: with the WAF switched off by a reload, a revoke leaves the ban in the file
  (`actuator.py:155`); a journal replaced by `remove_ip` after more than the two days of
  retention is handled again (`run_riposte.py:28-29`: « 2 jours de dedoublonnage suffisent »); a decision that failed after an older action had
  ended begins a new episode at each activity and is taken again (« l'episode en cours ne
  redecide plus »); an action removed outside RIPOSTE delays the next episode until
  its planned end; late events lower `updated_at`; `measure.py` counts decoys in the active
  actions and does not forget by age, though it says « exactement comme elles le feraient en
  reel ».
* Incidents: the `incident_opened` event is written inside the job, before the commit: a batch undone
  and replayed announces incidents that do not exist. The docstring of `_purge_job` leaves the closures to
  `active-defense purge`, while `_after_purge` closes.
* Restore: an `OSError` while the record is saved leaves the whole operation before
  `start_service`, though the module says « Le service est TOUJOURS redemarre a la fin »; a
  second attempt after a failure replaces the only copy of the original base; a death
  between the move of a main file and that of its `-wal`, then a start of the server, loses the `-wal`;
  a server started during the replacement can meet a foreign `-wal`; a manager that
  answers too late counts as a refusal, and the service may stop after all.

Fairness, and why the code justifies it:

* `WriteBehind!FairSpec`: weak fairness of the thread (the operating system runs it,
  and every wait in `_run` has a timeout) and of the two halves of `save_many`.
  `EveryStateSettles` moreover assumes `BaseRecovers`, that a transaction tried for
  ever succeeds in the end; `StopEndsTheThread` does not. Nothing is assumed of the
  requests.
* `RiposteFollow!FairSpec`: weak fairness of `Start` (the supervisor starts the child
  again; with at most `MaxCrashes` deaths it does not give up), of the turn (its loop
  never ends by itself), and strong fairness of `BeginTurn`: the process is not
  stopped for ever before its first turn. `SeenUnlessStuck` and
  `EveryLineIsSeen` moreover assume that each journal is readable from some point on.
* The other modules state no liveness property and no fairness.

## 4. What is proved

`WriteBehindProofs` (any subjects, capacity, batch size and bounds, under
`CapacityAssumption`):

* `Invariance`: `IInv` is inductive. The properties are not inductive by themselves:
  `ReadYourWrites` needs to know that what a job has taken is older than the buffer
  (`OrderInv`), that stamps never exceed the clock (`ClockInv`), that the
  transaction and the committed table differ by what the jobs of the batch have
  taken (`PhaseInv`, `TableInv`), and which pending entries are still on their way
  (`PendingInv`, `SettleInv`, `NewerInv`); `JobsInv` says what a job can be.
* `TypeCorrect`, `LoopReadsItsWrites`, `NoSilentLoss`, `TableNeverGoesBack` follow; the second half of
  `NothingLostSilently` needs one more invariant (`QuietInv`: while nothing is counted, each flush job
  that has run waits for its commit).
* `NothingStaysPending`: a state that is pending is not saved yet, was given up, or was taken by a job of the batch
  (`DrainInv`).
* `FlushWaitsForTheBase`: the signal of `flush()` comes after the jobs that serve the states it waits for (`SignalInv`), and
  a state that is no longer pending was stored or given up (`DepositedInv`).
* `Refinement`: every step of the program maps to a step or a stutter of
  `StateStore`, one lemma per abstract action (`AcceptStep`, `RefuseStep`,
  `CommitStep`, `RestartStep`) and `CallbackStep`, `StoreStutter` for the rest.

`RiposteActionsProofs` (any sources, agents, tiers, limits and bounds, under `ActionsAssumption`):

* `Invariance`: the invariant `Inv` is a conjunction of parts that need one another. `EntriesInv` and `DecoysInv`:
  what RIPOSTE has placed comes from an action of the registry, with its source and its end.
  `ProcessInv`: which command, which action and which actions still to do belong to each point of
  the process (`CommandsInv`, `WorkInv`, `TodoInv`, `PendingInv`), what an action being applied has placed
  (`PlacingInv`), what one being lifted no longer has (`LiftingInv`). `StopInv`: an accomplished stop leaves no action
  running and no decision. `ExemptInv`: a batch has read at least the exemptions of the base. `NothingLeftBehind`, `CapInv` (the running
  bans of the registry are at most the cap), `ExpiredInv` (an action closed as expired has reached its end)
  and `RememberedInv`. None of the properties is inductive alone: `OverIsOver` depends on the
  point at which a death leaves an action, the cap of what is in force on the registry knowing the end of what it placed.
* Each part has one lemma, with one step per action; `Kept` says once for all what a step may do to the
  registry (it grows, an action keeps its source, kind and end, a finished one its state), and most parts
  follow from it for the steps they are not about.
* `BansAreCapped`: each source with a ban of RIPOSTE in force is mapped to the running ban that placed it; the
  map is an injection into the running bans, which `CapInv` bounds.
* `ActionsTypeCorrect`, `OverMeansOver`, `BansAreRemembered`, `EntriesOfOthersStand`, `FinishedForGood` and
  `ExemptedAreSpared` follow, the last three as action properties.

The attempt found a fault in the model: the cases of the verdict of the reconciliation overlapped, so that
`CASE` could choose either, where the code tests them in order. They are disjoint now.

`RiposteFollowProofs` (any journals, chunk, prefix and bounds, under
`FollowAssumption`):

* `Invariance`: the inductive invariant says that what is marked was written, that a
  line that can still be read is among the events seen once it is marked
  (`SeenInv`), that the batch and the handled events are disjoint (`HandledInv`),
  where lines and events may wait (`TurnInv`), and that without a failure every
  journal is readable (`QuietInv`).
* `NothingTwice`: under `ShortJournals`, `[]HandledOnce`. The purge is the only
  step that needs the assumption.
* `QuietTurnsHandleAll` and `TypeCorrect`, without it.
* `PositionsStayBehind`: `[]PositionBehindMarks`, with an invariant of its own, `PlaceInv`. A file that begins as it did at
  a position is the one the position is about, because a file that was emptied begins with a later event
  (`Begins`); as long as it is, the fingerprint is a part of what was read and every line before the position is done with
  (`Covered`). `PositionInv` says so of the position in the base, and of the one in memory but for the lines read and
  not marked yet; `StartInv` of the first follow of a journal; `LookInv` says that what `stat` returned still
  holds when the chunk and the fingerprint are read.

The last attempt found a fault in the model: it passed over the changes a follower cannot see between `stat` and the two openings
of the file, and the bounds (a fingerprint of one line) hid it. `Unseen` names them now, and the run has a
fingerprint of two lines.

`MemoryProofs`, the history (any policy, bounds, lateness and retention, under
`HistoryAssumption`):

* `HistoryTypeCorrect`: an action remembered is the one that was taken; `SelectedFacts`, `NewestFacts` and
  `PastWithFacts` say what keeping a part of the memory leaves of it.
* `RememberInv`: an action that left the memory is too old to count for any event to come, or older than
  everything in a memory that is full. The tier is then the same (`TiersAnswer`): either nothing that counts has left, or the memory
  alone reaches the last tier.
* `StraightInv`, while nothing went astray: a growing map links each episode of the memory to one of the
  definition, the last to the last; an episode without a link is out of the window of every event to come, or older
  than a full memory (`LinkOK`). The last episode is marked in the memory when it has been decided, and one that has left is followed by
  a silence (`DecidedOK`), and an action that has left has ended before one that is kept, or too long ago to matter (`EndsOK`).
* So an event begins an episode in the memory exactly when it does in the definition (`SameNovelty`), which keeps the link, and the
  counts agree up to `MAX_EPISODES` (`EpisodesAnswer`): `MemoryIsTheHistory`.

The attempt found two faults in the model: the purge of a source with an action in progress lets an
episode begin too early, and was not among the cases of `astray`; and the assumption on the retention left out the lateness for two of the
windows. The bounds of the run hid both.

`FileProofs`, the blocklist (any networks, writers, durations and limits, under `BlocklistAssumption` and
`KeptAssumption`: the file holds at most the limit when the processes start):

* `SafeInv` is inductive: one holder of the lock (`LockInv`), no time ahead of the file (`TimeInv`), what
  a load under the lock knows (`LoadInv`), what the history variables record. `NoBanIsLost` and
  `ManualBansStand` follow.
* `AutoBansAreBounded` needs a count: the automatic bans of the file and the workers that may still add
  one (those that have decided, and those that will find room in a cache they may use) are
  together at most the limit plus the workers less one (`BoundInv`).

`ProxyProofs` (any upstreams, requests and limits): `BalanceInv` adds to the two properties of the count
where a request may be (`PlaceInv`) and what it may still reach (`TraceInv`). `CountIsExact`, `LimitIsKept` and
`EffectsAreNotRepeated` follow.

`ProxyProofs`, the cache (any workers, resources, variants and limits, under `CacheAssumption`): in `FilesInv`, the handlers that look
again, fetch and store hold the lock of their resource (`HoldersInv`); a worker has fetched a variant at most as often as it was lost,
and once more only while the file is there, is being written, or one of its handlers is fetching it
(`FetchesInv`): `FetchesAreForLosses`. A file that one process alone has open is empty until it is written (`OpenedInv`), so that a
torn one has a cause. That every file is counted is not inductive: a worker that stores a file that was
removed and stored by another since it was opened would replace the entry that counts it. `CountsInv` says that a whole file is
counted by a worker that is not storing it, `OneStore` that a worker stores one file at a time, `RoomInv` is the
maximum: `FilesAreCounted`.

`ProcessProofs`: for the boost mode the property is inductive with the limit of deaths (`BoostInv`). For the native
mode `WireInv` says that without a late acknowledgement exactly one frame, or its answer, is on the
channel while the supervisor waits; `SecurityInv` and `DeathsInv` complete it. For the watch list each deadline that a
security process remembers having told is in the table, in a frame not read yet, or was lost or refused, and the
last frame about a source carries what the process remembers: `FollowedSourcesAreSent`. For the inspection channel
`InspectionInv` says which connections wait (`EveryWaitIsKnown`) and what may be on the channel about each number
(`ChannelInv`: a number is used once, inspected once, ruled on once, answered once); `Moves` lists what a step of the
thread may do to a connection, so that each part is proved for a move and not for each handler.

`MemoryProofs`, the shared counters (any keys, slots, probes and windows): `ChainInv`, every slot in use is found by the
search of its key; `LevelInv`, the slot of a key has the level of its own bucket, which is full when the key
has none. The arithmetic of the refill is a lemma on `Level`. For the hits, `MatchInv`: a slot holds the last hits of the history of its
address, from the position before `head` backwards, and when it has room those before them are too old for any window; an
address without a slot has none that is not (`GoneInv`), and the hits are in the order of their times (`OrderInv`). So the hits of the
window are the last ones of the history, and a bijection with the positions of the ring (`RingCount`) gives `CountersAreExact`.
The history of an address is the sequence of the times of its hits for that purpose: it was a table of numbers per time, whose
sum is a recursion that cannot be reasoned about.

`FileProofs`, the incidents (any servers, subjects and observations): what a transaction may change of what is committed
(`ViewInv`), what a look made without the lock still says (`LookInv`, `SweepInv`), one open
incident in the base and in the transaction (`SingleInv`). `OneIncident` and `ClosuresAreQuiet` follow.

`FileProofs`, the restorations (any bases, restorers, starts and faults): the property is not inductive, `ReplacingInv` adds that
while a restorer replaces the bases and no server has opened them, the server is down and each `-wal` that
is still there is among the files it has to set aside; an extraction begins with none left.

`ServerProofs` (any constants of the twelve modules, under their assumptions): a step of `Server` is, for each
component, a step of its module or none (`EachComponentSteps`), so that the server implements every module:
`ServerImplementsComponents`. `ServerTypeCorrect` and `ServerKeepsItsWord` then carry every invariant and action property
of the run `server` from the modules to the server.

Only model-checked: the three liveness properties (`EveryStateSettles`, `StopEndsTheThread`, `SeenUnlessStuck`), since liveness under
fairness and `ENABLED` are out of the prover's reach. Every other property of a passing run is a theorem.
Inductions over data are out of reach too, so the models avoid them: what is kept of a list is chosen by its positions and
not with `SelectSeq` (a primitive without a definition for the prover), and no module declares a recursive operator.

## 5. What is not modelled, and why

* **asyncio server**: a reload replaces objects that each request reads once, and a shutdown cancels the
  tasks it tracks. Two things were met by reading: `reload_scoped` shuts the executor of the magnet requests
  with `cancel_futures=True`, so that requests in progress fail, and a shutdown returns at once
  when an accepted connection's task has not started. Each would be one property of one step.
* **WAF evaluation**: the rules, the scores and the counters of a single process (sequential).
* **Active Defense**: the decay and the levels of a score, the choice of a decoy and the deferral of the
  assignments in the writer, the retention of closed incidents and histories, the exports.
* **RIPOSTE**: the conditions of a policy, the cap over all sources in `RiposteHistory`
  (`RiposteActions` has it), the scenarios, the measure, the audit trail.
* **Proxy**: routing rules, strategies, load scores, headers.
* **Supervision**: the choice of the engine at the start and the fallback to Python, the
  handshake.
* **Backups**: their creation, list and deletion; files that are not bases.
* **Logs**: the archives, and the descriptor a logger keeps on a replaced file.
* **C++ front end**: the parser, TLS, static files, the rules and the filter of the WAF, the rate limit, the
  reading of the blocklist, the stop and its drain, a security stage that is switched off.
* **Configuration** (pure, sequential),
  **uploads, TLS, authentication, static files** (one request at a time, I/O and parsing), **interfaces**
  (presentation; the operations they start are actions of the modules above).
