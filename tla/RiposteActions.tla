---------------------------- MODULE RiposteActions ----------------------------
(***************************************************************************)
(* RIPOSTE's actions: the one RIPOSTE process decides on events, registers *)
(* an action, puts it in place (a ban in the blocklist file, a decoy in    *)
(* the assignments of Active Defense), runs the operator's commands and    *)
(* reconciles its registry with what is really in place.  The WAF, Active  *)
(* Defense and the operators change the same blocklist and the same        *)
(* assignments; the process dies at any moment and is started again.       *)
(*                                                                         *)
(* An action is its rank in the registry.  A policy is the kind of action  *)
(* it takes.  Instants are ticks; windows of 30 days and more (recidive,   *)
(* retention) are longer than a run.                                       *)
(***************************************************************************)
EXTENDS Naturals, Sequences, FiniteSets

CONSTANTS
    Ip,            \* the sources
    Agent,         \* User-Agent fingerprints: a subject is a source and an agent
    Kinds,         \* the actions the policies take
    Tiers,         \* durations of the successive bans of a source
    DecoyTime,     \* duration of a decoy
    MaxActiveBans, \* max_active_bans
    MaxPerSource,  \* max_active_per_source of the policies
    MaxTime,       \* bound: the clock
    MaxActions,    \* bound: actions registered
    MaxCommands,   \* bound: commands deposited
    MaxCrashes,    \* bound: deaths of the process
    MaxOutside     \* bound: changes of the file and of the assignments by others

ASSUME ActionsAssumption ==
    /\ Kinds \subseteq {"ban", "decoy"}
    /\ Tiers \in Seq(Nat \ {0}) /\ Tiers # <<>>
    /\ DecoyTime \in Nat \ {0}
    /\ {MaxActiveBans, MaxPerSource, MaxTime, MaxActions, MaxCommands, MaxCrashes, MaxOutside} \subseteq Nat

VARIABLES
    now,
    \* what is really in place
    blocklist,     \* the entry of each source in the blocklist file
    assignments,   \* the decoy of each subject
    access,        \* whether RIPOSTE can read the file: "readable", "unreadable", "unreachable"
    \* the RIPOSTE database
    actions,       \* the registry
    history,       \* the memory of each source
    exempt,        \* sources exempted by "lift and exempt"
    commands,      \* deposited and not finished
    stopped,       \* the emergency stop
    \* the RIPOSTE process
    pc,
    targets,       \* the mechanisms its configuration makes available
    view,          \* actions whose entry was in the list it read last
    fresh,         \* the file has not changed since
    quota,         \* commands left to run in this tick
    todo,          \* actions left to reconcile or to revoke
    left,          \* subjects left to assign or to release
    seen,          \* emergency stop and exemptions, read once per batch of events
    work,          \* the action it works on
    memory,        \* the memory of the source it works on
    \* history variables and bounds
    orphans,       \* actions closed while they were in place, by the paths that do not look
    cleared,       \* a revoke_all ended well during the emergency stop that still lasts
    forgotten,     \* actions the process died on before it saved their source
    deposited, crashes, outside

places   == <<blocklist, assignments, access>>
base     == <<actions, history, exempt, commands, stopped>>
reading  == <<targets, view, fresh>>
control  == <<quota, todo, left, seen, work, memory>>
ghosts   == <<orphans, cleared, forgotten, deposited, crashes, outside>>
vars     == <<now, places, base, pc, reading, control, ghosts>>

Forever == MaxTime + 1
Id      == 1..MaxActions
Subject == Ip \X Agent

NoEntry  == [source |-> "none", action |-> 0, expires |-> 0]
NoDecoy  == [action |-> 0, same |-> FALSE, expires |-> 0]
NoWork   == [id |-> 0, result |-> "", placed |-> {}]
NoMemory == [decided |-> FALSE, past |-> {}]
NotSeen  == [stop |-> FALSE, exempt |-> {}]

\* Mutant of InProgress: an action that cannot be checked is forgotten.
InProgressIfKnown(a) == a.state \in {"pending", "applied"}

InProgress(a) == a.state \in {"pending", "applied", "unknown"}
Finished(a)   == ~InProgress(a)
Running       == {i \in DOMAIN actions : InProgress(actions[i])}
RunningBans   == {i \in Running : actions[i].kind = "ban"}
RunningFor(ip) == {i \in Running : actions[i].ip = ip}

Earliest(m, n) == IF m <= n THEN m ELSE n

Init ==
    /\ now = 0
    /\ blocklist = [ip \in Ip |-> NoEntry] /\ assignments = [s \in Subject |-> NoDecoy]
    /\ access = "readable"
    /\ actions = <<>> /\ history = [ip \in Ip |-> NoMemory] /\ exempt = {} /\ commands = <<>>
    /\ stopped = FALSE
    /\ pc = "down" /\ targets = Kinds /\ view = {} /\ fresh = FALSE
    /\ quota = 0 /\ todo = {} /\ left = {} /\ seen = NotSeen /\ work = NoWork /\ memory = NoMemory
    /\ orphans = {} /\ cleared = FALSE /\ forgotten = {} /\ deposited = 0 /\ crashes = 0 /\ outside = 0

-----------------------------------------------------------------------------
(* The blocklist file, as RIPOSTE reads and writes it.                      *)

InForce(e) == e.source # "none" /\ now < e.expires

\* is_stronger_entry: e is kept rather than replaced by an entry of a machine.
Stronger(e, expires) ==
    /\ InForce(e)
    /\ e.source = "manual" \/ e.expires >= expires

Listed == {blocklist[ip].action : ip \in Ip} \ {0}

\* Mutant of SeesList: an unreachable file is read as an unreadable one.
SeesSomeList(ids) ==
    /\ ids = IF access = "readable" \/ fresh THEN Listed ELSE view
    /\ view' = ids
    /\ fresh' = (access = "readable" \/ fresh)

\* _load for a reader: an unreadable file gives the last list that was read, and
\* an empty one to a process that has read none.  An unreachable one raises.
SeesList(ids) ==
    /\ access # "unreachable"
    /\ ids = IF access = "readable" \/ fresh THEN Listed ELSE view
    /\ view' = ids
    /\ fresh' = (access = "readable" \/ fresh)

\* _load for a writer: an unreadable file can be written only when unchanged.
CanWrite == access = "readable" \/ (access = "unreadable" /\ fresh)

\* The file becomes the list l, written by RIPOSTE under the lock.
WriteList(l) ==
    /\ CanWrite
    /\ blocklist' = l
    /\ access' = "readable"
    /\ view' = {l[ip].action : ip \in Ip} \ {0} /\ fresh' = TRUE

\* The list was read for a write that is not needed.
LeaveList ==
    /\ CanWrite
    /\ view' = Listed /\ fresh' = TRUE
    /\ UNCHANGED <<blocklist, access>>

\* Reading or writing raises OSError: nothing is written.
ListFails == UNCHANGED <<blocklist, access, view, fresh>>

Ours(i, s) == assignments[s].action = i /\ now < assignments[s].expires

\* The action really holds at this instant, whatever the registry says.
InPlace(i) ==
    \/ \E ip \in Ip : blocklist[ip].action = i /\ InForce(blocklist[ip])
    \/ \E s \in Subject : Ours(i, s)

-----------------------------------------------------------------------------
(* The process starts and dies.                                             *)

\* Its first work is to reconcile, before any command and any event.
Start ==
    /\ pc = "down"
    /\ pc' = "booting"
    /\ todo' = Running
    /\ UNCHANGED <<now, places, base, reading, quota, left, seen, work, memory, ghosts>>

\* Killed, or an error of SQLite (no OSError: nothing catches it).
Die ==
    /\ pc # "down" /\ crashes < MaxCrashes
    /\ crashes' = crashes + 1
    /\ pc' = "down"
    /\ forgotten' = IF pc \in {"applying", "recording", "remembering"} THEN forgotten \cup {work.id} ELSE forgotten
    /\ view' = {} /\ fresh' = FALSE
    /\ quota' = 0 /\ todo' = {} /\ left' = {} /\ seen' = NotSeen /\ work' = NoWork /\ memory' = NoMemory
    /\ UNCHANGED <<now, places, base, targets, orphans, cleared, deposited, outside>>

-----------------------------------------------------------------------------
(* Reconciliation: at the start, then every minute after the commands.      *)

Close(i, state, detail) ==
    actions' = [actions EXCEPT ![i].state = state, ![i].detail = detail]

\* What an action that has not ended becomes, seen in place or not.
Verdict(a, inPlace) ==
    CASE inPlace -> [a EXCEPT !.state = "applied", !.detail = ""]
      [] ~inPlace /\ a.state = "pending" -> [a EXCEPT !.state = "failed", !.detail = "interrupted"]
      [] OTHER -> [a EXCEPT !.state = "revoked", !.detail = "removed_outside"]

\* The paths that close an action without seeing whether it is in place: its
\* mechanism is inactive, the list is an old one, the subjects are not known.
Blind(a) ==
    \/ a.kind \notin targets
    \/ a.kind = "ban" /\ access = "unreadable" /\ ~fresh
    \/ a.kind = "decoy" /\ a.state = "pending"

Orphaned(i) == IF Blind(actions[i]) /\ InPlace(i) THEN orphans \cup {i} ELSE orphans

Judge(i, inPlace) ==
    /\ actions' = [actions EXCEPT ![i] = Verdict(actions[i], inPlace)]
    /\ orphans' = IF inPlace THEN orphans ELSE Orphaned(i)

ExpireAction(i) ==
    /\ now >= actions[i].ends
    /\ Close(i, "expired", actions[i].detail)
    /\ UNCHANGED <<view, fresh, orphans>>

JudgeBan(i) ==
    /\ now < actions[i].ends /\ actions[i].kind = "ban"
    /\ \/ /\ "ban" \notin targets
          /\ Judge(i, FALSE) /\ UNCHANGED <<view, fresh>>
       \/ /\ "ban" \in targets
          /\ \E ids \in SUBSET DOMAIN actions : SeesList(ids) /\ Judge(i, i \in ids)
       \/ /\ "ban" \in targets /\ access = "unreachable"
          /\ Close(i, "unknown", "check_failed")
          /\ UNCHANGED <<view, fresh, orphans>>

\* Only the subjects the registry knows are looked at.
JudgeDecoy(i) ==
    /\ now < actions[i].ends /\ actions[i].kind = "decoy"
    /\ Judge(i, "decoy" \in targets /\ \E s \in actions[i].subjects : Ours(i, s))
    /\ UNCHANGED <<view, fresh>>

Reconcile(i) ==
    /\ pc \in {"booting", "reconciling"} /\ i \in todo
    /\ ExpireAction(i) \/ JudgeBan(i) \/ JudgeDecoy(i)
    /\ todo' = todo \ {i}
    /\ UNCHANGED <<now, places, history, exempt, commands, stopped, pc, targets,
                   quota, left, seen, work, memory, cleared, forgotten, deposited, crashes, outside>>

Booted ==
    /\ pc = "booting" /\ todo = {}
    /\ pc' = "idle"
    /\ UNCHANGED <<now, places, base, reading, control, ghosts>>

-----------------------------------------------------------------------------
(* A turn of the loop: the commands found, the reconciliation when it is    *)
(* due, then a batch of events.                                             *)

\* The configuration is read again, for a command or for a SIGHUP: the targets
\* are built again, with a blocklist that has read nothing.
Reload == targets' \in SUBSET Kinds /\ view' = {} /\ fresh' = FALSE

Tick ==
    /\ pc = "idle"
    /\ pc' = "commanding" /\ quota' = Len(commands)
    /\ UNCHANGED <<now, places, base, reading, todo, left, seen, work, memory, ghosts>>

StartReconcile ==
    /\ pc = "commanding" /\ quota = 0
    /\ pc' = "reconciling" /\ todo' = Running
    /\ UNCHANGED <<now, places, base, reading, quota, left, seen, work, memory, ghosts>>

\* Mutant of StartBatch: the events come before the commands.
StartBatchFirst ==
    /\ pc = "idle"
    /\ pc' = "handling" /\ seen' = [stop |-> stopped, exempt |-> exempt]
    /\ UNCHANGED <<now, places, base, reading, quota, todo, left, work, memory, ghosts>>

\* The journals gave a batch of events, maybe none.  The emergency stop and the
\* exemptions are read once for the whole batch.
StartBatch ==
    /\ \/ pc = "commanding" /\ quota = 0
       \/ pc = "reconciling" /\ todo = {}
    /\ pc' = "handling" /\ seen' = [stop |-> stopped, exempt |-> exempt]
    /\ UNCHANGED <<now, places, base, reading, quota, todo, left, work, memory, ghosts>>

Command == Head(commands)

\* Mutant of Finish: the commands left to run are not counted down.
FinishUncounted(done) ==
    /\ commands' = Tail(commands) /\ UNCHANGED quota
    /\ pc' = "commanding" /\ work' = NoWork /\ todo' = {}
    /\ cleared' = (cleared \/ (done /\ Command.kind = "revoke_all" /\ stopped))

\* finish_command: the command leaves, well or badly done.
Finish(done) ==
    /\ commands' = Tail(commands) /\ quota' = quota - 1
    /\ pc' = "commanding" /\ work' = NoWork /\ todo' = {}
    /\ cleared' = (cleared \/ (done /\ Command.kind = "revoke_all" /\ stopped))

\* The command is marked begun, for the properties only.
Begin(kinds) ==
    /\ pc = "commanding" /\ quota > 0 /\ Command.kind \in kinds

\* Mutant of RunRevoke: an action that has ended is lifted too.
RunRevokeAnyway ==
    /\ Begin({"revoke"})
    /\ work' = [NoWork EXCEPT !.id = Command.action]
    /\ pc' = "lifting" /\ left' = actions[Command.action].subjects
    /\ commands' = [commands EXCEPT ![1].begun = TRUE]
    /\ UNCHANGED <<now, places, actions, history, exempt, stopped, reading, quota, todo, seen, memory, ghosts>>

\* revoke: one action, whose lifting is skipped when it has ended.
RunRevoke ==
    /\ Begin({"revoke"})
    /\ LET i == Command.action IN
        /\ work' = [NoWork EXCEPT !.id = i]
        /\ pc' = IF InProgress(actions[i]) THEN "lifting" ELSE "ending"
        /\ left' = IF InProgress(actions[i]) THEN actions[i].subjects ELSE {}
    /\ commands' = [commands EXCEPT ![1].begun = TRUE]
    /\ UNCHANGED <<now, places, actions, history, exempt, stopped, reading, quota, todo, seen, memory, ghosts>>

\* revoke_policy and revoke_all: the actions running then, one after the other.
RunRevokeMany ==
    /\ Begin({"revoke_policy", "revoke_all"})
    /\ todo' = {i \in Running : Command.kind = "revoke_all" \/ actions[i].kind = Command.policy}
    /\ pc' = "revoking"
    /\ UNCHANGED <<now, places, base, reading, quota, left, seen, work, memory, ghosts>>

RevokeNext ==
    /\ pc = "revoking"
    /\ \E i \in todo :
        /\ todo' = todo \ {i}
        /\ work' = [NoWork EXCEPT !.id = i]
        /\ left' = actions[i].subjects
    /\ pc' = "lifting"
    /\ UNCHANGED <<now, places, base, reading, quota, seen, memory, ghosts>>

RevokedMany ==
    /\ pc = "revoking" /\ todo = {}
    /\ Finish(TRUE)
    /\ UNCHANGED <<now, places, actions, history, exempt, stopped, reading, left, seen, memory,
                   orphans, forgotten, deposited, crashes, outside>>

\* Mutant of LiftBan: the entry of the source goes, whoever placed it.
LiftBanOfAnybody ==
    /\ pc = "lifting" /\ actions[work.id].kind = "ban" /\ "ban" \in targets
    /\ WriteList([blocklist EXCEPT ![actions[work.id].ip] = NoEntry])
    /\ pc' = "saving"
    /\ UNCHANGED <<now, assignments, base, targets, control, ghosts>>

\* RiposteActuator.revoke, a ban: the entry goes only when it is its own.
LiftBan ==
    LET i == work.id IN
    /\ pc = "lifting" /\ actions[i].kind = "ban" /\ "ban" \in targets
    /\ IF i \in Listed
       THEN WriteList([ip \in Ip |-> IF blocklist[ip].action = i THEN NoEntry ELSE blocklist[ip]])
       ELSE LeaveList
    /\ pc' = "saving"
    /\ UNCHANGED <<now, assignments, base, targets, control, ghosts>>

\* Mutant of LiftFails: the error is swallowed.
LiftFailsInSilence ==
    /\ pc = "lifting" /\ actions[work.id].kind = "ban" /\ "ban" \in targets
    /\ ListFails
    /\ Finish(TRUE)
    /\ UNCHANGED <<now, assignments, actions, history, exempt, stopped, targets, left, seen, memory,
                   orphans, forgotten, deposited, crashes, outside>>

\* The list cannot be read or written: the command fails as a whole.
LiftFails ==
    /\ pc = "lifting" /\ actions[work.id].kind = "ban" /\ "ban" \in targets
    /\ ListFails
    /\ Finish(FALSE)
    /\ UNCHANGED <<now, assignments, actions, history, exempt, stopped, targets, left, seen, memory,
                   orphans, forgotten, deposited, crashes, outside>>

\* Mutant of Release: only one subject is released.
ReleaseOne ==
    /\ pc = "lifting" /\ actions[work.id].kind = "decoy" /\ "decoy" \in targets
    /\ \E s \in left :
        assignments' = IF Ours(work.id, s) THEN [assignments EXCEPT ![s] = NoDecoy] ELSE assignments
    /\ left' = {}
    /\ UNCHANGED <<now, blocklist, access, base, pc, reading, quota, todo, seen, work, memory, ghosts>>

\* A decoy: each of its subjects whose assignment is still the one it placed.
Release ==
    /\ pc = "lifting" /\ actions[work.id].kind = "decoy" /\ "decoy" \in targets
    /\ \E s \in left :
        /\ left' = left \ {s}
        /\ assignments' = IF Ours(work.id, s) THEN [assignments EXCEPT ![s] = NoDecoy] ELSE assignments
    /\ UNCHANGED <<now, blocklist, access, base, pc, reading, quota, todo, seen, work, memory, ghosts>>

Lifted ==
    LET kind == actions[work.id].kind IN
    /\ pc = "lifting"
    /\ kind \notin targets \/ (kind = "decoy" /\ left = {})
    /\ pc' = "saving" /\ left' = {}
    /\ UNCHANGED <<now, places, base, reading, quota, todo, seen, work, memory, ghosts>>

SaveRevoked ==
    /\ pc = "saving"
    /\ Close(work.id, "revoked", actions[work.id].detail)
    /\ orphans' = IF actions[work.id].kind \in targets THEN orphans ELSE Orphaned(work.id)
    /\ pc' = "ending"
    /\ UNCHANGED <<now, places, history, exempt, commands, stopped, reading, control,
                   cleared, forgotten, deposited, crashes, outside>>

\* _update_history: when asked, the action counts no more.
EndInHistory ==
    /\ pc = "ending"
    /\ history' = [history EXCEPT ![actions[work.id].ip].past =
            {[p EXCEPT !.counts = p.counts /\ ~(p.id = work.id /\ Command.notRecidive)] : p \in @}]
    /\ pc' = IF Command.kind \in {"revoke", "not_recidive"} THEN "excluding" ELSE "revoking"
    /\ UNCHANGED <<now, places, actions, exempt, commands, stopped, reading, control, ghosts>>

\* "Does not count" is written in the registry after the memory of the source.
Exclude ==
    /\ pc = "excluding"
    /\ actions' = IF Command.notRecidive THEN [actions EXCEPT ![work.id].counts = FALSE] ELSE actions
    /\ pc' = "exempting"
    /\ UNCHANGED <<now, places, history, exempt, commands, stopped, reading, control, ghosts>>

ExemptSource ==
    /\ pc = "exempting"
    /\ exempt' = IF Command.exempt THEN exempt \cup {actions[work.id].ip} ELSE exempt
    /\ pc' = "finishing"
    /\ UNCHANGED <<now, places, actions, history, commands, stopped, reading, control, ghosts>>

RevokedOne ==
    /\ pc = "finishing"
    /\ Finish(TRUE)
    /\ UNCHANGED <<now, places, actions, history, exempt, stopped, reading, left, seen, memory,
                   orphans, forgotten, deposited, crashes, outside>>

\* not_recidive follows the end of revoke without lifting anything.
RunNotRecidive ==
    /\ Begin({"not_recidive"})
    /\ work' = [NoWork EXCEPT !.id = Command.action]
    /\ pc' = "ending"
    /\ UNCHANGED <<now, places, base, reading, quota, todo, left, seen, memory, ghosts>>

\* Mutant of RunForgetSource: a running action does not refuse it.
ForgetSourceAnyway ==
    /\ Begin({"forget_source"})
    /\ history' = [ip \in Ip |-> IF ip \in Command.ips THEN NoMemory ELSE history[ip]]
    /\ Finish(TRUE)
    /\ UNCHANGED <<now, places, actions, exempt, stopped, reading, left, seen, memory,
                   orphans, forgotten, deposited, crashes, outside>>

\* forget_source: refused while an action of the source is running.
RunForgetSource ==
    /\ Begin({"forget_source"})
    /\ history' = [ip \in Ip |-> IF ip \in Command.ips /\ RunningFor(ip) = {} THEN NoMemory ELSE history[ip]]
    /\ Finish(TRUE)
    /\ UNCHANGED <<now, places, actions, exempt, stopped, reading, left, seen, memory,
                   orphans, forgotten, deposited, crashes, outside>>

RunRemoveExemption ==
    /\ Begin({"remove_exemption"})
    /\ exempt' = exempt \ Command.ips
    /\ Finish(TRUE)
    /\ UNCHANGED <<now, places, actions, history, stopped, reading, left, seen, memory,
                   orphans, forgotten, deposited, crashes, outside>>

\* reload: refused when the new configuration cannot be used.
RunReload ==
    /\ Begin({"reload"})
    /\ Reload \/ UNCHANGED reading
    /\ Finish(TRUE)
    /\ UNCHANGED <<now, places, actions, history, exempt, stopped, left, seen, memory,
                   orphans, forgotten, deposited, crashes, outside>>

-----------------------------------------------------------------------------
(* Events, one after the other.                                             *)

EndBatch ==
    /\ pc = "handling"
    /\ pc' = "idle" /\ seen' = NotSeen
    /\ UNCHANGED <<now, places, base, reading, quota, todo, left, work, memory, ghosts>>

\* apply_event: the event belongs to the last episode of the source or starts a
\* new one.  The silence that starts one may always have been long enough, so
\* the other reason, the end of the last action, adds nothing.
Observe(h, starts) == [h EXCEPT !.decided = h.decided /\ ~starts]

\* Mutant of MayAct: the emergency stop is not looked at.
MayActStopped(ip, h, kind) ==
    /\ ip \notin seen.exempt
    /\ ~h.decided
    /\ Cardinality(RunningFor(ip)) < MaxPerSource
    /\ kind = "ban" => Cardinality(RunningBans) < MaxActiveBans

\* decide: the safeguards, in the order of the code.
MayAct(ip, h, kind) ==
    /\ ~seen.stop
    /\ ip \notin seen.exempt
    /\ ~h.decided
    /\ Cardinality(RunningFor(ip)) < MaxPerSource
    /\ kind = "ban" => Cardinality(RunningBans) < MaxActiveBans

\* next_tier_index: one tier further for each action that counts.
Tier(h) == Earliest(Cardinality({p \in h.past : p.counts}) + 1, Len(Tiers))

Duration(h, kind) == IF kind = "ban" THEN Tiers[Tier(h)] ELSE DecoyTime

\* No decision to act: only the memory of the source is saved.
LetPass(ip, starts) ==
    /\ pc = "handling"
    /\ history' = [history EXCEPT ![ip] = Observe(@, starts)]
    /\ UNCHANGED <<now, places, actions, exempt, commands, stopped, pc, reading, control, ghosts>>

\* The first policy whose conditions hold takes this kind of action: it is
\* registered as pending before anything is done.
Decide(ip, starts, kind, subjects) ==
    LET h == Observe(history[ip], starts) IN
    /\ pc = "handling" /\ Len(actions) < MaxActions
    /\ MayAct(ip, h, kind)
    /\ actions' = Append(actions, [ip |-> ip, kind |-> kind, ends |-> now + Duration(h, kind),
                                   state |-> "pending", subjects |-> {}, detail |-> "", counts |-> kind = "ban"])
    /\ work' = [NoWork EXCEPT !.id = Len(actions) + 1]
    /\ left' = IF kind = "decoy" THEN {ip} \X subjects ELSE {}
    /\ memory' = h
    /\ pc' = "applying"
    /\ UNCHANGED <<now, places, history, exempt, commands, stopped, reading, quota, todo, seen, ghosts>>

Result(result) == work' = [work EXCEPT !.result = result] /\ pc' = "recording"

\* add_entry_unless_stronger; without the mechanism, or with an error of the
\* file, the action fails.
ApplyBan ==
    LET a == actions[work.id] IN
    /\ pc = "applying" /\ a.kind = "ban"
    /\ \/ ListFails /\ Result("failed")
       \/ /\ "ban" \in targets /\ Stronger(blocklist[a.ip], a.ends)
          /\ LeaveList /\ Result("failed")
       \/ /\ "ban" \in targets /\ ~Stronger(blocklist[a.ip], a.ends)
          /\ WriteList([blocklist EXCEPT ![a.ip] = [source |-> "riposte", action |-> work.id, expires |-> a.ends]])
          /\ Result("applied")
    /\ UNCHANGED <<now, assignments, base, targets, quota, todo, left, seen, memory, ghosts>>

\* assign_or_extend_deception, one subject: a running decoy of another profile,
\* or a longer one, stays.  Two instants are never equal.
AssignDecoy ==
    LET a == actions[work.id] IN
    /\ pc = "applying" /\ a.kind = "decoy" /\ "decoy" \in targets
    /\ \E s \in left :
        LET d == assignments[s] IN
        /\ left' = left \ {s}
        /\ IF now < d.expires /\ (~d.same \/ d.expires >= a.ends)
           THEN UNCHANGED <<assignments, work>>
           ELSE /\ assignments' = [assignments EXCEPT ![s] = [action |-> work.id, same |-> TRUE, expires |-> a.ends]]
                /\ work' = [work EXCEPT !.placed = @ \cup {s}]
    /\ UNCHANGED <<now, blocklist, access, base, pc, reading, quota, todo, seen, memory, ghosts>>

DecoyAssigned ==
    /\ pc = "applying" /\ actions[work.id].kind = "decoy"
    /\ "decoy" \notin targets \/ left = {}
    /\ Result(IF work.placed = {} THEN "failed" ELSE "applied")
    /\ left' = {}
    /\ UNCHANGED <<now, places, base, reading, quota, todo, seen, memory, ghosts>>

SaveResult ==
    /\ pc = "recording"
    /\ actions' = [actions EXCEPT ![work.id].state = work.result, ![work.id].subjects = work.placed]
    /\ pc' = "remembering"
    /\ UNCHANGED <<now, places, history, exempt, commands, stopped, reading, control, ghosts>>

\* record_action, or mark_episode_decided when nothing was put in place.
SaveSource ==
    LET a == actions[work.id]
        past == [id |-> work.id, counts |-> a.counts] IN
    /\ pc = "remembering"
    /\ history' = [history EXCEPT ![a.ip] =
            [decided |-> TRUE,
             past |-> IF work.result = "applied" THEN memory.past \cup {past} ELSE memory.past]]
    /\ pc' = "handling" /\ work' = NoWork /\ memory' = NoMemory
    /\ UNCHANGED <<now, places, actions, exempt, commands, stopped, reading, quota, todo, left, seen, ghosts>>

-----------------------------------------------------------------------------
(* Everybody else.                                                          *)

TimePasses ==
    /\ now < MaxTime
    /\ now' = now + 1
    /\ UNCHANGED <<places, base, pc, reading, control, ghosts>>

Meddle == outside < MaxOutside /\ outside' = outside + 1

\* The file is written by someone else than RIPOSTE.
WrittenOutside(l) ==
    /\ Meddle
    /\ blocklist' = l /\ fresh' = FALSE
    /\ UNCHANGED <<now, assignments, access, base, pc, targets, view, control, orphans, cleared, forgotten, deposited, crashes>>

\* The command line, the interface: a manual ban always replaces.
BanByHand(ip, expires) ==
    WrittenOutside([blocklist EXCEPT ![ip] = [source |-> "manual", action |-> 0, expires |-> expires]])

LiftByHand(ip) ==
    /\ blocklist[ip] # NoEntry
    /\ WrittenOutside([blocklist EXCEPT ![ip] = NoEntry])

\* The WAF of a worker: never over a stronger entry.
AutoBan(ip) ==
    /\ access = "readable" /\ ~Stronger(blocklist[ip], now + 1)
    /\ WrittenOutside([blocklist EXCEPT ![ip] = [source |-> "auto", action |-> 0, expires |-> now + 1]])

\* The file, or its directory, gets other rights, with or without a rewrite.
LoseAccess(to) ==
    /\ Meddle
    /\ access = "readable"
    /\ access' = to /\ fresh' \in {fresh, FALSE}
    /\ UNCHANGED <<now, blocklist, assignments, base, pc, targets, view, control, orphans, cleared, forgotten, deposited, crashes>>

RegainAccess ==
    /\ access # "readable"
    /\ access' = "readable"
    /\ UNCHANGED <<now, blocklist, assignments, base, pc, reading, control, ghosts>>

\* Active Defense assigns, its write deferred since it saw no assignment.
DecoyByActiveDefense(s, same) ==
    /\ Meddle
    /\ assignments' = [assignments EXCEPT ![s] = [action |-> 0, same |-> same, expires |-> now + 1]]
    /\ UNCHANGED <<now, blocklist, access, base, pc, reading, control, orphans, cleared, forgotten, deposited, crashes>>

ReleaseByHand(s) ==
    /\ Meddle
    /\ assignments[s] # NoDecoy
    /\ assignments' = [assignments EXCEPT ![s] = NoDecoy]
    /\ UNCHANGED <<now, blocklist, access, base, pc, reading, control, orphans, cleared, forgotten, deposited, crashes>>

\* The operator deposits a command; it may be of no use when it runs.  Only Tick
\* looks at the new commands, so one deposited during a turn of the loop is
\* shown at the end of the turn.
Deposit(command) ==
    /\ pc \in {"idle", "down"}
    /\ deposited < MaxCommands
    /\ deposited' = deposited + 1
    /\ commands' = Append(commands, command)
    /\ UNCHANGED <<now, places, actions, history, exempt, stopped, pc, reading, control,
                   orphans, cleared, forgotten, crashes, outside>>

CommandOf(kind) ==
    [kind |-> kind, action |-> 0, ips |-> {}, policy |-> "", exempt |-> FALSE,
     notRecidive |-> kind = "not_recidive", begun |-> FALSE]

DepositRevoke(i, exempting, notRecidive) ==
    Deposit([CommandOf("revoke") EXCEPT !.action = i, !.exempt = exempting, !.notRecidive = notRecidive])
DepositRevokePolicy(kind) == Deposit([CommandOf("revoke_policy") EXCEPT !.policy = kind])
DepositRevokeAll          == Deposit(CommandOf("revoke_all"))
DepositNotRecidive(i)     == Deposit([CommandOf("not_recidive") EXCEPT !.action = i])
DepositForgetSource(ip)   == Deposit([CommandOf("forget_source") EXCEPT !.ips = {ip}])
DepositRemoveExemption(ip) == Deposit([CommandOf("remove_exemption") EXCEPT !.ips = {ip}])
DepositReload             == Deposit(CommandOf("reload"))

\* emergency_stop and resume set a flag of the base, no command.
EmergencyStop ==
    /\ ~stopped
    /\ stopped' = TRUE
    /\ UNCHANGED <<now, places, actions, history, exempt, commands, pc, reading, control, ghosts>>

Resume ==
    /\ stopped
    /\ stopped' = FALSE /\ cleared' = FALSE
    /\ UNCHANGED <<now, places, actions, history, exempt, commands, pc, reading, control,
                   orphans, forgotten, deposited, crashes, outside>>

\* An exemption of a day or a week ends.
ExemptionEnds(ip) ==
    /\ ip \in exempt
    /\ exempt' = exempt \ {ip}
    /\ UNCHANGED <<now, places, actions, history, commands, stopped, pc, reading, control, ghosts>>

-----------------------------------------------------------------------------
Commanding ==
    \/ Tick \/ StartReconcile
    \/ RunRevoke \/ RunRevokeMany \/ RevokeNext \/ RevokedMany
    \/ LiftBan \/ LiftFails \/ Release \/ Lifted \/ SaveRevoked
    \/ EndInHistory \/ Exclude \/ ExemptSource \/ RevokedOne
    \/ RunNotRecidive \/ RunForgetSource \/ RunRemoveExemption \/ RunReload

Handling ==
    \/ StartBatch \/ EndBatch
    \/ \E ip \in Ip, starts \in BOOLEAN :
        \/ LetPass(ip, starts)
        \/ \E kind \in Kinds, subjects \in SUBSET Agent : Decide(ip, starts, kind, subjects)
    \/ ApplyBan \/ AssignDecoy \/ DecoyAssigned \/ SaveResult \/ SaveSource

Riposte ==
    \/ Start \/ Die
    \/ (\E i \in Id : Reconcile(i)) \/ Booted
    \/ Commanding \/ Handling

Operator ==
    \/ \E i \in DOMAIN actions :
        \/ \E exempting, notRecidive \in BOOLEAN : DepositRevoke(i, exempting, notRecidive)
        \/ DepositNotRecidive(i)
    \/ \E kind \in Kinds : DepositRevokePolicy(kind)
    \/ DepositRevokeAll \/ DepositReload
    \/ \E ip \in Ip : DepositForgetSource(ip) \/ DepositRemoveExemption(ip)
    \/ EmergencyStop \/ Resume

Others ==
    \/ TimePasses
    \/ \E ip \in Ip :
        \/ \E expires \in {now + 1, Forever} : BanByHand(ip, expires)
        \/ LiftByHand(ip) \/ AutoBan(ip) \/ ExemptionEnds(ip)
    \/ (\E to \in {"unreadable", "unreachable"} : LoseAccess(to)) \/ RegainAccess
    \/ \E s \in Subject : (\E same \in BOOLEAN : DecoyByActiveDefense(s, same)) \/ ReleaseByHand(s)

Next == Riposte \/ Operator \/ Others

Spec == Init /\ [][Next]_vars

-----------------------------------------------------------------------------
(* Properties.                                                              *)

Entry  == [source : {"none", "manual", "auto", "riposte"}, action : Nat, expires : Nat]
Decoy  == [action : Nat, same : BOOLEAN, expires : Nat]
Action == [ip : Ip, kind : Kinds, ends : Nat, subjects : SUBSET Subject, counts : BOOLEAN,
           state : {"pending", "applied", "failed", "expired", "revoked", "unknown"},
           detail : {"", "interrupted", "removed_outside", "check_failed"}]
Memory == [decided : BOOLEAN, past : SUBSET [id : Id, counts : BOOLEAN]]

TypeOK ==
    /\ now \in 0..MaxTime
    /\ blocklist \in [Ip -> Entry] /\ assignments \in [Subject -> Decoy]
    /\ access \in {"readable", "unreadable", "unreachable"}
    /\ actions \in Seq(Action) /\ Len(actions) <= MaxActions
    /\ history \in [Ip -> Memory] /\ exempt \subseteq Ip /\ stopped \in BOOLEAN
    /\ Len(commands) <= MaxCommands
    /\ pc \in {"down", "booting", "idle", "commanding", "revoking", "lifting", "saving", "ending", "excluding",
               "exempting", "finishing", "reconciling", "handling", "applying", "recording",
               "remembering"}
    /\ targets \subseteq Kinds /\ view \subseteq DOMAIN actions /\ fresh \in BOOLEAN
    /\ quota \in 0..Len(commands) /\ todo \subseteq DOMAIN actions /\ left \subseteq Subject
    /\ seen \in [stop : BOOLEAN, exempt : SUBSET Ip]
    /\ work.id \in {0} \cup DOMAIN actions /\ work.placed \subseteq Subject
    /\ memory \in Memory
    /\ orphans \subseteq DOMAIN actions /\ forgotten \subseteq DOMAIN actions /\ cleared \in BOOLEAN

\* An action that failed or was revoked holds no more: the registry never says
\* it is over while the source is still banned or lured, but for the actions
\* closed by a path that does not look (orphans).
NothingLeftBehind ==
    \A i \in DOMAIN actions :
        actions[i].state \in {"failed", "revoked"} => i \in orphans \/ ~InPlace(i)

\* reconcile, as it is documented: a pending action that is in place is applied.
InterruptedMeansAbsent ==
    \A i \in DOMAIN actions : actions[i].detail = "interrupted" => ~InPlace(i)

\* reconcile, as it is documented: an action that cannot be checked is unknown,
\* only an absent one is revoked.
RemovedOutsideMeansAbsent ==
    \A i \in DOMAIN actions : actions[i].detail = "removed_outside" => ~InPlace(i)

\* The bans of RIPOSTE really in force never exceed max_active_bans, orphans set
\* apart, whatever was lifted, expired or restarted in between.
ActiveBansCapped ==
    Cardinality({ip \in Ip : /\ blocklist[ip].source = "riposte" /\ InForce(blocklist[ip])
                             /\ blocklist[ip].action \notin orphans}) <= MaxActiveBans

\* After a revoke_all that ended well during the emergency stop, and until it is
\* lifted, no action of RIPOSTE holds.
StopClears == cleared => \A i \in DOMAIN actions : InPlace(i) => i \in orphans

\* Both: what the registry gives for over is over, a decoy subject by subject,
\* and a revoke_all that ended well during the emergency stop leaves nothing behind.
OverIsOver == NothingLeftBehind /\ StopClears

\* A ban that was put in place counts for the next tier as long as it runs,
\* unless the process died before it saved the source.
RunningBansAreRemembered ==
    \A i \in RunningBans :
        /\ actions[i].state \in {"applied", "unknown"} /\ i \notin forgotten /\ i # work.id
        => \E p \in history[actions[i].ip].past : p.id = i

\* RIPOSTE never removes or replaces an entry in force of somebody else that is
\* manual or longer than its own, even when the operator has put it in the place
\* of a ban RIPOSTE is lifting.
OthersUntouched ==
    [][\A ip \in Ip :
            blocklist[ip].source \in {"manual", "auto"} /\ InForce(blocklist[ip])
            /\ blocklist'[ip] # blocklist[ip] /\ Riposte =>
                /\ blocklist[ip].source = "auto"
                /\ blocklist'[ip].source = "riposte" /\ blocklist'[ip].expires > blocklist[ip].expires]_vars

\* A finished action stays finished, with the end it had.
FinishedIsFinal ==
    [][\A i \in DOMAIN actions : Finished(actions[i]) =>
            i \in DOMAIN actions' /\ actions'[i].state = actions[i].state]_vars

\* No action is registered against an exempted source, nor between the lifting
\* and the exemption of one "lift and exempt" that a death has interrupted.
ExemptedStaysFree ==
    [][\A i \in DOMAIN actions' \ DOMAIN actions :
            /\ actions'[i].ip \notin exempt
            /\ \A n \in DOMAIN commands :
                commands[n].begun /\ commands[n].exempt => actions[commands[n].action].ip # actions'[i].ip]_vars
=============================================================================
