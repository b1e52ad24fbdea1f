-------------------------- MODULE RiposteActionsProofs --------------------------
(***************************************************************************)
(* Proofs about the actions of RIPOSTE, for every set of sources and of    *)
(* agents, every list of durations, every limit on the actions and any     *)
(* number of commands, deaths and changes made by others.                  *)
(***************************************************************************)
EXTENDS RiposteActions, FiniteSetTheorems, TLAPS

-----------------------------------------------------------------------------
(* The inductive invariant, one conjunct per idea.                          *)

CommandType ==
    [kind : {"revoke", "revoke_policy", "revoke_all", "not_recidive", "forget_source", "remove_exemption", "reload"},
     action : Nat, ips : SUBSET Ip, policy : Kinds \cup {""}, exempt : BOOLEAN, notRecidive : BOOLEAN,
     begun : BOOLEAN]

WorkType == [id : Nat, result : {"", "applied", "failed"}, placed : SUBSET Subject]

\* The stretches of the process: an action being put in place, one being lifted, the end of a command.
Applying == {"applying", "recording"}
Deciding == {"applying", "recording", "remembering"}
Lifting  == {"lifting", "saving"}
Revoking == {"revoking", "lifting", "saving", "ending"}
Ending   == {"excluding", "exempting", "finishing"}

TypeInv ==
    /\ TypeOK
    /\ commands \in Seq(CommandType) /\ work \in WorkType
    /\ deposited \in 0..MaxCommands /\ Len(commands) <= deposited

\* What RIPOSTE has placed comes from an action of the registry, with its source and its end.
EntriesInv ==
    \A ip \in Ip :
        /\ blocklist[ip].action # 0 <=> blocklist[ip].source = "riposte"
        /\ blocklist[ip].action # 0 =>
            /\ blocklist[ip].action \in DOMAIN actions
            /\ actions[blocklist[ip].action].kind = "ban"
            /\ actions[blocklist[ip].action].ip = ip
            /\ actions[blocklist[ip].action].ends = blocklist[ip].expires

\* The registry knows the subjects of a decoy once its result is saved.
DecoysInv ==
    \A s \in Subject : assignments[s].action # 0 =>
        /\ assignments[s].action \in DOMAIN actions
        /\ actions[assignments[s].action].kind = "decoy"
        /\ actions[assignments[s].action].ends = assignments[s].expires
        /\ actions[assignments[s].action].state \in {"applied", "unknown"} =>
            s \in actions[assignments[s].action].subjects

\* Only the first command can have begun, and it is run before the next batch of events.
CommandsInv ==
    /\ \A n \in DOMAIN commands :
        /\ commands[n].kind \in {"revoke", "not_recidive"} => commands[n].action \in DOMAIN actions
        /\ commands[n].begun => n = 1 /\ (quota > 0 \/ pc \in {"down", "booting", "idle"})
    /\ pc \in {"down", "booting", "idle", "reconciling", "handling"} \cup Deciding => quota = 0
    /\ pc \in Revoking \cup Ending => quota > 0
    /\ pc = "revoking" => Command.kind \in {"revoke_policy", "revoke_all"}
    /\ pc \in Lifting => Command.kind \in {"revoke", "revoke_policy", "revoke_all"}
    /\ pc = "ending" => Command.kind \in {"revoke", "revoke_policy", "revoke_all", "not_recidive"}
    /\ pc \in Ending => Command.kind \in {"revoke", "not_recidive"}

\* The action the process works on.
WorkInv ==
    /\ pc \in Lifting \cup {"ending"} \cup Ending \cup Deciding => work.id \in DOMAIN actions
    /\ pc \in Lifting => InProgress(actions[work.id]) /\ work.id \notin todo
    /\ pc \in Applying => actions[work.id].state = "pending"
    /\ pc \in {"recording", "remembering"} => work.result \in {"applied", "failed"}
    /\ pc = "remembering" => actions[work.id].state = work.result
    /\ pc \in Deciding => memory.past = history[actions[work.id].ip].past

\* The actions left to reconcile or to revoke have not ended.
TodoInv ==
    /\ todo \subseteq Running
    /\ pc \in {"down", "idle", "commanding", "handling"} \cup Deciding => todo = {}

\* An action is pending while it is put in place, or since a death until the next start.
PendingInv ==
    \A i \in DOMAIN actions : actions[i].state = "pending" =>
        /\ actions[i].subjects = {}
        /\ \/ pc = "down"
           \/ pc = "booting" /\ i \in todo
           \/ pc \in Applying /\ i = work.id
        /\ i \in forgotten \/ (pc \in Applying /\ i = work.id)

\* Nothing is in place for a result that says so.
PlacingInv ==
    /\ pc = "applying" => \A ip \in Ip : blocklist[ip].action # work.id
    /\ pc = "recording" /\ work.result = "failed" =>
        /\ \A ip \in Ip : blocklist[ip].action # work.id
        /\ \A s \in Subject : assignments[s].action # work.id
    /\ pc \in Applying => \A s \in Subject : assignments[s].action = work.id => s \in work.placed

\* What is still in place of the action being lifted.
LiftingInv ==
    /\ pc = "lifting" => \A s \in Subject : Ours(work.id, s) => s \in left
    /\ pc = "saving" /\ actions[work.id].kind \in targets => ~InPlace(work.id)

\* A revoke_all leaves no action running, and the emergency stop no decision.
StopInv ==
    /\ cleared => /\ stopped /\ Running = {} /\ pc \notin Deciding
                  /\ pc = "handling" => seen.stop
    /\ pc \in Revoking /\ Command.kind = "revoke_all" =>
        \A i \in Running : i \in todo \/ (pc \in Lifting /\ i = work.id)

\* The exemptions a batch has read are at least those of the base.
ExemptInv == pc \in {"handling"} \cup Deciding => exempt \subseteq seen.exempt

CapInv == Cardinality(RunningBans) <= MaxActiveBans

ExpiredInv == \A i \in DOMAIN actions : actions[i].state = "expired" => now >= actions[i].ends

\* The memory of the source keeps a ban that is in place.
RememberedInv ==
    \A i \in RunningBans :
        /\ actions[i].state \in {"applied", "unknown"} /\ i \notin forgotten
        /\ ~(pc \in Deciding /\ i = work.id)
        => \E p \in history[actions[i].ip].past : p.id = i

PlacesInv  == EntriesInv /\ DecoysInv
ProcessInv == CommandsInv /\ WorkInv /\ TodoInv /\ PendingInv /\ PlacingInv /\ LiftingInv

Inv ==
    /\ TypeInv /\ PlacesInv /\ ProcessInv
    /\ StopInv /\ ExemptInv /\ NothingLeftBehind /\ CapInv /\ ExpiredInv /\ RememberedInv

\* What the assumption on the constants gives the provers.
LEMMA Constants ==
    /\ Kinds \subseteq {"ban", "decoy"}
    /\ Tiers \in Seq(Nat) /\ Len(Tiers) > 0 /\ \A t \in 1..Len(Tiers) : Tiers[t] > 0
    /\ DecoyTime \in Nat \ {0}
    /\ MaxActiveBans \in Nat /\ MaxPerSource \in Nat /\ MaxTime \in Nat /\ MaxActions \in Nat
    /\ MaxCommands \in Nat /\ MaxCrashes \in Nat /\ MaxOutside \in Nat
<1>1. Tiers \in Seq(Nat \ {0}) /\ Tiers # <<>>
    BY ActionsAssumption
<1>2. Tiers \in Seq(Nat) /\ Len(Tiers) > 0 /\ \A t \in 1..Len(Tiers) : Tiers[t] > 0
    BY <1>1
<1> QED
    BY <1>2, ActionsAssumption

-----------------------------------------------------------------------------
(* The registry.                                                            *)

\* A registry with one action changed.
LEMMA Edited ==
    ASSUME actions \in Seq(Action), NEW i \in DOMAIN actions, NEW a \in Action
    PROVE  /\ [actions EXCEPT ![i] = a] \in Seq(Action)
           /\ Len([actions EXCEPT ![i] = a]) = Len(actions)
           /\ DOMAIN [actions EXCEPT ![i] = a] = DOMAIN actions
OBVIOUS

\* What a step does to the actions that are registered: they stay, with their source, their kind and
\* their end, a finished one with its state, and none becomes pending again.
Kept(next) ==
    /\ DOMAIN actions \subseteq DOMAIN next
    /\ \A i \in DOMAIN actions :
        /\ next[i].ip = actions[i].ip /\ next[i].kind = actions[i].kind /\ next[i].ends = actions[i].ends
        /\ Finished(actions[i]) => next[i].state = actions[i].state
        /\ next[i].state = "pending" => actions[i].state = "pending" /\ next[i].subjects = actions[i].subjects

\* An action of the registry has the type of one.
LEMMA ActionFields ==
    ASSUME actions \in Seq(Action), NEW i \in DOMAIN actions
    PROVE  actions[i] \in Action
OBVIOUS

\* Judging, expiring or closing an action changes nothing else than its state and its detail.
LEMMA VerdictType ==
    ASSUME NEW a \in Action, NEW inPlace \in BOOLEAN
    PROVE  /\ Verdict(a, inPlace) \in Action
           /\ Verdict(a, inPlace).ip = a.ip /\ Verdict(a, inPlace).kind = a.kind
           /\ Verdict(a, inPlace).ends = a.ends /\ Verdict(a, inPlace).subjects = a.subjects
           /\ Verdict(a, inPlace).state \in {"applied", "failed", "revoked"}
           /\ inPlace => Verdict(a, inPlace).state = "applied"
           /\ ~inPlace => Verdict(a, inPlace).state # "applied"
<1>1. CASE inPlace
    BY <1>1 DEF Verdict, Action
<1>2. CASE ~inPlace /\ a.state = "pending"
    BY <1>2 DEF Verdict, Action
<1>3. CASE ~inPlace /\ a.state # "pending"
    BY <1>3 DEF Verdict, Action
<1> QED
    BY <1>1, <1>2, <1>3

-----------------------------------------------------------------------------
(* Who changes what.                                                        *)

\* The registry: the reconciliation, the end of a lifting, "does not count", a decision and its result.
LEMMA RegistryChanges ==
    ASSUME [Next]_vars
    PROVE  \/ UNCHANGED actions
           \/ \E i \in Id : Reconcile(i)
           \/ SaveRevoked \/ Exclude \/ SaveResult
           \/ \E ip \in Ip, starts \in BOOLEAN, kind \in Kinds, subjects \in SUBSET Agent :
                Decide(ip, starts, kind, subjects)
<1> USE DEF places, base, reading, control, ghosts, vars
<1>1. CASE Commanding
    BY <1>1 DEF Commanding, Tick, StartReconcile, RunRevoke, RunRevokeMany, RevokeNext, RevokedMany, LiftBan,
        LiftFails, Release, Lifted, EndInHistory, ExemptSource, RevokedOne, RunNotRecidive, RunForgetSource,
        RunRemoveExemption, RunReload
<1>2. CASE Handling
    BY <1>2 DEF Handling, StartBatch, EndBatch, LetPass, ApplyBan, AssignDecoy, DecoyAssigned, SaveSource
<1>3. CASE Operator
    BY <1>3 DEF Operator, DepositRevoke, DepositNotRecidive, DepositRevokePolicy, DepositRevokeAll, DepositReload,
        DepositForgetSource, DepositRemoveExemption, Deposit, EmergencyStop, Resume
<1>4. CASE Others
    BY <1>4 DEF Others, TimePasses, BanByHand, LiftByHand, AutoBan, WrittenOutside, ExemptionEnds, LoseAccess,
        RegainAccess, DecoyByActiveDefense, ReleaseByHand
<1>5. CASE Start \/ Die \/ Booted
    BY <1>5 DEF Start, Die, Booted
<1> QED
    BY <1>1, <1>2, <1>3, <1>4, <1>5 DEF Next, Riposte

\* What becomes of the registry when one action of it is changed.
LEMMA EditedKept ==
    ASSUME actions \in Seq(Action), NEW i \in DOMAIN actions, NEW a \in Action,
           a.ip = actions[i].ip, a.kind = actions[i].kind, a.ends = actions[i].ends,
           Finished(actions[i]) => a.state = actions[i].state,
           a.state = "pending" => actions[i].state = "pending" /\ a.subjects = actions[i].subjects,
           NEW next, next = [actions EXCEPT ![i] = a]
    PROVE  /\ next \in Seq(Action) /\ Len(next) = Len(actions) /\ DOMAIN next = DOMAIN actions
           /\ Kept(next)
<1>1. next \in Seq(Action) /\ Len(next) = Len(actions) /\ DOMAIN next = DOMAIN actions
    BY Edited
<1>2. \A j \in DOMAIN actions : next[j] = IF j = i THEN a ELSE actions[j]
    OBVIOUS
<1> QED
    BY <1>1, <1>2 DEF Kept

\* Closing an action in progress keeps the registry.
LEMMA CloseKept ==
    ASSUME actions \in Seq(Action), NEW i \in DOMAIN actions, InProgress(actions[i]),
           NEW state \in {"expired", "revoked", "unknown"}, NEW detail \in {actions[i].detail, "check_failed"},
           Close(i, state, detail)
    PROVE  /\ actions' = [actions EXCEPT ![i] = [actions[i] EXCEPT !.state = state, !.detail = detail]]
           /\ actions' \in Seq(Action) /\ Len(actions') = Len(actions) /\ DOMAIN actions' = DOMAIN actions
           /\ Kept(actions')
<1> DEFINE a == [actions[i] EXCEPT !.state = state, !.detail = detail]
<1>1. actions[i] \in Action
    BY ActionFields
<1>2. /\ a \in Action /\ a.ip = actions[i].ip /\ a.kind = actions[i].kind /\ a.ends = actions[i].ends
      /\ a.state = state
    BY <1>1 DEF Action
<1>3. actions' = [actions EXCEPT ![i] = a]
    BY <1>1 DEF Close, Action
<1>4. a.state # "pending" /\ ~Finished(actions[i])
    BY <1>2 DEF Finished
<1> HIDE DEF a
<1>5. /\ actions' \in Seq(Action) /\ Len(actions') = Len(actions) /\ DOMAIN actions' = DOMAIN actions
      /\ Kept(actions')
    BY <1>2, <1>3, <1>4, EditedKept
<1> QED
    BY <1>3, <1>5 DEF a

\* So does judging one by what is in place.
LEMMA JudgeKept ==
    ASSUME actions \in Seq(Action), NEW i \in DOMAIN actions, InProgress(actions[i]),
           NEW inPlace \in BOOLEAN, Judge(i, inPlace)
    PROVE  /\ actions' = [actions EXCEPT ![i] = Verdict(actions[i], inPlace)]
           /\ actions' \in Seq(Action) /\ Len(actions') = Len(actions) /\ DOMAIN actions' = DOMAIN actions
           /\ Kept(actions')
<1>1. actions[i] \in Action
    BY ActionFields
<1>2. actions' = [actions EXCEPT ![i] = Verdict(actions[i], inPlace)]
    BY DEF Judge
<1> DEFINE a == Verdict(actions[i], inPlace)
<1>3. /\ a \in Action /\ a.ip = actions[i].ip /\ a.kind = actions[i].kind /\ a.ends = actions[i].ends
      /\ a.state # "pending" /\ ~Finished(actions[i])
    BY <1>1, VerdictType DEF Finished
<1>4. actions' = [actions EXCEPT ![i] = a]
    BY <1>2
<1> HIDE DEF a
<1>5. /\ actions' \in Seq(Action) /\ Len(actions') = Len(actions) /\ DOMAIN actions' = DOMAIN actions
      /\ Kept(actions')
    BY <1>3, <1>4, EditedKept
<1> QED
    BY <1>2, <1>5

\* A reconciliation closes the action, or gives the verdict on it.
LEMMA ReconcileKept ==
    ASSUME TypeInv, TodoInv, NEW i \in Id, Reconcile(i)
    PROVE  /\ i \in DOMAIN actions /\ InProgress(actions[i])
           /\ actions' \in Seq(Action) /\ Len(actions') = Len(actions) /\ DOMAIN actions' = DOMAIN actions
           /\ Kept(actions')
           /\ \A j \in DOMAIN actions : j # i => actions'[j] = actions[j]
           /\ actions'[i].state # "pending" /\ actions'[i].subjects = actions[i].subjects
<1>1. i \in DOMAIN actions /\ InProgress(actions[i]) /\ actions \in Seq(Action) /\ actions[i] \in Action
    BY ActionFields DEF Reconcile, TodoInv, Running, TypeInv, TypeOK
<1>2. ASSUME NEW state \in {"expired", "unknown"}, NEW detail \in {actions[i].detail, "check_failed"},
             Close(i, state, detail)
      PROVE  /\ actions' \in Seq(Action) /\ Len(actions') = Len(actions) /\ DOMAIN actions' = DOMAIN actions
             /\ Kept(actions')
             /\ \A j \in DOMAIN actions : j # i => actions'[j] = actions[j]
             /\ actions'[i].state # "pending" /\ actions'[i].subjects = actions[i].subjects
  <2>1. /\ actions' = [actions EXCEPT ![i] = [actions[i] EXCEPT !.state = state, !.detail = detail]]
        /\ actions' \in Seq(Action) /\ Len(actions') = Len(actions) /\ DOMAIN actions' = DOMAIN actions
        /\ Kept(actions')
      BY <1>1, <1>2, CloseKept
  <2> QED
      BY <1>1, <1>2, <2>1 DEF Action
<1>3. CASE \E inPlace \in BOOLEAN : Judge(i, inPlace)
  <2>1. PICK inPlace \in BOOLEAN : Judge(i, inPlace)
      BY <1>3
  <2>2. /\ Verdict(actions[i], inPlace).state \in {"applied", "failed", "revoked"}
        /\ Verdict(actions[i], inPlace).subjects = actions[i].subjects
      BY <1>1, VerdictType
  <2>3. /\ actions' = [actions EXCEPT ![i] = Verdict(actions[i], inPlace)]
        /\ actions' \in Seq(Action) /\ Len(actions') = Len(actions) /\ DOMAIN actions' = DOMAIN actions
        /\ Kept(actions')
      BY <1>1, <2>1, JudgeKept
  <2> QED
      BY <1>1, <2>2, <2>3
<1>4. CASE ExpireAction(i)
  <2>1. Close(i, "expired", actions[i].detail)
      BY <1>4 DEF ExpireAction
  <2> QED
      BY <1>1, <1>2, <2>1
<1>5. CASE JudgeBan(i)
  <2>1. \A ids : (i \in ids) \in BOOLEAN
      OBVIOUS
  <2>2. (\E inPlace \in BOOLEAN : Judge(i, inPlace)) \/ Close(i, "unknown", "check_failed")
      BY <1>5, <2>1, Zenon DEF JudgeBan
  <2> QED
      BY <1>1, <1>2, <1>3, <2>2
<1>6. CASE JudgeDecoy(i)
  <2>1. ("decoy" \in targets /\ \E s \in actions[i].subjects : Ours(i, s)) \in BOOLEAN
      OBVIOUS
  <2> QED
      BY <1>3, <1>6, <2>1 DEF JudgeDecoy
<1> QED
    BY <1>4, <1>5, <1>6 DEF Reconcile

\* What a source is remembered for is finite: one entry per action, at most twice.
LEMMA MemoryIsFinite ==
    ASSUME NEW S \in SUBSET [id : Id, counts : BOOLEAN]
    PROVE  IsFiniteSet(S) /\ Cardinality(S) \in Nat
<1> DEFINE P == Id \X (0..1)
<1> DEFINE f == [x \in P |-> [id |-> x[1], counts |-> x[2] = 1]]
<1>1. IsFiniteSet(P)
  <2>1. IsFiniteSet(1..MaxActions) /\ IsFiniteSet(0..1)
    <3>1. 0 \in Int /\ 1 \in Int /\ MaxActions \in Int
        BY Constants
    <3> QED
        BY <3>1, FS_Interval
  <2> QED
      BY <2>1, FS_Product DEF Id
<1>2. f \in Surjection(P, [id : Id, counts : BOOLEAN])
  <2>1. ASSUME NEW i \in Id
         PROVE  \E x, y \in P : f[x] = [id |-> i, counts |-> TRUE]
                               /\ f[y] = [id |-> i, counts |-> FALSE]
    <3>1. <<i, 1>> \in P /\ <<i, 0>> \in P
        OBVIOUS
    <3>2. /\ f[<<i, 1>>] = [id |-> i, counts |-> 1 = 1]
          /\ f[<<i, 0>>] = [id |-> i, counts |-> 0 = 1]
        BY <3>1
    <3>3. (1 = 1) = TRUE /\ (0 = 1) = FALSE
        OBVIOUS
    <3> HIDE DEF P, f
    <3> QED
        BY <3>1, <3>2, <3>3
  <2>2. ASSUME NEW p \in [id : Id, counts : BOOLEAN] PROVE \E x \in P : f[x] = p
    <3>1. p.id \in Id /\ (p = [id |-> p.id, counts |-> TRUE] \/ p = [id |-> p.id, counts |-> FALSE])
        OBVIOUS
    <3> QED
        BY <2>1, <3>1
  <2>3. f \in [P -> [id : Id, counts : BOOLEAN]]
      OBVIOUS
  <2> QED
      BY <2>2, <2>3 DEF Surjection
<1>3. IsFiniteSet([id : Id, counts : BOOLEAN])
    BY <1>1, <1>2, FS_Surjection
<1> QED
    BY <1>3, FS_Subset, FS_CardinalityType

\* A ban or a decoy lasts for at least one tick, whatever the tier.
LEMMA DurationType ==
    ASSUME NEW h \in Memory, NEW kind \in Kinds
    PROVE  Duration(h, kind) \in Nat /\ Duration(h, kind) > 0
<1>1. Cardinality({p \in h.past : p.counts}) \in Nat
    BY MemoryIsFinite DEF Memory
<1>2. Tier(h) \in 1..Len(Tiers)
    BY <1>1, Constants DEF Tier, Earliest
<1> QED
    BY <1>2, Constants DEF Duration

\* Observing an event changes nothing of the past of a source.
LEMMA ObserveType ==
    ASSUME NEW h \in Memory, NEW starts \in BOOLEAN
    PROVE  Observe(h, starts) \in Memory /\ Observe(h, starts).past = h.past
<1>1. (h.decided /\ ~starts) \in BOOLEAN
    OBVIOUS
<1> QED
    BY <1>1 DEF Observe, Memory

\* A decision adds one pending action to the registry, under the cap.
LEMMA DecideKept ==
    ASSUME TypeInv, NEW ip \in Ip, NEW starts \in BOOLEAN, NEW kind \in Kinds, NEW subjects \in SUBSET Agent,
           Decide(ip, starts, kind, subjects)
    PROVE  /\ actions' \in Seq(Action) /\ Len(actions') = Len(actions) + 1 /\ Len(actions') <= MaxActions
           /\ DOMAIN actions' = DOMAIN actions \cup {Len(actions) + 1} /\ Len(actions) + 1 \notin DOMAIN actions
           /\ \A j \in DOMAIN actions : actions'[j] = actions[j]
           /\ actions'[Len(actions) + 1] \in Action
           /\ actions'[Len(actions) + 1].ip = ip /\ actions'[Len(actions) + 1].kind = kind
           /\ actions'[Len(actions) + 1].state = "pending" /\ actions'[Len(actions) + 1].subjects = {}
           /\ Kept(actions')
<1> DEFINE h == Observe(history[ip], starts)
<1> DEFINE a == [ip |-> ip, kind |-> kind, ends |-> now + Duration(h, kind), state |-> "pending",
                 subjects |-> {}, detail |-> "", counts |-> kind = "ban"]
<1>1. actions \in Seq(Action) /\ Len(actions) \in Nat /\ MaxActions \in Nat
    BY Constants DEF TypeInv, TypeOK
<1>2. Len(actions) < MaxActions
    BY DEF Decide
<1>3. now \in Nat /\ h \in Memory
  <2>1. now \in Nat /\ history[ip] \in Memory
      BY Constants DEF TypeInv, TypeOK
  <2> QED
      BY <2>1, ObserveType
<1>4. Duration(h, kind) \in Nat
    BY <1>3, DurationType
<1>5. a \in Action
    BY <1>3, <1>4 DEF Action
<1>6. /\ a.ip = ip /\ a.kind = kind /\ a.state = "pending" /\ a.subjects = {}
    OBVIOUS
<1>7. actions' = Append(actions, a)
    BY DEF Decide
<1> HIDE DEF a, h
<1>8. /\ actions' \in Seq(Action) /\ Len(actions') = Len(actions) + 1
      /\ DOMAIN actions' = DOMAIN actions \cup {Len(actions) + 1} /\ Len(actions) + 1 \notin DOMAIN actions
      /\ \A j \in DOMAIN actions : actions'[j] = actions[j]
      /\ actions'[Len(actions) + 1] = a
    BY <1>1, <1>5, <1>7
<1> QED
    BY <1>1, <1>2, <1>5, <1>6, <1>8 DEF Kept

\* The registry after any step.
LEMMA RegistryKept ==
    ASSUME TypeInv, CommandsInv, WorkInv, TodoInv, [Next]_vars
    PROVE  actions' \in Seq(Action) /\ Len(actions') <= MaxActions /\ Kept(actions')
<1>1. actions \in Seq(Action) /\ Len(actions) <= MaxActions /\ Len(actions) \in Nat
    BY DEF TypeInv, TypeOK
<1>2. CASE UNCHANGED actions
    BY <1>1, <1>2 DEF Kept, Finished
<1>3. ASSUME NEW i \in Id, Reconcile(i)
      PROVE  actions' \in Seq(Action) /\ Len(actions') <= MaxActions /\ Kept(actions')
    BY <1>1, <1>3, ReconcileKept
<1>4. CASE SaveRevoked
  <2>1. work.id \in DOMAIN actions /\ InProgress(actions[work.id])
      BY <1>4 DEF SaveRevoked, WorkInv, Lifting
  <2>2. Close(work.id, "revoked", actions[work.id].detail)
      BY <1>4 DEF SaveRevoked
  <2> QED
      BY <1>1, <2>1, <2>2, CloseKept
<1>5. CASE Exclude
  <2>1. work.id \in DOMAIN actions /\ actions[work.id] \in Action
      BY <1>1, <1>5, ActionFields DEF Exclude, WorkInv, Ending
  <2> DEFINE a == [actions[work.id] EXCEPT !.counts = FALSE]
  <2>2. /\ a \in Action /\ a.ip = actions[work.id].ip /\ a.kind = actions[work.id].kind
        /\ a.ends = actions[work.id].ends /\ a.state = actions[work.id].state
        /\ a.subjects = actions[work.id].subjects
      BY <2>1 DEF Action
  <2>3. UNCHANGED actions \/ actions' = [actions EXCEPT ![work.id] = a]
      BY <1>5 DEF Exclude
  <2> HIDE DEF a
  <2> QED
      BY <1>1, <1>2, <2>1, <2>2, <2>3, EditedKept
<1>6. CASE SaveResult
  <2>1. work.id \in DOMAIN actions /\ actions[work.id] \in Action /\ ~Finished(actions[work.id])
      BY <1>1, <1>6, ActionFields DEF SaveResult, WorkInv, Deciding, Applying, Finished, InProgress
  <2>2. work.result \in {"applied", "failed"} /\ work.placed \subseteq Subject
      BY <1>6 DEF SaveResult, WorkInv, TypeInv, WorkType
  <2> DEFINE a == [actions[work.id] EXCEPT !.state = work.result, !.subjects = work.placed]
  <2>3. /\ a \in Action /\ a.ip = actions[work.id].ip /\ a.kind = actions[work.id].kind
        /\ a.ends = actions[work.id].ends /\ a.state # "pending"
      BY <2>1, <2>2 DEF Action
  <2>4. actions' = [actions EXCEPT ![work.id] = a]
      BY <1>6, <2>1 DEF SaveResult, Action
  <2> HIDE DEF a
  <2> QED
      BY <1>1, <2>1, <2>3, <2>4, EditedKept
<1>7. ASSUME NEW ip \in Ip, NEW starts \in BOOLEAN, NEW kind \in Kinds, NEW subjects \in SUBSET Agent,
             Decide(ip, starts, kind, subjects)
      PROVE  actions' \in Seq(Action) /\ Len(actions') <= MaxActions /\ Kept(actions')
    BY <1>7, DecideKept
<1> QED
    BY <1>2, <1>3, <1>4, <1>5, <1>6, <1>7, RegistryChanges

-----------------------------------------------------------------------------
(* Types.                                                                   *)

\* The invariant holds at the start: nothing is in place and the registry is empty.
LEMMA FirstState == Init => Inv
<1> SUFFICES ASSUME Init PROVE Inv
    OBVIOUS
<1> USE Constants
<1>1. TypeInv
  <2>1. /\ blocklist \in [Ip -> Entry] /\ assignments \in [Subject -> Decoy] /\ history \in [Ip -> Memory]
        /\ memory \in Memory /\ seen \in [stop : BOOLEAN, exempt : SUBSET Ip] /\ work \in WorkType
      BY DEF Init, NoEntry, NoDecoy, NoWork, NoMemory, NotSeen, Entry, Decoy, Memory, WorkType
  <2>2. work.id = 0 /\ work.placed = {}
      BY DEF Init, NoWork
  <2>3. actions = <<>> /\ commands = <<>> /\ Len(actions) = 0 /\ Len(commands) = 0 /\ DOMAIN actions = {}
        /\ actions \in Seq(Action) /\ commands \in Seq(CommandType)
      BY DEF Init
  <2>4. /\ now \in 0..MaxTime /\ Len(actions) <= MaxActions /\ Len(commands) <= MaxCommands
        /\ quota \in 0..Len(commands)
      BY <2>3 DEF Init
  <2>5. /\ exempt \subseteq Ip /\ stopped \in BOOLEAN /\ fresh \in BOOLEAN /\ cleared \in BOOLEAN
        /\ targets \subseteq Kinds /\ view = {} /\ todo = {} /\ left = {} /\ orphans = {} /\ forgotten = {}
        /\ access = "readable" /\ pc = "down"
      BY DEF Init
  <2>6. TypeOK
      BY <2>1, <2>2, <2>3, <2>4, <2>5, Zenon DEF TypeOK
  <2> QED
      BY <2>1, <2>3, <2>6 DEF Init, TypeInv
<1>2. PlacesInv
    BY DEF Init, PlacesInv, EntriesInv, DecoysInv, NoEntry, NoDecoy
<1>3. ProcessInv
    BY DEF Init, ProcessInv, CommandsInv, WorkInv, TodoInv, PendingInv, PlacingInv, LiftingInv, Applying, Deciding,
        Lifting, Revoking, Ending
<1>4. StopInv /\ ExemptInv /\ NothingLeftBehind
    BY DEF Init, StopInv, ExemptInv, NothingLeftBehind, Revoking, Deciding
<1>5. CapInv
  <2>1. RunningBans = {}
      BY DEF Init, RunningBans, Running
  <2> QED
      BY <2>1, FS_EmptySet DEF CapInv
<1>6. RememberedInv /\ ExpiredInv
    BY DEF Init, RememberedInv, ExpiredInv, RunningBans, Running
<1> QED
    BY <1>1, <1>2, <1>3, <1>4, <1>5, <1>6 DEF Inv

\* The values that stand for nothing have the type of what they replace.
LEMMA EmptyRecords ==
    /\ NoEntry \in Entry /\ NoDecoy \in Decoy /\ NoMemory \in Memory
    /\ NotSeen \in [stop : BOOLEAN, exempt : SUBSET Ip]
    /\ NoWork \in WorkType /\ NoWork.id = 0 /\ NoWork.placed = {} /\ NoWork.result = ""
    /\ \A i \in Nat : [NoWork EXCEPT !.id = i] \in WorkType /\ [NoWork EXCEPT !.id = i].id = i
                      /\ [NoWork EXCEPT !.id = i].placed = {}
BY DEF NoEntry, NoDecoy, NoMemory, NotSeen, NoWork, Entry, Decoy, Memory, WorkType

\* The first command, and what is left of the others when it ends.
LEMMA FirstCommand ==
    ASSUME TypeInv, quota > 0
    PROVE  /\ Command = commands[1] /\ 1 \in DOMAIN commands /\ Command \in CommandType
           /\ Len(commands) \in Nat /\ Len(commands) > 0 /\ quota \in Nat
           /\ Tail(commands) \in Seq(CommandType) /\ Len(Tail(commands)) = Len(commands) - 1
           /\ \A n \in DOMAIN Tail(commands) :
                n + 1 \in DOMAIN commands /\ n + 1 # 1 /\ Tail(commands)[n] = commands[n + 1]
<1>1. commands \in Seq(CommandType) /\ quota \in 0..Len(commands) /\ Len(commands) \in Nat
    BY DEF TypeInv, TypeOK
<1>2. Len(commands) > 0 /\ quota \in Nat
    BY <1>1
<1> QED
    BY <1>1, <1>2 DEF Command

\* The end of a command takes it off the queue.
LEMMA FinishType ==
    ASSUME TypeInv, quota > 0, NEW done \in BOOLEAN, Finish(done), UNCHANGED deposited
    PROVE  /\ commands' \in Seq(CommandType) /\ Len(commands') <= deposited' /\ Len(commands') <= MaxCommands
           /\ quota' \in 0..Len(commands') /\ pc' = "commanding" /\ todo' = {}
           /\ work' \in WorkType /\ work'.id = 0 /\ work'.placed = {} /\ cleared' \in BOOLEAN
<1>1. commands' = Tail(commands) /\ quota' = quota - 1 /\ pc' = "commanding" /\ work' = NoWork /\ todo' = {}
    BY DEF Finish
<1>2. commands' \in Seq(CommandType) /\ Len(commands') = Len(commands) - 1 /\ Len(commands) \in Nat
    BY <1>1, FirstCommand
<1>3. Len(commands) <= deposited /\ Len(commands) <= MaxCommands /\ quota \in 0..Len(commands)
      /\ deposited \in Nat /\ MaxCommands \in Nat
    BY Constants DEF TypeInv, TypeOK
<1>4. (cleared \/ (done /\ Command.kind = "revoke_all" /\ stopped)) \in BOOLEAN
    OBVIOUS
<1>5. cleared' \in BOOLEAN
    BY <1>4, Zenon DEF Finish
<1>6. quota' \in 0..Len(commands') /\ Len(commands') <= deposited /\ Len(commands') <= MaxCommands
    BY <1>1, <1>2, <1>3
<1>7. work' \in WorkType /\ work'.id = 0 /\ work'.placed = {}
    BY <1>1, EmptyRecords
<1> QED
    BY <1>1, <1>2, <1>5, <1>6, <1>7

\* The list of RIPOSTE holds actions of the registry.
LEMMA ListedType ==
    ASSUME TypeInv, PlacesInv
    PROVE  Listed \subseteq DOMAIN actions
BY DEF Listed, PlacesInv, EntriesInv, TypeInv, TypeOK, Entry

\* The commands that can be deposited.
Depositable ==
    {c \in CommandType : ~c.begun /\ (c.kind \in {"revoke", "not_recidive"} => c.action \in DOMAIN actions)}

\* What the operators do: a command, the emergency stop, its end.
LEMMA Deposited ==
    ASSUME TypeInv, Operator
    PROVE  (\E c \in Depositable : Deposit(c)) \/ EmergencyStop \/ Resume
<1>1. /\ \A kind \in {"revoke_policy", "revoke_all", "forget_source", "remove_exemption", "reload"},
            ips \in SUBSET Ip, policy \in Kinds \cup {""} :
            [CommandOf(kind) EXCEPT !.ips = ips, !.policy = policy] \in Depositable
      /\ \A i \in DOMAIN actions : [CommandOf("not_recidive") EXCEPT !.action = i] \in Depositable
      /\ \A i \in DOMAIN actions : \A exempting, notRecidive \in BOOLEAN :
            [CommandOf("revoke") EXCEPT !.action = i, !.exempt = exempting, !.notRecidive = notRecidive]
                \in Depositable
  <2>1. DOMAIN actions \subseteq Nat
      BY DEF TypeInv, TypeOK
  <2> QED
      BY <2>1 DEF Depositable, CommandOf, CommandType
<1>2. /\ \A kind \in Kinds : [CommandOf("revoke_policy") EXCEPT !.policy = kind] \in Depositable
      /\ CommandOf("revoke_all") \in Depositable /\ CommandOf("reload") \in Depositable
      /\ \A ip \in Ip : /\ [CommandOf("forget_source") EXCEPT !.ips = {ip}] \in Depositable
                        /\ [CommandOf("remove_exemption") EXCEPT !.ips = {ip}] \in Depositable
    BY DEF Depositable, CommandOf, CommandType
<1> QED
    BY <1>1, <1>2 DEF Operator, DepositRevoke, DepositRevokePolicy, DepositRevokeAll, DepositNotRecidive,
        DepositForgetSource, DepositRemoveExemption, DepositReload

\* What the others do.
ForeignEntry == {e \in Entry : e.action = 0 /\ e.source # "riposte"}

\* What the others do: they write where RIPOSTE does, or take away its access.
LEMMA Outside ==
    ASSUME TypeInv, Others
    PROVE  \/ TimePasses \/ RegainAccess
           \/ \E ip \in Ip : ExemptionEnds(ip)
           \/ \E ip \in Ip, e \in ForeignEntry : WrittenOutside([blocklist EXCEPT ![ip] = e])
           \/ \E to \in {"unreadable", "unreachable"} : LoseAccess(to)
           \/ \E s \in Subject : (\E same \in BOOLEAN : DecoyByActiveDefense(s, same)) \/ ReleaseByHand(s)
<1>1. /\ NoEntry \in ForeignEntry
      /\ \A expires \in Nat : /\ [source |-> "manual", action |-> 0, expires |-> expires] \in ForeignEntry
                              /\ [source |-> "auto", action |-> 0, expires |-> expires] \in ForeignEntry
    BY DEF ForeignEntry, NoEntry, Entry
<1>2. now \in Nat /\ now + 1 \in Nat /\ Forever \in Nat
    BY Constants DEF TypeInv, TypeOK, Forever
<1> QED
    BY <1>1, <1>2 DEF Others, BanByHand, LiftByHand, AutoBan

\* Every step keeps the types.
LEMMA TypeStep ==
    ASSUME TypeInv, PlacesInv, CommandsInv, WorkInv, TodoInv, [Next]_vars
    PROVE  TypeInv'
<1>a. Operator => (\E c \in Depositable : Deposit(c)) \/ EmergencyStop \/ Resume
    BY Deposited
<1>b. Others =>
        \/ TimePasses \/ RegainAccess
        \/ \E ip \in Ip : ExemptionEnds(ip)
        \/ \E ip \in Ip, e \in ForeignEntry : WrittenOutside([blocklist EXCEPT ![ip] = e])
        \/ \E to \in {"unreadable", "unreachable"} : LoseAccess(to)
        \/ \E s \in Subject : (\E same \in BOOLEAN : DecoyByActiveDefense(s, same)) \/ ReleaseByHand(s)
    BY Outside
<1>f. \A ip \in Ip, starts \in BOOLEAN, kind \in Kinds, subjects \in SUBSET Agent :
        Decide(ip, starts, kind, subjects) => Len(actions) + 1 \in DOMAIN actions'
    BY DecideKept
<1> USE Constants DEF TypeInv, TypeOK, places, base, reading, control, ghosts
<1>0. actions' \in Seq(Action) /\ Len(actions') <= MaxActions /\ DOMAIN actions \subseteq DOMAIN actions'
    BY RegistryKept DEF Kept
<1>1. CASE Start
    BY <1>0, <1>1 DEF Start, Running
<1>2. CASE Die
  <2>1. forgotten' \subseteq DOMAIN actions
      BY <1>2 DEF Die, WorkInv, Deciding
  <2>2. /\ work' \in WorkType /\ work'.id = 0 /\ work'.placed = {} /\ memory' \in Memory
        /\ seen' \in [stop : BOOLEAN, exempt : SUBSET Ip]
      BY <1>2, EmptyRecords DEF Die
  <2>3. /\ UNCHANGED <<now, blocklist, assignments, access, actions, history, exempt, commands, stopped, targets>>
        /\ UNCHANGED <<orphans, cleared, deposited>>
        /\ view' = {} /\ fresh' = FALSE /\ quota' = 0 /\ todo' = {} /\ left' = {} /\ pc' = "down"
      BY <1>2 DEF Die
  <2>4. /\ view' \subseteq DOMAIN actions /\ todo' \subseteq DOMAIN actions /\ left' \subseteq Subject
      BY <2>3
  <2>6. quota' \in 0..Len(commands)
    <3>1. Len(commands) \in Nat
        OBVIOUS
    <3> QED
        BY <2>3, <3>1
  <2>7. fresh' \in BOOLEAN
      BY <2>3
  <2>5. /\ DOMAIN actions' = DOMAIN actions /\ Len(commands') = Len(commands) /\ work'.placed \subseteq Subject
        /\ work'.id \in {0} \cup DOMAIN actions
      BY <2>2, <2>3
  <2> QED
      BY <2>1, <2>2, <2>3, <2>4, <2>5, <2>6, <2>7
<1>3. CASE Booted
    BY <1>0, <1>3 DEF Booted
<1>4. CASE Tick
    BY <1>0, <1>4 DEF Tick
<1>5. CASE StartReconcile
    BY <1>0, <1>5 DEF StartReconcile, Running
<1>6. CASE StartBatch
    BY <1>0, <1>6 DEF StartBatch
<1>7. CASE EndBatch
    BY <1>0, <1>7 DEF EndBatch, NotSeen
<1>8. CASE RunRevoke
  <2>1. quota > 0 /\ Command.kind = "revoke"
      BY <1>8 DEF RunRevoke, Begin
  <2>2. Command = commands[1] /\ 1 \in DOMAIN commands /\ Command \in CommandType
      BY <2>1, FirstCommand
  <2>3. Command.action \in DOMAIN actions
      BY <2>1, <2>2 DEF CommandsInv
  <2>4. commands' = [commands EXCEPT ![1].begun = TRUE]
      BY <1>8 DEF RunRevoke
  <2>5. commands' \in Seq(CommandType) /\ Len(commands') = Len(commands)
    <3> DEFINE begun == [commands[1] EXCEPT !.begun = TRUE]
    <3>1. begun \in CommandType
        BY <2>2 DEF CommandType
    <3>2. commands' = [commands EXCEPT ![1] = begun]
        BY <2>2, <2>4
    <3> HIDE DEF begun
    <3> QED
        BY <2>2, <3>1, <3>2
  <2>6. actions[Command.action].subjects \subseteq Subject
      BY <2>3, ActionFields DEF Action
  <2>7. work' = [NoWork EXCEPT !.id = Command.action] /\ left' \subseteq Subject /\ pc' \in {"lifting", "ending"}
      BY <1>8, <2>6 DEF RunRevoke
  <2>8. work' \in WorkType /\ work'.id = Command.action /\ work'.placed = {}
    <3>1. Command.action \in Nat
        BY <2>2 DEF CommandType
    <3> QED
        BY <2>7, <3>1, EmptyRecords
  <2> QED
      BY <1>0, <1>8, <2>3, <2>5, <2>7, <2>8 DEF RunRevoke
<1>9. CASE RunRevokeMany
    BY <1>0, <1>9 DEF RunRevokeMany, Begin, Command, Running
<1>10. CASE RevokeNext
  <2>1. PICK i \in todo : /\ todo' = todo \ {i} /\ work' = [NoWork EXCEPT !.id = i]
                          /\ left' = actions[i].subjects
      BY <1>10 DEF RevokeNext
  <2>2. i \in DOMAIN actions /\ i \in Nat /\ actions[i].subjects \subseteq Subject
    <3>1. i \in DOMAIN actions /\ i \in Nat
        OBVIOUS
    <3>2. actions[i] \in Action
        BY <3>1
    <3> QED
        BY <3>1, <3>2 DEF Action
  <2>3. work' \in WorkType /\ work'.id = i /\ work'.placed = {}
      BY <2>1, <2>2, EmptyRecords
  <2> QED
      BY <1>0, <1>10, <2>1, <2>2, <2>3 DEF RevokeNext
<1>11. CASE RevokedMany
  <2>1. quota > 0 /\ (Finish(TRUE) \/ Finish(FALSE)) /\ UNCHANGED deposited
      BY <1>11 DEF RevokedMany, CommandsInv, Revoking, Ending, Lifting
  <2>2. /\ commands' \in Seq(CommandType) /\ Len(commands') <= deposited' /\ Len(commands') <= MaxCommands
        /\ quota' \in 0..Len(commands') /\ pc' = "commanding" /\ todo' = {}
        /\ work' \in WorkType /\ work'.id = 0 /\ work'.placed = {} /\ cleared' \in BOOLEAN
      BY <2>1, FinishType
  <2> QED
      BY <1>0, <1>11, <2>2 DEF RevokedMany
<1>12. CASE LiftBan
  <2>1. /\ blocklist' \in [Ip -> Entry] /\ view' \subseteq DOMAIN actions /\ fresh' \in BOOLEAN
        /\ access' \in {"readable", "unreadable", "unreachable"}
    <3>1. CASE LeaveList
        BY <3>1, ListedType DEF LeaveList
    <3>2. ASSUME NEW i, WriteList([ip \in Ip |-> IF blocklist[ip].action = i THEN NoEntry ELSE blocklist[ip]])
          PROVE  /\ blocklist' \in [Ip -> Entry] /\ view' \subseteq DOMAIN actions /\ fresh' \in BOOLEAN
                 /\ access' \in {"readable", "unreadable", "unreachable"}
      <4> DEFINE l == [ip \in Ip |-> IF blocklist[ip].action = i THEN NoEntry ELSE blocklist[ip]]
      <4>1. l \in [Ip -> Entry]
          BY EmptyRecords
      <4>2. \A ip \in Ip : l[ip].action # 0 => l[ip].action \in DOMAIN actions
          BY DEF NoEntry, PlacesInv, EntriesInv
      <4>3. /\ blocklist' = l /\ access' = "readable" /\ fresh' = TRUE
            /\ view' = {l[ip].action : ip \in Ip} \ {0}
          BY <3>2 DEF WriteList
      <4> HIDE DEF l
      <4> QED
          BY <4>1, <4>2, <4>3
    <3> QED
        BY <1>12, <3>1, <3>2 DEF LiftBan
  <2> QED
      BY <1>0, <1>12, <2>1 DEF LiftBan
<1>13. CASE LiftFails
  <2>1. quota > 0 /\ (Finish(TRUE) \/ Finish(FALSE)) /\ UNCHANGED deposited
      BY <1>13 DEF LiftFails, ListFails, CommandsInv, Revoking, Ending, Lifting
  <2>2. /\ commands' \in Seq(CommandType) /\ Len(commands') <= deposited' /\ Len(commands') <= MaxCommands
        /\ quota' \in 0..Len(commands') /\ pc' = "commanding" /\ todo' = {}
        /\ work' \in WorkType /\ work'.id = 0 /\ work'.placed = {} /\ cleared' \in BOOLEAN
      BY <2>1, FinishType
  <2> QED
      BY <1>0, <1>13, <2>2 DEF LiftFails, ListFails
<1>14. CASE Release
  <2>1. PICK s \in left : /\ left' = left \ {s}
                          /\ assignments' = IF Ours(work.id, s) THEN [assignments EXCEPT ![s] = NoDecoy]
                                           ELSE assignments
      BY <1>14 DEF Release
  <2>2. assignments' \in [Subject -> Decoy]
    <3>1. assignments \in [Subject -> Decoy] /\ NoDecoy \in Decoy
        BY EmptyRecords
    <3> QED
        BY <2>1, <3>1
  <2>3. left' \subseteq Subject
      BY <2>1
  <2> QED
      BY <1>0, <1>14, <2>2, <2>3 DEF Release
<1>15. CASE Lifted
    BY <1>0, <1>15 DEF Lifted
<1>16. CASE SaveRevoked
  <2>1. work.id \in DOMAIN actions
      BY <1>16 DEF SaveRevoked, WorkInv, Lifting
  <2> QED
      BY <1>0, <1>16, <2>1 DEF SaveRevoked, Orphaned
<1>17. CASE EndInHistory
  <2>1. work.id \in DOMAIN actions /\ actions[work.id].ip \in Ip
      BY <1>17, ActionFields DEF EndInHistory, WorkInv, Action
  <2>2. history' \in [Ip -> Memory]
    <3> DEFINE h == history[actions[work.id].ip]
    <3> DEFINE over(p) == p.id = work.id /\ Command.notRecidive
    <3> DEFINE past == {[p EXCEPT !.counts = p.counts /\ ~over(p)] : p \in h.past}
    <3>1. \A p \in [id : Id, counts : BOOLEAN] :
            [p EXCEPT !.counts = p.counts /\ ~over(p)] \in [id : Id, counts : BOOLEAN]
        OBVIOUS
    <3>2. h \in Memory
        BY <2>1
    <3>3. past \subseteq [id : Id, counts : BOOLEAN]
        BY <3>1, <3>2 DEF Memory
    <3>4. history' = [history EXCEPT ![actions[work.id].ip] = [h EXCEPT !.past = past]]
        BY <1>17, <2>1 DEF EndInHistory
    <3> HIDE DEF h, past
    <3>5. [h EXCEPT !.past = past] \in Memory
        BY <3>2, <3>3 DEF Memory
    <3> QED
        BY <2>1, <3>4, <3>5
  <2> QED
      BY <1>0, <1>17, <2>2 DEF EndInHistory
<1>18. CASE Exclude
    BY <1>0, <1>18 DEF Exclude
<1>19. CASE ExemptSource
  <2>1. work.id \in DOMAIN actions /\ actions[work.id].ip \in Ip
      BY <1>19, ActionFields DEF ExemptSource, WorkInv, Ending, Action
  <2> QED
      BY <1>0, <1>19, <2>1 DEF ExemptSource
<1>20. CASE RevokedOne
  <2>1. quota > 0 /\ (Finish(TRUE) \/ Finish(FALSE)) /\ UNCHANGED deposited
      BY <1>20 DEF RevokedOne, CommandsInv, Revoking, Ending, Lifting
  <2>2. /\ commands' \in Seq(CommandType) /\ Len(commands') <= deposited' /\ Len(commands') <= MaxCommands
        /\ quota' \in 0..Len(commands') /\ pc' = "commanding" /\ todo' = {}
        /\ work' \in WorkType /\ work'.id = 0 /\ work'.placed = {} /\ cleared' \in BOOLEAN
      BY <2>1, FinishType
  <2> QED
      BY <1>0, <1>20, <2>2 DEF RevokedOne
<1>21. CASE RunNotRecidive
  <2>1. quota > 0 /\ Command.kind = "not_recidive"
      BY <1>21 DEF RunNotRecidive, Begin
  <2>2. Command.action \in DOMAIN actions /\ Command.action \in Nat
      BY <2>1, FirstCommand DEF CommandsInv
  <2>3. work' \in WorkType /\ work'.id = Command.action /\ work'.placed = {}
      BY <1>21, <2>2, EmptyRecords DEF RunNotRecidive
  <2> QED
      BY <1>0, <1>21, <2>2, <2>3 DEF RunNotRecidive
<1>22. CASE RunForgetSource
  <2>1. quota > 0 /\ (Finish(TRUE) \/ Finish(FALSE)) /\ UNCHANGED deposited
      BY <1>22 DEF RunForgetSource, Begin, CommandsInv, Revoking, Ending, Lifting
  <2>2. /\ commands' \in Seq(CommandType) /\ Len(commands') <= deposited' /\ Len(commands') <= MaxCommands
        /\ quota' \in 0..Len(commands') /\ pc' = "commanding" /\ todo' = {}
        /\ work' \in WorkType /\ work'.id = 0 /\ work'.placed = {} /\ cleared' \in BOOLEAN
      BY <2>1, FinishType
  <2> QED
      BY <1>0, <1>22, <2>2, EmptyRecords DEF RunForgetSource, Begin
<1>23. CASE RunRemoveExemption
  <2>1. quota > 0 /\ (Finish(TRUE) \/ Finish(FALSE)) /\ UNCHANGED deposited
      BY <1>23 DEF RunRemoveExemption, Begin, CommandsInv, Revoking, Ending, Lifting
  <2>2. /\ commands' \in Seq(CommandType) /\ Len(commands') <= deposited' /\ Len(commands') <= MaxCommands
        /\ quota' \in 0..Len(commands') /\ pc' = "commanding" /\ todo' = {}
        /\ work' \in WorkType /\ work'.id = 0 /\ work'.placed = {} /\ cleared' \in BOOLEAN
      BY <2>1, FinishType
  <2> QED
      BY <1>0, <1>23, <2>2 DEF RunRemoveExemption, Begin
<1>24. CASE RunReload
  <2>1. quota > 0 /\ (Finish(TRUE) \/ Finish(FALSE)) /\ UNCHANGED deposited
      BY <1>24 DEF RunReload, Begin, Reload, CommandsInv, Revoking, Ending, Lifting
  <2>2. /\ commands' \in Seq(CommandType) /\ Len(commands') <= deposited' /\ Len(commands') <= MaxCommands
        /\ quota' \in 0..Len(commands') /\ pc' = "commanding" /\ todo' = {}
        /\ work' \in WorkType /\ work'.id = 0 /\ work'.placed = {} /\ cleared' \in BOOLEAN
      BY <2>1, FinishType
  <2> QED
      BY <1>0, <1>24, <2>2 DEF RunReload, Begin, Reload
<1>25. CASE ApplyBan
  <2>1. /\ work.id \in DOMAIN actions /\ actions[work.id] \in Action /\ work.id # 0
        /\ work.id \in Nat
      BY <1>25, ActionFields DEF ApplyBan, WorkInv, Deciding
  <2>2. /\ blocklist' \in [Ip -> Entry] /\ view' \subseteq DOMAIN actions /\ fresh' \in BOOLEAN
        /\ access' \in {"readable", "unreadable", "unreachable"}
    <3>1. CASE LeaveList
        BY <3>1, ListedType DEF LeaveList
    <3>2. CASE ListFails
        BY <3>2 DEF ListFails
    <3>3. CASE WriteList([blocklist EXCEPT ![actions[work.id].ip] =
                            [source |-> "riposte", action |-> work.id, expires |-> actions[work.id].ends]])
      <4> DEFINE e == [source |-> "riposte", action |-> work.id, expires |-> actions[work.id].ends]
      <4> DEFINE l == [blocklist EXCEPT ![actions[work.id].ip] = e]
      <4>1. e \in Entry /\ e.action = work.id
          BY <2>1 DEF Entry, Action
      <4>2. /\ blocklist' = l /\ access' = "readable" /\ fresh' = TRUE
            /\ view' = {l[ip].action : ip \in Ip} \ {0}
          BY <3>3 DEF WriteList
      <4> HIDE DEF e
      <4>3. l \in [Ip -> Entry]
          BY <4>1
      <4>4. \A ip \in Ip : l[ip].action # 0 => l[ip].action \in DOMAIN actions
          BY <2>1, <4>1 DEF PlacesInv, EntriesInv
      <4> HIDE DEF l
      <4> QED
          BY <4>2, <4>3, <4>4
    <3> QED
        BY <1>25, <3>1, <3>2, <3>3 DEF ApplyBan
  <2>3. work' = [work EXCEPT !.result = "failed"] \/ work' = [work EXCEPT !.result = "applied"]
      BY <1>25 DEF ApplyBan, Result
  <2>4. work' \in WorkType /\ work'.id = work.id /\ work'.placed = work.placed
      BY <2>3 DEF WorkType
  <2> QED
      BY <1>0, <1>25, <2>2, <2>4 DEF ApplyBan, Result
<1>26. CASE AssignDecoy
  <2>1. /\ work.id \in DOMAIN actions /\ actions[work.id] \in Action /\ work.id \in Nat
      BY <1>26, ActionFields DEF AssignDecoy, WorkInv, Deciding
  <2>2. PICK s \in left :
            /\ left' = left \ {s}
            /\ \/ UNCHANGED <<assignments, work>>
               \/ /\ assignments' = [assignments EXCEPT ![s] =
                                        [action |-> work.id, same |-> TRUE, expires |-> actions[work.id].ends]]
                  /\ work' = [work EXCEPT !.placed = @ \cup {s}]
      BY <1>26 DEF AssignDecoy
  <2>3. [action |-> work.id, same |-> TRUE, expires |-> actions[work.id].ends] \in Decoy
      BY <2>1 DEF Decoy, Action
  <2>4. assignments' \in [Subject -> Decoy] /\ left' \subseteq Subject
      BY <2>2, <2>3
  <2>5. work' \in WorkType /\ work'.id = work.id /\ work'.placed \subseteq Subject
    <3>1. s \in Subject /\ work.placed \cup {s} \in SUBSET Subject
        OBVIOUS
    <3>2. [work EXCEPT !.placed = work.placed \cup {s}] \in WorkType
        BY <3>1 DEF WorkType
    <3>3. work' = work \/ work' = [work EXCEPT !.placed = work.placed \cup {s}]
        BY <2>2
    <3> QED
        BY <3>1, <3>2, <3>3 DEF WorkType
  <2> QED
      BY <1>0, <1>26, <2>4, <2>5 DEF AssignDecoy
<1>27. CASE DecoyAssigned
  <2>1. work' = [work EXCEPT !.result = "failed"] \/ work' = [work EXCEPT !.result = "applied"]
      BY <1>27 DEF DecoyAssigned, Result
  <2>2. work' \in WorkType /\ work'.id = work.id /\ work'.placed = work.placed
      BY <2>1 DEF WorkType
  <2> QED
      BY <1>0, <1>27, <2>2 DEF DecoyAssigned, Result
<1>28. CASE SaveResult
    BY <1>0, <1>28 DEF SaveResult
<1>29. CASE SaveSource
  <2>1. work.id \in DOMAIN actions /\ actions[work.id] \in Action
      BY <1>29, ActionFields DEF SaveSource, WorkInv, Deciding
  <2>2. work.id \in Id /\ [id |-> work.id, counts |-> actions[work.id].counts] \in [id : Id, counts : BOOLEAN]
    <3>1. DOMAIN actions = 1..Len(actions) /\ Len(actions) \in Nat
        OBVIOUS
    <3>2. work.id \in Id
        BY <2>1, <3>1 DEF Id
    <3> QED
        BY <2>1, <3>2 DEF Action
  <2> DEFINE past == IF work.result = "applied"
                     THEN memory.past \cup {[id |-> work.id, counts |-> actions[work.id].counts]} ELSE memory.past
  <2>3. past \subseteq [id : Id, counts : BOOLEAN]
      BY <2>2 DEF Memory
  <2>4. history' = [history EXCEPT ![actions[work.id].ip] = [decided |-> TRUE, past |-> past]]
      BY <1>29 DEF SaveSource
  <2> HIDE DEF past
  <2>5. history' \in [Ip -> Memory]
      BY <2>3, <2>4 DEF Memory
  <2> QED
      BY <1>0, <1>29, <2>5, EmptyRecords DEF SaveSource
<1>30. CASE TimePasses
    BY <1>0, <1>30 DEF TimePasses
<1>31. CASE RegainAccess
    BY <1>0, <1>31 DEF RegainAccess
<1>32. CASE EmergencyStop
    BY <1>0, <1>32 DEF EmergencyStop
<1>33. CASE Resume
    BY <1>0, <1>33 DEF Resume
<1>34. ASSUME NEW i \in Id, Reconcile(i) PROVE TypeInv'
  <2>1. /\ i \in DOMAIN actions /\ orphans' \subseteq DOMAIN actions /\ view' \subseteq DOMAIN actions
        /\ fresh' \in BOOLEAN
    <3>1. i \in DOMAIN actions
        BY <1>34 DEF Reconcile
    <3>2. ASSUME NEW inPlace, Judge(i, inPlace) PROVE orphans' \subseteq DOMAIN actions
        BY <3>1, <3>2 DEF Judge, Orphaned
    <3>3. ASSUME NEW ids \in SUBSET DOMAIN actions, SeesList(ids)
          PROVE  view' \subseteq DOMAIN actions /\ fresh' \in BOOLEAN
        BY <3>3 DEF SeesList
    <3> QED
        BY <1>34, <3>1, <3>2, <3>3 DEF Reconcile, ExpireAction, JudgeBan, JudgeDecoy
  <2> QED
      BY <1>0, <1>34, <2>1 DEF Reconcile
<1>35. ASSUME NEW ip \in Ip, NEW starts \in BOOLEAN, LetPass(ip, starts) PROVE TypeInv'
  <2>1. history' \in [Ip -> Memory]
      BY <1>35, ObserveType DEF LetPass
  <2> QED
      BY <1>0, <1>35, <2>1 DEF LetPass
<1>36. ASSUME NEW ip \in Ip, NEW starts \in BOOLEAN, NEW kind \in Kinds, NEW subjects \in SUBSET Agent,
              Decide(ip, starts, kind, subjects)
       PROVE  TypeInv'
  <2>1. memory' \in Memory
      BY <1>36, ObserveType DEF Decide
  <2>2. work' \in WorkType /\ work'.id = Len(actions) + 1 /\ work'.placed = {}
    <3>1. work' = [NoWork EXCEPT !.id = Len(actions) + 1]
        BY <1>36 DEF Decide
    <3>2. Len(actions) + 1 \in Nat
        OBVIOUS
    <3> QED
        BY <3>1, <3>2, EmptyRecords
  <2>3. Len(actions) + 1 \in DOMAIN actions'
    <3> HIDE DEF TypeInv, TypeOK, places, base, reading, control, ghosts
    <3> QED
        BY <1>f, <1>36
  <2>4. left' \subseteq Subject
    <3>1. left' = {ip} \X subjects \/ left' = {}
        BY <1>36 DEF Decide
    <3>2. {ip} \X subjects \subseteq Subject
        BY DEF Subject
    <3> QED
        BY <3>1, <3>2
  <2> QED
      BY <1>0, <1>36, <2>1, <2>2, <2>3, <2>4 DEF Decide
<1>37. ASSUME NEW c \in CommandType, Deposit(c) PROVE TypeInv'
  <2>1. commands' \in Seq(CommandType) /\ Len(commands') = Len(commands) + 1
      BY <1>37 DEF Deposit
  <2> QED
      BY <1>0, <1>37, <2>1 DEF Deposit
<1>38. ASSUME NEW ip \in Ip, NEW e \in Entry, WrittenOutside([blocklist EXCEPT ![ip] = e]) PROVE TypeInv'
    BY <1>0, <1>38 DEF WrittenOutside, Meddle
<1>39. ASSUME NEW ip \in Ip, ExemptionEnds(ip) PROVE TypeInv'
    BY <1>0, <1>39 DEF ExemptionEnds
<1>40. ASSUME NEW to \in {"unreadable", "unreachable"}, LoseAccess(to) PROVE TypeInv'
    BY <1>0, <1>40 DEF LoseAccess, Meddle
<1>41. ASSUME NEW s \in Subject, (\E same \in BOOLEAN : DecoyByActiveDefense(s, same)) \/ ReleaseByHand(s)
       PROVE  TypeInv'
  <2>1. ASSUME NEW same \in BOOLEAN, DecoyByActiveDefense(s, same) PROVE TypeInv'
    <3>1. [action |-> 0, same |-> same, expires |-> now + 1] \in Decoy
        BY DEF Decoy
    <3>2. assignments' \in [Subject -> Decoy]
        BY <2>1, <3>1 DEF DecoyByActiveDefense
    <3> QED
        BY <1>0, <2>1, <3>2 DEF DecoyByActiveDefense, Meddle
  <2>2. CASE ReleaseByHand(s)
    <3>1. assignments' \in [Subject -> Decoy]
        BY <2>2, EmptyRecords DEF ReleaseByHand
    <3> QED
        BY <1>0, <2>2, <3>1 DEF ReleaseByHand, Meddle
  <2> QED
      BY <1>41, <2>1, <2>2
<1>42. CASE UNCHANGED vars
    BY <1>0, <1>42 DEF vars
<1> HIDE DEF TypeInv, TypeOK, places, base, reading, control, ghosts
<1>43. CASE Operator
    BY <1>a, <1>32, <1>33, <1>37, <1>43 DEF Depositable
<1>44. CASE Others
    BY <1>b, <1>30, <1>31, <1>38, <1>39, <1>40, <1>41, <1>44 DEF ForeignEntry
<1>c. CASE Commanding
    BY <1>c, <1>4, <1>5, <1>8, <1>9, <1>10, <1>11, <1>12, <1>13, <1>14, <1>15, <1>16, <1>17, <1>18, <1>19, <1>20, <1>21, <1>22, <1>23, <1>24
        DEF Commanding
<1>d. CASE Handling
  <2>1. ASSUME NEW ip \in Ip, NEW starts \in BOOLEAN,
               LetPass(ip, starts) \/ \E kind \in Kinds, subjects \in SUBSET Agent : Decide(ip, starts, kind, subjects)
        PROVE  TypeInv'
      BY <1>35, <1>36, <2>1
  <2> QED
      BY <1>d, <1>6, <1>7, <1>25, <1>26, <1>27, <1>28, <1>29, <2>1 DEF Handling
<1>e. CASE Start \/ Die \/ (\E i \in Id : Reconcile(i)) \/ Booted
    BY <1>e, <1>1, <1>2, <1>3, <1>34
<1> QED
    BY <1>c, <1>d, <1>e, <1>42, <1>43, <1>44 DEF Next, Riposte

-----------------------------------------------------------------------------
(* What is in place.                                                        *)

\* The file: a lifting, a ban being put in place, the others.
LEMMA BlocklistChanges ==
    ASSUME TypeInv, [Next]_vars
    PROVE  \/ UNCHANGED blocklist
           \/ LiftBan \/ ApplyBan
           \/ \E ip \in Ip, e \in ForeignEntry : WrittenOutside([blocklist EXCEPT ![ip] = e])
<1>1. CASE Others
    BY <1>1, Outside DEF TimePasses, RegainAccess, ExemptionEnds, LoseAccess, DecoyByActiveDefense, ReleaseByHand, places
<1> USE DEF places, base, reading, control, ghosts, vars
<1>2. CASE Commanding
    BY <1>2 DEF Commanding, Tick, StartReconcile, RunRevoke, RunRevokeMany, RevokeNext, RevokedMany,
        LiftFails, ListFails, Release, Lifted, SaveRevoked, EndInHistory, Exclude, ExemptSource, RevokedOne,
        RunNotRecidive, RunForgetSource, RunRemoveExemption, RunReload
<1>3. CASE Handling
    BY <1>3 DEF Handling, StartBatch, EndBatch, LetPass, Decide, AssignDecoy, DecoyAssigned, SaveResult, SaveSource
<1>4. CASE Operator
    BY <1>4 DEF Operator, DepositRevoke, DepositNotRecidive, DepositRevokePolicy, DepositRevokeAll, DepositReload,
        DepositForgetSource, DepositRemoveExemption, Deposit, EmergencyStop, Resume
<1>5. CASE Start \/ Die \/ (\E i \in Id : Reconcile(i)) \/ Booted
    BY <1>5 DEF Start, Die, Reconcile, Booted
<1> QED
    BY <1>1, <1>2, <1>3, <1>4, <1>5 DEF Next, Riposte

\* The decoys: a release, a decoy being put in place, the others.
LEMMA AssignmentsChange ==
    ASSUME TypeInv, [Next]_vars
    PROVE  \/ UNCHANGED assignments
           \/ Release \/ AssignDecoy
           \/ \E s \in Subject : (\E same \in BOOLEAN : DecoyByActiveDefense(s, same)) \/ ReleaseByHand(s)
<1>1. CASE Others
    BY <1>1, Outside DEF TimePasses, RegainAccess, ExemptionEnds, LoseAccess, WrittenOutside, places
<1> USE DEF places, base, reading, control, ghosts, vars
<1>2. CASE Commanding
    BY <1>2 DEF Commanding, Tick, StartReconcile, RunRevoke, RunRevokeMany, RevokeNext, RevokedMany, LiftBan,
        LiftFails, Lifted, SaveRevoked, EndInHistory, Exclude, ExemptSource, RevokedOne,
        RunNotRecidive, RunForgetSource, RunRemoveExemption, RunReload
<1>3. CASE Handling
    BY <1>3 DEF Handling, StartBatch, EndBatch, LetPass, Decide, ApplyBan, DecoyAssigned, SaveResult, SaveSource
<1>4. CASE Operator
    BY <1>4 DEF Operator, DepositRevoke, DepositNotRecidive, DepositRevokePolicy, DepositRevokeAll, DepositReload,
        DepositForgetSource, DepositRemoveExemption, Deposit, EmergencyStop, Resume
<1>5. CASE Start \/ Die \/ (\E i \in Id : Reconcile(i)) \/ Booted
    BY <1>5 DEF Start, Die, Reconcile, Booted
<1> QED
    BY <1>1, <1>2, <1>3, <1>4, <1>5 DEF Next, Riposte

\* What a lifting leaves of the list: nothing of the action, everything of the others.
LEMMA BanLifted ==
    ASSUME TypeInv, WorkInv, LiftBan
    PROVE  /\ \A ip \in Ip : \/ blocklist'[ip] = blocklist[ip]
                             \/ blocklist[ip].action = work.id /\ blocklist'[ip] = NoEntry
           /\ \A ip \in Ip : blocklist'[ip].action # work.id
<1>1. work.id \in DOMAIN actions /\ work.id # 0
    BY DEF LiftBan, WorkInv, Lifting, TypeInv, TypeOK
<1>2. CASE work.id \in Listed
  <2> DEFINE l == [ip \in Ip |-> IF blocklist[ip].action = work.id THEN NoEntry ELSE blocklist[ip]]
  <2>1. blocklist' = l
      BY <1>2 DEF LiftBan, WriteList
  <2> QED
      BY <1>1, <2>1 DEF NoEntry
<1>3. CASE work.id \notin Listed
  <2>1. UNCHANGED blocklist
      BY <1>3 DEF LiftBan, LeaveList
  <2> QED
      BY <1>1, <1>3, <2>1 DEF Listed
<1> QED
    BY <1>2, <1>3

\* What putting a ban in place makes of the list.
LEMMA BanApplied ==
    ASSUME TypeInv, WorkInv, ApplyBan
    PROVE  /\ work.id \in DOMAIN actions /\ work.id # 0 /\ actions[work.id].kind = "ban"
           /\ actions[work.id].ip \in Ip /\ actions[work.id].ends \in Nat
           /\ pc' = "recording" /\ work'.id = work.id /\ work'.placed = work.placed
           /\ \/ UNCHANGED blocklist /\ work'.result = "failed"
              \/ /\ work'.result = "applied" /\ ~Stronger(blocklist[actions[work.id].ip], actions[work.id].ends)
                 /\ blocklist' = [blocklist EXCEPT ![actions[work.id].ip] =
                        [source |-> "riposte", action |-> work.id, expires |-> actions[work.id].ends]]
<1>1. work.id \in DOMAIN actions /\ work.id # 0 /\ actions[work.id] \in Action
    BY ActionFields DEF ApplyBan, WorkInv, Deciding, TypeInv, TypeOK
<1>2. actions[work.id].kind = "ban" /\ actions[work.id].ip \in Ip /\ actions[work.id].ends \in Nat
    BY <1>1 DEF ApplyBan, Action
<1>3. work \in WorkType
    BY DEF TypeInv
<1>4. /\ pc' = "recording"
      /\ \/ UNCHANGED blocklist /\ work' = [work EXCEPT !.result = "failed"]
         \/ /\ work' = [work EXCEPT !.result = "applied"]
            /\ ~Stronger(blocklist[actions[work.id].ip], actions[work.id].ends)
            /\ blocklist' = [blocklist EXCEPT ![actions[work.id].ip] =
                        [source |-> "riposte", action |-> work.id, expires |-> actions[work.id].ends]]
    BY DEF ApplyBan, Result, ListFails, LeaveList, WriteList
<1> QED
    BY <1>1, <1>2, <1>3, <1>4 DEF WorkType

\* An entry of RIPOSTE is written by ApplyBan only, with the source and the end of its action.
LEMMA EntriesStep ==
    ASSUME TypeInv, PlacesInv, CommandsInv, WorkInv, TodoInv, [Next]_vars
    PROVE  EntriesInv'
<1>1. Kept(actions')
    BY RegistryKept
<1> SUFFICES ASSUME NEW ip \in Ip
             PROVE  /\ blocklist'[ip].action # 0 <=> blocklist'[ip].source = "riposte"
                    /\ blocklist'[ip].action # 0 =>
                        /\ blocklist'[ip].action \in DOMAIN actions'
                        /\ actions'[blocklist'[ip].action].kind = "ban"
                        /\ actions'[blocklist'[ip].action].ip = ip
                        /\ actions'[blocklist'[ip].action].ends = blocklist'[ip].expires
    BY DEF EntriesInv
<1> DEFINE e == blocklist'[ip]
<1>2. CASE e = blocklist[ip]
    BY <1>1, <1>2 DEF PlacesInv, EntriesInv, Kept
<1>3. CASE e.action = 0 /\ e.source # "riposte"
    BY <1>3
<1>4. CASE LiftBan
    BY <1>2, <1>3, <1>4, BanLifted DEF NoEntry
<1>5. CASE ApplyBan
  <2>1. \/ e = blocklist[ip]
        \/ /\ ip = actions[work.id].ip
           /\ e = [source |-> "riposte", action |-> work.id, expires |-> actions[work.id].ends]
      BY <1>5, BanApplied DEF TypeInv, TypeOK
  <2> QED
      BY <1>1, <1>2, <1>5, <2>1, BanApplied DEF Kept
<1>6. ASSUME NEW i \in Ip, NEW f \in ForeignEntry, WrittenOutside([blocklist EXCEPT ![i] = f])
      PROVE  e = blocklist[ip] \/ (e.action = 0 /\ e.source # "riposte")
    BY <1>6 DEF WrittenOutside, ForeignEntry, TypeInv, TypeOK
<1> QED
    BY <1>2, <1>3, <1>4, <1>5, <1>6, BlocklistChanges

\* A decoy is given for applied, or for unknown, only by the saving of its result.
LEMMA DecoyStates ==
    ASSUME TypeInv, CommandsInv, WorkInv, TodoInv, PendingInv, [Next]_vars,
           NEW i \in DOMAIN actions, actions[i].kind = "decoy", actions'[i].state \in {"applied", "unknown"}
    PROVE  \/ actions[i].state \in {"applied", "unknown"} /\ actions'[i].subjects = actions[i].subjects
           \/ SaveResult /\ i = work.id /\ actions'[i].subjects = work.placed
<1>1. actions \in Seq(Action) /\ \A j \in DOMAIN actions : actions[j] \in Action
    BY ActionFields DEF TypeInv, TypeOK
<1>2. CASE UNCHANGED actions
    BY <1>2
<1>3. ASSUME NEW j \in Id, Reconcile(j)
      PROVE  actions[i].state \in {"applied", "unknown"} /\ actions'[i].subjects = actions[i].subjects
  <2>1. /\ j \in DOMAIN actions /\ InProgress(actions[j])
        /\ j # i => actions'[i] = actions[i]
        /\ actions'[j].subjects = actions[j].subjects
      BY <1>3, ReconcileKept
  <2>2. CASE j = i
    <3>1. ~JudgeBan(j)
        BY <2>2 DEF JudgeBan
    <3>2. CASE ExpireAction(j)
        BY <1>1, <2>1, <2>2, <3>2 DEF ExpireAction, Close, Action
    <3>3. CASE JudgeDecoy(j)
      <4> DEFINE inPlace == "decoy" \in targets /\ \E s \in actions[j].subjects : Ours(j, s)
      <4>1. Judge(j, inPlace) /\ inPlace \in BOOLEAN
          BY <3>3 DEF JudgeDecoy
      <4>2. actions'[j] = Verdict(actions[j], inPlace)
          BY <1>1, <2>1, <4>1, JudgeKept
      <4>3. inPlace
        <5> SUFFICES ASSUME ~inPlace PROVE FALSE
            OBVIOUS
        <5> HIDE DEF inPlace
        <5>1. Verdict(actions[j], inPlace).state \in {"applied", "failed", "revoked"}
              /\ Verdict(actions[j], inPlace).state # "applied"
            BY <1>1, <2>1, <4>1, VerdictType
        <5> QED
            BY <2>2, <4>2, <5>1
      <4>4. actions[j].subjects # {}
          BY <4>3
      <4>5. actions[j].state # "pending"
          BY <2>1, <4>4 DEF PendingInv
      <4> QED
          BY <2>1, <2>2, <4>5 DEF InProgress
    <3> QED
        BY <1>3, <3>1, <3>2, <3>3 DEF Reconcile
  <2>3. CASE j # i
      BY <2>1, <2>3
  <2> QED
      BY <2>2, <2>3
<1>4. CASE SaveRevoked
  <2>1. work.id \in DOMAIN actions
      BY <1>4 DEF SaveRevoked, WorkInv, Lifting
  <2> QED
      BY <1>1, <1>4, <2>1 DEF SaveRevoked, Close, Action
<1>5. CASE Exclude
  <2>1. work.id \in DOMAIN actions
      BY <1>5 DEF Exclude, WorkInv, Ending
  <2> QED
      BY <1>1, <1>5, <2>1 DEF Exclude, Action
<1>6. CASE SaveResult
  <2>1. work.id \in DOMAIN actions
      BY <1>6 DEF SaveResult, WorkInv, Deciding
  <2> QED
      BY <1>1, <1>6, <2>1 DEF SaveResult, Action
<1>7. ASSUME NEW ip \in Ip, NEW starts \in BOOLEAN, NEW kind \in Kinds, NEW subjects \in SUBSET Agent,
             Decide(ip, starts, kind, subjects)
      PROVE  actions'[i] = actions[i]
    BY <1>7, DecideKept
<1> QED
    BY <1>2, <1>3, <1>4, <1>5, <1>6, <1>7, RegistryChanges

\* An assignment is written for the pending decoy the process works on.
LEMMA DecoyAssignedTo ==
    ASSUME TypeInv, WorkInv, AssignDecoy
    PROVE  /\ work.id \in DOMAIN actions /\ work.id # 0 /\ actions[work.id].kind = "decoy"
           /\ actions[work.id].state = "pending"
           /\ work'.id = work.id /\ work'.result = work.result /\ pc' = pc /\ work.placed \subseteq work'.placed
           /\ \A s \in Subject :
                \/ assignments'[s] = assignments[s]
                \/ /\ s \in work'.placed
                   /\ assignments'[s] = [action |-> work.id, same |-> TRUE, expires |-> actions[work.id].ends]
<1>1. work.id \in DOMAIN actions /\ work.id # 0 /\ actions[work.id].kind = "decoy" /\ actions[work.id].state = "pending"
    BY DEF AssignDecoy, WorkInv, Deciding, Applying, TypeInv, TypeOK
<1>2. PICK t \in left :
          \/ UNCHANGED <<assignments, work>>
          \/ /\ assignments' = [assignments EXCEPT ![t] =
                                    [action |-> work.id, same |-> TRUE, expires |-> actions[work.id].ends]]
             /\ work' = [work EXCEPT !.placed = @ \cup {t}]
    BY DEF AssignDecoy
<1>3. pc' = pc /\ work \in WorkType /\ assignments \in [Subject -> Decoy]
    BY DEF AssignDecoy, TypeInv, TypeOK
<1> QED
    BY <1>1, <1>2, <1>3 DEF WorkType

\* The registry learns the subjects of a decoy with its result, and keeps them.
LEMMA DecoysStep ==
    ASSUME TypeInv, PlacesInv, CommandsInv, WorkInv, TodoInv, PendingInv, PlacingInv, [Next]_vars
    PROVE  DecoysInv'
<1>1. Kept(actions') /\ assignments \in [Subject -> Decoy]
    BY RegistryKept DEF TypeInv, TypeOK
<1> SUFFICES ASSUME NEW s \in Subject, assignments'[s].action # 0
             PROVE  /\ assignments'[s].action \in DOMAIN actions'
                    /\ actions'[assignments'[s].action].kind = "decoy"
                    /\ actions'[assignments'[s].action].ends = assignments'[s].expires
                    /\ actions'[assignments'[s].action].state \in {"applied", "unknown"} =>
                        s \in actions'[assignments'[s].action].subjects
    BY DEF DecoysInv
<1>2. CASE assignments'[s] = assignments[s]
  <2> DEFINE i == assignments[s].action
  <2>1. i \in DOMAIN actions /\ actions[i].kind = "decoy" /\ actions[i].ends = assignments[s].expires
      BY <1>2 DEF PlacesInv, DecoysInv
  <2>2. i \in DOMAIN actions' /\ actions'[i].kind = "decoy" /\ actions'[i].ends = assignments[s].expires
      BY <1>1, <2>1 DEF Kept
  <2>3. ASSUME actions'[i].state \in {"applied", "unknown"} PROVE s \in actions'[i].subjects
    <3>1. CASE actions[i].state \in {"applied", "unknown"} /\ actions'[i].subjects = actions[i].subjects
        BY <1>2, <3>1 DEF PlacesInv, DecoysInv
    <3>2. CASE SaveResult /\ i = work.id /\ actions'[i].subjects = work.placed
        BY <3>2 DEF PlacingInv, SaveResult, Applying
    <3> QED
        BY <2>1, <2>3, <3>1, <3>2, DecoyStates
  <2> QED
      BY <1>2, <2>2, <2>3
<1>3. CASE Release
    BY <1>1, <1>2, <1>3 DEF Release, NoDecoy
<1>4. CASE AssignDecoy
  <2>1. CASE assignments'[s] = [action |-> work.id, same |-> TRUE, expires |-> actions[work.id].ends]
    <3>1. work.id \in DOMAIN actions /\ actions[work.id].kind = "decoy" /\ actions[work.id].state = "pending"
        BY <1>4, DecoyAssignedTo
    <3>2. actions' = actions
        BY <1>4 DEF AssignDecoy, base
    <3> QED
        BY <2>1, <3>1, <3>2
  <2> QED
      BY <1>2, <1>4, <2>1, DecoyAssignedTo
<1>5. ASSUME NEW t \in Subject, (\E same \in BOOLEAN : DecoyByActiveDefense(t, same)) \/ ReleaseByHand(t)
      PROVE  assignments'[s] = assignments[s]
    BY <1>1, <1>5 DEF DecoyByActiveDefense, ReleaseByHand, NoDecoy
<1>6. CASE UNCHANGED assignments
    BY <1>2, <1>6
<1> QED
    BY <1>2, <1>3, <1>4, <1>5, <1>6, AssignmentsChange

-----------------------------------------------------------------------------
(* The process and its commands.                                            *)

\* A command that ends leaves the others as they were, and nothing to lift.
Finishing ==
    \/ RevokedMany \/ LiftFails \/ RevokedOne \/ RunForgetSource \/ RunRemoveExemption \/ RunReload

\* The end of a command moves the others one place forward, none of which has begun.
LEMMA FinishingStep ==
    ASSUME TypeInv, CommandsInv, Finishing
    PROVE  /\ quota > 0 /\ pc' = "commanding" /\ todo' = {}
           /\ quota' = quota - 1 /\ quota' \in Nat /\ quota' \in 0..Len(commands')
           /\ \A n \in DOMAIN commands' :
                n + 1 \in DOMAIN commands /\ n + 1 # 1 /\ commands'[n] = commands[n + 1]
           /\ UNCHANGED <<actions, blocklist, assignments, forgotten, orphans, stopped, now>>
<1>1. quota > 0 /\ (Finish(TRUE) \/ Finish(FALSE)) /\ UNCHANGED deposited
    BY DEF Finishing, RevokedMany, LiftFails, ListFails, RevokedOne, RunForgetSource, RunRemoveExemption, RunReload,
        Begin, CommandsInv, Revoking, Ending, Lifting
<1>2. commands' = Tail(commands) /\ quota' = quota - 1 /\ pc' = "commanding" /\ todo' = {}
    BY <1>1 DEF Finish
<1>3. quota' \in 0..Len(commands')
    BY <1>1, FinishType
<1>5. quota \in Nat
    BY DEF TypeInv, TypeOK
<1>4. UNCHANGED <<actions, blocklist, assignments, forgotten, orphans, stopped, now>>
    BY DEF Finishing, RevokedMany, LiftFails, ListFails, RevokedOne, RunForgetSource, RunRemoveExemption, RunReload, places
<1> QED
    BY <1>1, <1>2, <1>3, <1>4, <1>5, FirstCommand

\* Who changes the place of the process, its commands and what it works on.
Standing ==
    /\ UNCHANGED <<actions, commands, quota, pc, todo, work, memory, forgotten, targets, left, seen>>
    /\ UNCHANGED history \/ pc = "handling"

\* Who changes where the process is, and the queue of the commands.
LEMMA ControlChanges ==
    ASSUME TypeInv, [Next]_vars
    PROVE  \/ Standing
           \/ Start \/ Die \/ Booted \/ Tick \/ StartReconcile \/ StartBatch \/ EndBatch
           \/ \E i \in Id : Reconcile(i)
           \/ RunRevoke \/ RunRevokeMany \/ RevokeNext \/ RunNotRecidive
           \/ LiftBan \/ Release \/ Lifted \/ SaveRevoked \/ EndInHistory \/ Exclude \/ ExemptSource
           \/ Finishing
           \/ \E ip \in Ip, starts \in BOOLEAN, kind \in Kinds, subjects \in SUBSET Agent :
                Decide(ip, starts, kind, subjects)
           \/ ApplyBan \/ AssignDecoy \/ DecoyAssigned \/ SaveResult \/ SaveSource
           \/ \E c \in Depositable : Deposit(c)
<1>1. CASE Operator
    BY <1>1, Deposited DEF EmergencyStop, Resume, Standing, control, reading, ghosts
<1>2. CASE Others
    BY <1>2, Outside DEF TimePasses, RegainAccess, ExemptionEnds, WrittenOutside, LoseAccess, DecoyByActiveDefense,
        ReleaseByHand, Standing, base, control, reading, ghosts
<1>3. CASE Commanding
    BY <1>3 DEF Commanding, Finishing
<1>4. CASE Handling
    BY <1>4 DEF Handling, LetPass, Standing, control, reading, ghosts
<1> QED
    BY <1>1, <1>2, <1>3, <1>4 DEF Next, Riposte, Standing, vars, base, control, reading, ghosts

\* A command that has begun is the first one until it is over, also across a death.
LEMMA CommandsStep ==
    ASSUME TypeInv, CommandsInv, WorkInv, TodoInv, [Next]_vars
    PROVE  CommandsInv'
<1>1. DOMAIN actions \subseteq DOMAIN actions'
    BY RegistryKept DEF Kept
<1>2. quota \in 0..Len(commands) /\ quota \in Nat /\ commands \in Seq(CommandType)
    BY DEF TypeInv, TypeOK
<1> USE DEF CommandsInv, Command, Revoking, Ending, Lifting, Deciding, base, control
<1>3. CASE Standing \/ Release \/ AssignDecoy \/ \E i \in Id : Reconcile(i)
    BY <1>1, <1>3 DEF Standing, Release, AssignDecoy, Reconcile
<1>4. CASE Start \/ Booted
    BY <1>1, <1>4 DEF Start, Booted
<1>5. CASE Die
    BY <1>1, <1>5 DEF Die
<1>6. CASE Tick
    BY <1>1, <1>2, <1>6 DEF Tick
<1>7. CASE StartReconcile \/ StartBatch
    BY <1>1, <1>7 DEF StartReconcile, StartBatch
<1>8. CASE EndBatch
    BY <1>1, <1>8 DEF EndBatch
<1>9. CASE RunRevoke
  <2>1. quota > 0 /\ Head(commands).kind = "revoke" /\ commands' = [commands EXCEPT ![1].begun = TRUE]
        /\ quota' = quota /\ pc' \in {"lifting", "ending"}
      BY <1>9 DEF RunRevoke, Begin
  <2>2. 1 \in DOMAIN commands /\ DOMAIN commands' = DOMAIN commands /\ commands' \in Seq(CommandType)
        /\ \A n \in DOMAIN commands :
            /\ commands'[n].kind = commands[n].kind /\ commands'[n].action = commands[n].action
            /\ commands'[n].begun => n = 1 \/ commands[n].begun
    <3> DEFINE begun == [commands[1] EXCEPT !.begun = TRUE]
    <3>1. 1 \in DOMAIN commands /\ commands[1] \in CommandType
        BY <1>2, <2>1
    <3>2. begun \in CommandType /\ begun.kind = commands[1].kind /\ begun.action = commands[1].action
        BY <3>1 DEF CommandType
    <3>3. commands' = [commands EXCEPT ![1] = begun]
        BY <2>1, <3>1
    <3> HIDE DEF begun
    <3> QED
        BY <1>2, <3>1, <3>2, <3>3
  <2>3. Head(commands') = commands'[1] /\ Head(commands) = commands[1]
      BY <2>2
  <2> QED
      BY <1>1, <2>1, <2>2, <2>3
<1>10. CASE RunRevokeMany
    BY <1>1, <1>10 DEF RunRevokeMany, Begin
<1>11. CASE RevokeNext
    BY <1>1, <1>11 DEF RevokeNext
<1>12. CASE RunNotRecidive
    BY <1>1, <1>12 DEF RunNotRecidive, Begin
<1>13. CASE LiftBan \/ Lifted \/ SaveRevoked
    BY <1>1, <1>13 DEF LiftBan, Lifted, SaveRevoked
<1>14. CASE EndInHistory
    BY <1>1, <1>14 DEF EndInHistory
<1>15. CASE Exclude \/ ExemptSource
    BY <1>1, <1>15 DEF Exclude, ExemptSource
<1>16. CASE Finishing
    BY <1>1, <1>16, FinishingStep
<1>17. ASSUME NEW ip \in Ip, NEW starts \in BOOLEAN, NEW kind \in Kinds, NEW subjects \in SUBSET Agent,
              Decide(ip, starts, kind, subjects)
       PROVE  CommandsInv'
    BY <1>1, <1>17 DEF Decide
<1>18. CASE ApplyBan \/ DecoyAssigned
    BY <1>1, <1>18 DEF ApplyBan, DecoyAssigned, Result
<1>19. CASE SaveResult \/ SaveSource
    BY <1>1, <1>19 DEF SaveResult, SaveSource
<1>20. ASSUME NEW c \in Depositable, Deposit(c) PROVE CommandsInv'
  <2>1. commands' = Append(commands, c) /\ UNCHANGED <<pc, quota, actions>> /\ pc \in {"idle", "down"}
      BY <1>20 DEF Deposit
  <2>2. \A n \in DOMAIN commands' : commands'[n] = c \/ (n \in DOMAIN commands /\ commands'[n] = commands[n])
      BY <1>2, <2>1 DEF Depositable
  <2> QED
      BY <1>1, <2>1, <2>2 DEF Depositable
<1> QED
    BY <1>3, <1>4, <1>5, <1>6, <1>7, <1>8, <1>9, <1>10, <1>11, <1>12, <1>13, <1>14, <1>15, <1>16, <1>17, <1>18,
        <1>19, <1>20, ControlChanges

\* An action leaves the list of those to reconcile or to revoke before it is closed.
LEMMA TodoStep ==
    ASSUME TypeInv, WorkInv, TodoInv, [Next]_vars
    PROVE  TodoInv'
<1>1. todo \subseteq DOMAIN actions /\ \A i \in todo : InProgress(actions[i])
    BY DEF TodoInv, Running
<1>2. CASE UNCHANGED actions /\ todo' \subseteq todo
           /\ (pc' \in {"down", "idle", "commanding", "handling"} \cup Deciding => todo' = {})
    BY <1>1, <1>2 DEF TodoInv, Running, InProgress
<1> USE DEF base, control
<1>3. CASE Standing \/ Die \/ Booted \/ Tick \/ StartBatch \/ EndBatch
    BY <1>2, <1>3 DEF Standing, Die, Booted, Tick, StartBatch, EndBatch, TodoInv, Deciding
<1>4. CASE Start \/ StartReconcile
    BY <1>4 DEF Start, StartReconcile, TodoInv, Running, InProgress, Deciding
<1>5. ASSUME NEW i \in Id, Reconcile(i) PROVE TodoInv'
  <2>1. DOMAIN actions' = DOMAIN actions /\ \A j \in DOMAIN actions : j # i => actions'[j] = actions[j]
      BY <1>5, ReconcileKept
  <2>2. todo' = todo \ {i} /\ pc' = pc /\ pc \in {"booting", "reconciling"}
      BY <1>5 DEF Reconcile
  <2> QED
      BY <1>1, <2>1, <2>2 DEF TodoInv, Running, InProgress, Deciding
<1>6. CASE RunRevoke \/ RunNotRecidive \/ RevokeNext
    BY <1>2, <1>6 DEF RunRevoke, RunNotRecidive, RevokeNext, Deciding
<1>7. CASE RunRevokeMany
    BY <1>7 DEF RunRevokeMany, TodoInv, Running, InProgress, Deciding
<1>8. CASE LiftBan \/ Release \/ Lifted \/ EndInHistory \/ ExemptSource
    BY <1>2, <1>8 DEF LiftBan, Release, Lifted, EndInHistory, ExemptSource, Deciding
<1>9. CASE SaveRevoked
  <2>1. work.id \notin todo /\ DOMAIN actions' = DOMAIN actions
        /\ \A j \in DOMAIN actions : j # work.id => actions'[j] = actions[j]
      BY <1>9 DEF SaveRevoked, Close, WorkInv, Lifting
  <2> QED
      BY <1>1, <1>9, <2>1 DEF SaveRevoked, TodoInv, Running, InProgress, Deciding
<1>10. CASE Exclude
  <2>1. DOMAIN actions' = DOMAIN actions /\ \A j \in DOMAIN actions : actions'[j].state = actions[j].state
    <3>1. work.id \in DOMAIN actions => actions[work.id] \in Action
        BY ActionFields DEF TypeInv, TypeOK
    <3> QED
        BY <1>10, <3>1 DEF Exclude, Action
  <2> QED
      BY <1>1, <1>10, <2>1 DEF Exclude, TodoInv, Running, InProgress, Deciding
<1>11. CASE Finishing
    BY <1>2, <1>11 DEF Finishing, RevokedMany, LiftFails, RevokedOne, RunForgetSource, RunRemoveExemption, RunReload,
        Finish, Begin
<1>12. CASE todo = {} /\ UNCHANGED todo
    BY <1>12 DEF TodoInv
<1>13. ASSUME NEW ip \in Ip, NEW starts \in BOOLEAN, NEW kind \in Kinds, NEW subjects \in SUBSET Agent,
              Decide(ip, starts, kind, subjects)
       PROVE  TodoInv'
    BY <1>12, <1>13 DEF Decide, TodoInv
<1>14. CASE ApplyBan \/ AssignDecoy \/ DecoyAssigned \/ SaveResult \/ SaveSource
    BY <1>12, <1>14 DEF ApplyBan, AssignDecoy, DecoyAssigned, SaveResult, SaveSource, TodoInv, Deciding
<1>15. ASSUME NEW c \in Depositable, Deposit(c) PROVE TodoInv'
    BY <1>2, <1>15 DEF Deposit, TodoInv
<1> QED
    BY <1>3, <1>4, <1>5, <1>6, <1>7, <1>8, <1>9, <1>10, <1>11, <1>13, <1>14, <1>15, ControlChanges

\* The registry a step of the lifting, of a decision or of a result leaves, action by action.
LEMMA OneChanges ==
    ASSUME TypeInv, WorkInv, TodoInv, NEW j \in DOMAIN actions, [Next]_vars
    PROVE  \/ actions'[j] = actions[j]
           \/ j = work.id /\ (SaveRevoked \/ Exclude \/ SaveResult)
           \/ Reconcile(j)
<1>1. \A i \in Id : Reconcile(i) => i = j \/ actions'[j] = actions[j]
    BY ReconcileKept
<1>2. SaveRevoked => j = work.id \/ actions'[j] = actions[j]
    BY DEF SaveRevoked, Close
<1>3. Exclude => j = work.id \/ actions'[j] = actions[j]
    BY DEF Exclude
<1>4. SaveResult => j = work.id \/ actions'[j] = actions[j]
    BY DEF SaveResult
<1>5. \A ip \in Ip, starts \in BOOLEAN, kind \in Kinds, subjects \in SUBSET Agent :
        Decide(ip, starts, kind, subjects) => actions'[j] = actions[j]
    BY DecideKept
<1> QED
    BY <1>1, <1>2, <1>3, <1>4, <1>5, RegistryChanges

\* The action the process works on stays the one its program counter speaks of.
LEMMA WorkStep ==
    ASSUME TypeInv, CommandsInv, WorkInv, TodoInv, [Next]_vars
    PROVE  WorkInv'
<1>1. actions \in Seq(Action) /\ \A i \in DOMAIN actions : i \in Nat /\ actions[i] \in Action
    BY ActionFields DEF TypeInv, TypeOK
<1>2. work \in WorkType /\ history \in [Ip -> Memory]
    BY DEF TypeInv, TypeOK
<1> USE DEF WorkInv, Lifting, Ending, Deciding, Applying, base, control
<1>3. CASE Standing
    BY <1>3 DEF Standing
<1>4. CASE Start \/ Die \/ Booted \/ Tick \/ StartReconcile \/ StartBatch \/ EndBatch \/ RunRevokeMany \/ Finishing
  <2>1. pc' \in {"booting", "down", "idle", "commanding", "reconciling", "handling", "revoking"}
      BY <1>4, FinishingStep DEF Start, Die, Booted, Tick, StartReconcile, StartBatch, EndBatch, RunRevokeMany
  <2> QED
      BY <2>1
<1>5. ASSUME NEW i \in Id, Reconcile(i) PROVE WorkInv'
    BY <1>5 DEF Reconcile
<1>6. CASE RunRevoke
  <2>1. quota > 0 /\ Command.kind = "revoke" /\ work' = [NoWork EXCEPT !.id = Command.action]
        /\ pc' = (IF InProgress(actions[Command.action]) THEN "lifting" ELSE "ending")
        /\ UNCHANGED <<actions, todo>> /\ todo = {}
      BY <1>6 DEF RunRevoke, Begin, TodoInv
  <2>2. Command.action \in DOMAIN actions
      BY <2>1, FirstCommand DEF CommandsInv
  <2>3. work'.id = Command.action
      BY <1>1, <2>1, <2>2, EmptyRecords
  <2> QED
      BY <2>1, <2>2, <2>3
<1>7. CASE RunNotRecidive
  <2>1. quota > 0 /\ Command.kind = "not_recidive" /\ work' = [NoWork EXCEPT !.id = Command.action]
        /\ pc' = "ending" /\ UNCHANGED actions
      BY <1>7 DEF RunNotRecidive, Begin
  <2>2. Command.action \in DOMAIN actions
      BY <2>1, FirstCommand DEF CommandsInv
  <2>3. work'.id = Command.action
      BY <1>1, <2>1, <2>2, EmptyRecords
  <2> QED
      BY <2>1, <2>2, <2>3
<1>8. CASE RevokeNext
  <2>1. PICK i \in todo : todo' = todo \ {i} /\ work' = [NoWork EXCEPT !.id = i]
      BY <1>8 DEF RevokeNext
  <2>2. i \in DOMAIN actions /\ InProgress(actions[i])
      BY DEF TodoInv, Running
  <2>3. work'.id = i
      BY <1>1, <2>1, <2>2, EmptyRecords
  <2> QED
      BY <1>8, <2>1, <2>2, <2>3 DEF RevokeNext
<1>9. CASE LiftBan \/ Release \/ Lifted
    BY <1>9 DEF LiftBan, Release, Lifted
<1>10. CASE SaveRevoked
    BY <1>10 DEF SaveRevoked, Close
<1>11. CASE EndInHistory \/ ExemptSource
    BY <1>11 DEF EndInHistory, ExemptSource
<1>12. CASE Exclude
    BY <1>12 DEF Exclude
<1>13. ASSUME NEW ip \in Ip, NEW starts \in BOOLEAN, NEW kind \in Kinds, NEW subjects \in SUBSET Agent,
              Decide(ip, starts, kind, subjects)
       PROVE  WorkInv'
  <2>1. work'.id = Len(actions) + 1
    <3>1. work' = [NoWork EXCEPT !.id = Len(actions) + 1]
        BY <1>13 DEF Decide
    <3>2. Len(actions) + 1 \in Nat
        BY <1>1
    <3> QED
        BY <3>1, <3>2, EmptyRecords
  <2>2. memory' = Observe(history[ip], starts) /\ pc' = "applying" /\ UNCHANGED history
      BY <1>13 DEF Decide
  <2>3. memory'.past = history[ip].past
      BY <1>2, <2>2, ObserveType
  <2>4. /\ work'.id \in DOMAIN actions' /\ actions'[work'.id].ip = ip /\ actions'[work'.id].state = "pending"
      BY <1>13, <2>1, DecideKept
  <2> QED
      BY <2>2, <2>3, <2>4
<1>14. CASE ApplyBan
    BY <1>14, BanApplied DEF ApplyBan
<1>15. CASE AssignDecoy
    BY <1>15, DecoyAssignedTo DEF AssignDecoy
<1>16. CASE DecoyAssigned
    BY <1>2, <1>16 DEF DecoyAssigned, Result, WorkType
<1>17. CASE SaveResult
    BY <1>1, <1>17 DEF SaveResult, Action
<1>18. CASE SaveSource
    BY <1>18 DEF SaveSource
<1>19. ASSUME NEW c \in Depositable, Deposit(c) PROVE WorkInv'
    BY <1>19 DEF Deposit
<1> QED
    BY <1>3, <1>4, <1>5, <1>6, <1>7, <1>8, <1>9, <1>10, <1>11, <1>12, <1>13, <1>14, <1>15, <1>16, <1>17, <1>18,
        <1>19, ControlChanges

\* A pending action is being put in place, or a death left it to the next start.
LEMMA PendingStep ==
    ASSUME TypeInv, CommandsInv, WorkInv, TodoInv, PendingInv, [Next]_vars
    PROVE  PendingInv'
<1>1. Kept(actions') /\ actions \in Seq(Action) /\ \A i \in DOMAIN actions : actions[i] \in Action
    BY RegistryKept, ActionFields DEF TypeInv, TypeOK
<1> USE DEF PendingInv, Applying, base, control
\* No action is pending: none becomes so, but by a decision.
<1>2. ASSUME pc \notin {"down", "booting"} \cup Applying, DOMAIN actions' = DOMAIN actions PROVE PendingInv'
    BY <1>1, <1>2 DEF Kept
<1>3. CASE Standing
    BY <1>3 DEF Standing
<1>4. CASE Die
    BY <1>4 DEF Die, Deciding
<1>5. CASE Start
    BY <1>5 DEF Start, Running, InProgress, ghosts
<1>6. CASE Booted
    BY <1>6 DEF Booted
<1>7. ASSUME NEW i \in Id, Reconcile(i) PROVE PendingInv'
  <2>1. /\ DOMAIN actions' = DOMAIN actions /\ \A j \in DOMAIN actions : j # i => actions'[j] = actions[j]
        /\ actions'[i].state # "pending"
      BY <1>7, ReconcileKept
  <2> QED
      BY <1>7, <2>1 DEF Reconcile
<1>8. CASE Tick \/ StartReconcile \/ StartBatch \/ EndBatch \/ RunRevoke \/ RunRevokeMany \/ RevokeNext \/ RunNotRecidive
           \/ LiftBan \/ Release \/ Lifted \/ EndInHistory \/ ExemptSource \/ SaveSource
    BY <1>2, <1>8 DEF Tick, StartReconcile, StartBatch, EndBatch, RunRevoke, RunRevokeMany, RevokeNext, RunNotRecidive,
        LiftBan, Release, Lifted, EndInHistory, ExemptSource, SaveSource, Begin
<1>9. CASE SaveRevoked \/ Exclude
    BY <1>2, <1>9 DEF SaveRevoked, Close, Exclude
<1>10. CASE Finishing
    BY <1>2, <1>10, FinishingStep DEF CommandsInv, Deciding
<1>11. ASSUME NEW ip \in Ip, NEW starts \in BOOLEAN, NEW kind \in Kinds, NEW subjects \in SUBSET Agent,
              Decide(ip, starts, kind, subjects)
       PROVE  PendingInv'
  <2>1. work' = [NoWork EXCEPT !.id = Len(actions) + 1] /\ pc' = "applying" /\ pc = "handling"
      BY <1>11 DEF Decide
  <2>2. work'.id = Len(actions) + 1
    <3>1. Len(actions) + 1 \in Nat
        BY <1>1
    <3> QED
        BY <2>1, <3>1, EmptyRecords
  <2>3. \A j \in DOMAIN actions : actions[j].state # "pending"
      BY <2>1
  <2>4. /\ DOMAIN actions' = DOMAIN actions \cup {Len(actions) + 1}
        /\ \A j \in DOMAIN actions : actions'[j] = actions[j]
        /\ actions'[Len(actions) + 1].subjects = {}
      BY <1>11, DecideKept
  <2> QED
      BY <2>1, <2>2, <2>3, <2>4
<1>12. CASE ApplyBan
    BY <1>12, BanApplied DEF ApplyBan, ghosts
<1>13. CASE AssignDecoy
    BY <1>13, DecoyAssignedTo DEF AssignDecoy, ghosts
<1>14. CASE DecoyAssigned
    BY <1>14 DEF DecoyAssigned, Result, TypeInv, WorkType, ghosts
<1>15. CASE SaveResult
  <2>1. work.id \in DOMAIN actions /\ work.result \in {"applied", "failed"}
      BY <1>15 DEF SaveResult, WorkInv, Deciding
  <2>2. actions'[work.id].state = work.result /\ \A j \in DOMAIN actions : j # work.id => actions'[j] = actions[j]
      BY <1>1, <1>15, <2>1 DEF SaveResult, Action
  <2> QED
      BY <1>15, <2>1, <2>2 DEF SaveResult, ghosts
<1>16. ASSUME NEW c \in Depositable, Deposit(c) PROVE PendingInv'
    BY <1>16 DEF Deposit
<1> QED
    BY <1>3, <1>4, <1>5, <1>6, <1>7, <1>8, <1>9, <1>10, <1>11, <1>12, <1>13, <1>14, <1>15, <1>16, ControlChanges

\* The clock never goes back.
LEMMA TimeMoves ==
    ASSUME TypeInv, [Next]_vars
    PROVE  now \in Nat /\ now' \in Nat /\ now' >= now
<1>1. now \in Nat
    BY Constants DEF TypeInv, TypeOK
<1>2. now' = now \/ now' = now + 1
  <2>1. CASE Others
      BY <2>1, Outside DEF TimePasses, RegainAccess, ExemptionEnds, WrittenOutside, LoseAccess, DecoyByActiveDefense,
          ReleaseByHand
  <2>2. CASE Commanding
      BY <2>2 DEF Commanding, Tick, StartReconcile, RunRevoke, RunRevokeMany, RevokeNext, RevokedMany, LiftBan,
          LiftFails, Release, Lifted, SaveRevoked, EndInHistory, Exclude, ExemptSource, RevokedOne,
          RunNotRecidive, RunForgetSource, RunRemoveExemption, RunReload
  <2>3. CASE Handling
      BY <2>3 DEF Handling, StartBatch, EndBatch, LetPass, Decide, ApplyBan, AssignDecoy, DecoyAssigned, SaveResult,
          SaveSource
  <2>4. CASE Operator
      BY <2>4, Deposited DEF Deposit, EmergencyStop, Resume
  <2>5. CASE Start \/ Die \/ (\E i \in Id : Reconcile(i)) \/ Booted
      BY <2>5 DEF Start, Die, Reconcile, Booted
  <2> QED
      BY <2>1, <2>2, <2>3, <2>4, <2>5 DEF Next, Riposte, vars
<1> QED
    BY <1>1, <1>2

\* An entry that carries an action was there before, unless the step has placed it; so was a decoy.
LEMMA ListedStep ==
    ASSUME TypeInv, WorkInv, [Next]_vars, NEW ip \in Ip, blocklist'[ip].action # 0
    PROVE  \/ blocklist'[ip] = blocklist[ip]
           \/ ApplyBan /\ blocklist'[ip].action = work.id /\ work'.result = "applied"
<1>1. blocklist \in [Ip -> Entry]
    BY DEF TypeInv, TypeOK
<1>2. CASE LiftBan
    BY <1>2, BanLifted DEF NoEntry
<1>3. CASE ApplyBan
    BY <1>1, <1>3, BanApplied
<1>4. ASSUME NEW j \in Ip, NEW e \in ForeignEntry, WrittenOutside([blocklist EXCEPT ![j] = e])
      PROVE  blocklist'[ip] = blocklist[ip]
    BY <1>1, <1>4 DEF WrittenOutside, ForeignEntry
<1> QED
    BY <1>2, <1>3, <1>4, BlocklistChanges

\* Every assignment of RIPOSTE was there before, or is of the decoy being applied.
LEMMA AssignedStep ==
    ASSUME TypeInv, WorkInv, [Next]_vars, NEW s \in Subject, assignments'[s].action # 0
    PROVE  \/ assignments'[s] = assignments[s]
           \/ AssignDecoy /\ assignments'[s].action = work.id /\ s \in work'.placed
<1>1. assignments \in [Subject -> Decoy]
    BY DEF TypeInv, TypeOK
<1>2. CASE Release
    BY <1>1, <1>2 DEF Release, NoDecoy
<1>3. CASE AssignDecoy
    BY <1>3, DecoyAssignedTo
<1>4. ASSUME NEW t \in Subject, (\E same \in BOOLEAN : DecoyByActiveDefense(t, same)) \/ ReleaseByHand(t)
      PROVE  assignments'[s] = assignments[s]
    BY <1>1, <1>4 DEF DecoyByActiveDefense, ReleaseByHand, NoDecoy
<1> QED
    BY <1>2, <1>3, <1>4, AssignmentsChange

\* An action that holds at the end of a step did before, unless the step has placed it.
LEMMA OursStep ==
    ASSUME TypeInv, WorkInv, [Next]_vars, NEW i \in DOMAIN actions, NEW s \in Subject, Ours(i, s)'
    PROVE  Ours(i, s) \/ (AssignDecoy /\ i = work.id)
<1>1. now \in Nat /\ now' \in Nat /\ now' >= now /\ i # 0
    BY TimeMoves DEF TypeInv, TypeOK
<1>2. assignments'[s].action = i /\ now' < assignments'[s].expires
    BY DEF Ours
<1>3. assignments[s].expires \in Nat
    BY DEF TypeInv, TypeOK, Decoy
<1>4. CASE assignments'[s] = assignments[s]
    BY <1>1, <1>2, <1>3, <1>4 DEF Ours
<1> QED
    BY <1>1, <1>2, <1>4, AssignedStep

\* Nothing of an action comes back in place but when it is applied.
LEMMA InPlaceStep ==
    ASSUME TypeInv, WorkInv, [Next]_vars, NEW i \in DOMAIN actions, InPlace(i)'
    PROVE  \/ InPlace(i)
           \/ ApplyBan /\ i = work.id /\ work'.result = "applied"
           \/ AssignDecoy /\ i = work.id
<1>1. now \in Nat /\ now' \in Nat /\ now' >= now /\ i # 0
    BY TimeMoves DEF TypeInv, TypeOK
<1>2. CASE \E s \in Subject : Ours(i, s)'
    BY <1>2, OursStep DEF InPlace
<1>3. ASSUME NEW ip \in Ip, blocklist'[ip].action = i, InForce(blocklist[ip])'
      PROVE  InPlace(i) \/ (ApplyBan /\ i = work.id /\ work'.result = "applied")
  <2>1. now' < blocklist'[ip].expires /\ blocklist'[ip].source # "none"
      BY <1>3 DEF InForce
  <2>2. blocklist[ip].expires \in Nat
      BY DEF TypeInv, TypeOK, Entry
  <2>3. CASE blocklist'[ip] = blocklist[ip]
      BY <1>1, <1>3, <2>1, <2>2, <2>3 DEF InPlace, InForce
  <2> QED
      BY <1>1, <1>3, <2>3, ListedStep
<1>4. (\E s \in Subject : Ours(i, s)') \/ (\E ip \in Ip : blocklist'[ip].action = i /\ InForce(blocklist[ip])')
    BY DEF InPlace
<1> QED
    BY <1>2, <1>3, <1>4

\* A failed result has placed nothing; what a decoy has placed is in the memory of the process.
LEMMA PlacingStep ==
    ASSUME TypeInv, PlacesInv, ProcessInv, [Next]_vars
    PROVE  PlacingInv'
<1>1. \A i \in DOMAIN actions : i # 0
    BY DEF TypeInv, TypeOK
<1> USE DEF ProcessInv, Applying
<1>2. CASE pc' \notin Applying
    BY <1>2 DEF PlacingInv
\* Nothing is placed: what was not in place is not, and the result stays.
<1>3. ASSUME ~ApplyBan, ~AssignDecoy, pc \in Applying, UNCHANGED <<pc, work>> PROVE PlacingInv'
  <2>1. work.id \in DOMAIN actions
      BY <1>3 DEF WorkInv, Deciding
  <2>2. \A ip \in Ip : blocklist'[ip].action = work.id => blocklist[ip].action = work.id
      BY <1>1, <1>3, <2>1, ListedStep
  <2>3. \A s \in Subject : assignments'[s].action = work.id => assignments[s].action = work.id
      BY <1>1, <1>3, <2>1, AssignedStep
  <2> QED
      BY <1>3, <2>2, <2>3 DEF PlacingInv
<1>4. ASSUME NEW ip \in Ip, NEW starts \in BOOLEAN, NEW kind \in Kinds, NEW subjects \in SUBSET Agent,
             Decide(ip, starts, kind, subjects)
      PROVE  PlacingInv'
  <2>1. work' = [NoWork EXCEPT !.id = Len(actions) + 1] /\ pc' = "applying" /\ UNCHANGED <<blocklist, assignments>>
      BY <1>4 DEF Decide, places
  <2>2. work'.id = Len(actions) + 1 /\ Len(actions) + 1 # 0
    <3>1. Len(actions) + 1 \in Nat /\ Len(actions) + 1 # 0
        BY DEF TypeInv, TypeOK
    <3>2. work'.id = Len(actions) + 1
        BY <2>1, <3>1, EmptyRecords
    <3> QED
        BY <3>1, <3>2
  <2>3. Len(actions) + 1 \notin DOMAIN actions
      BY <1>4, DecideKept
  <2> QED
      BY <2>1, <2>2, <2>3 DEF PlacingInv, PlacesInv, EntriesInv, DecoysInv
<1>5. CASE ApplyBan
  <2>1. /\ work.id \in DOMAIN actions /\ actions[work.id].kind = "ban" /\ pc = "applying"
        /\ pc' = "recording" /\ work'.id = work.id /\ UNCHANGED assignments
        /\ work'.result = "applied" \/ UNCHANGED blocklist
      BY <1>5, BanApplied DEF ApplyBan
  <2>2. \A s \in Subject : assignments[s].action # work.id
      BY <1>1, <2>1 DEF PlacesInv, DecoysInv
  <2> QED
      BY <2>1, <2>2 DEF PlacingInv
<1>6. CASE AssignDecoy
  <2>1. /\ work.id \in DOMAIN actions /\ pc = "applying" /\ pc' = pc /\ work'.id = work.id /\ UNCHANGED blocklist
        /\ work.placed \subseteq work'.placed
      BY <1>6, DecoyAssignedTo DEF AssignDecoy
  <2>2. \A s \in Subject : assignments'[s].action = work.id => s \in work'.placed
      BY <1>6, <2>1, DecoyAssignedTo DEF PlacingInv
  <2> QED
      BY <2>1, <2>2 DEF PlacingInv
<1>7. CASE DecoyAssigned
  <2>1. /\ work' = [work EXCEPT !.result = IF work.placed = {} THEN "failed" ELSE "applied"]
        /\ pc = "applying" /\ pc' = "recording" /\ UNCHANGED <<blocklist, assignments>>
      BY <1>7 DEF DecoyAssigned, Result, places
  <2>2. /\ work'.id = work.id /\ work'.placed = work.placed
        /\ work'.result = "failed" => work.placed = {}
      BY <2>1 DEF TypeInv, WorkType
  <2> QED
      BY <2>1, <2>2 DEF PlacingInv
<1>8. CASE Standing
    BY <1>2, <1>3, <1>5, <1>6, <1>8 DEF Standing
<1>9. CASE Start \/ Die \/ Booted \/ Tick \/ StartReconcile \/ StartBatch \/ EndBatch \/ RunRevoke \/ RunRevokeMany
           \/ RevokeNext \/ RunNotRecidive \/ LiftBan \/ Release \/ Lifted
    BY <1>2, <1>9 DEF Start, Die, Booted, Tick, StartReconcile, StartBatch, EndBatch, RunRevoke, RunRevokeMany,
        RevokeNext, RunNotRecidive, LiftBan, Release, Lifted
<1>10. CASE SaveRevoked \/ EndInHistory \/ Exclude \/ ExemptSource \/ SaveResult \/ SaveSource
    BY <1>2, <1>10 DEF SaveRevoked, EndInHistory, Exclude, ExemptSource, SaveResult, SaveSource
<1>11. CASE Finishing
    BY <1>2, <1>11, FinishingStep
<1>12. ASSUME NEW i \in Id, Reconcile(i) PROVE PlacingInv'
    BY <1>2, <1>12 DEF Reconcile
<1>13. ASSUME NEW c \in Depositable, Deposit(c) PROVE PlacingInv'
    BY <1>2, <1>13 DEF Deposit
<1> QED
    BY <1>4, <1>5, <1>6, <1>7, <1>8, <1>9, <1>10, <1>11, <1>12, <1>13, ControlChanges

\* An action that runs while the commands do has been given for in place.
LEMMA RunningIsKnown ==
    ASSUME TypeInv, PlacesInv, PendingInv, NEW i \in Running, pc \notin {"down", "booting"} \cup Applying,
           NEW s \in Subject, Ours(i, s)
    PROVE  actions[i].kind = "decoy" /\ s \in actions[i].subjects
<1>1. i \in DOMAIN actions /\ i # 0 /\ actions[i].state # "pending" /\ InProgress(actions[i])
    BY DEF Running, PendingInv, TypeInv, TypeOK
<1>2. assignments[s].action = i
    BY DEF Ours
<1> QED
    BY <1>1, <1>2 DEF PlacesInv, DecoysInv, InProgress

\* A lifting goes through all the subjects and ends with nothing in place.
LEMMA LiftingStep ==
    ASSUME TypeInv, PlacesInv, ProcessInv, [Next]_vars
    PROVE  LiftingInv'
<1>1. \A i \in DOMAIN actions : i # 0
    BY DEF TypeInv, TypeOK
<1> USE DEF ProcessInv
<1>2. CASE pc' \notin Lifting
    BY <1>2 DEF LiftingInv, Lifting
<1>3. CASE Standing
  <2>1. UNCHANGED <<pc, work, left, targets, actions>>
      BY <1>3 DEF Standing
  <2>2. CASE pc \in Lifting
    <3>1. work.id \in DOMAIN actions
        BY <2>2 DEF WorkInv, Lifting
    <3>2. ~ApplyBan /\ ~AssignDecoy
        BY <2>2 DEF ApplyBan, AssignDecoy, Lifting
    <3>3. \A s \in Subject : Ours(work.id, s)' => Ours(work.id, s)
        BY <2>1, <3>1, <3>2, OursStep DEF Ours
    <3>4. InPlace(work.id)' => InPlace(work.id)
        BY <2>1, <3>1, <3>2, InPlaceStep DEF InPlace, Ours
    <3> QED
        BY <2>1, <3>3, <3>4 DEF LiftingInv
  <2> QED
      BY <1>2, <2>1, <2>2
<1>4. CASE RunRevoke
  <2>1. quota > 0 /\ Command.kind = "revoke" /\ work' = [NoWork EXCEPT !.id = Command.action] /\ pc = "commanding"
        /\ UNCHANGED <<actions, assignments, now>>
      BY <1>4 DEF RunRevoke, Begin, places
  <2>2. Command.action \in DOMAIN actions /\ Command.action \in Nat
      BY <2>1, FirstCommand DEF CommandsInv, CommandType
  <2>3. work'.id = Command.action
      BY <2>1, <2>2, EmptyRecords
  <2>4. pc' = "lifting" => Command.action \in Running /\ left' = actions[Command.action].subjects
      BY <1>4, <2>2 DEF RunRevoke, Running
  <2>5. pc' # "saving"
      BY <1>4 DEF RunRevoke
  <2>6. ASSUME pc' = "lifting", NEW s \in Subject, Ours(Command.action, s) PROVE s \in left'
      BY <2>1, <2>4, <2>6, RunningIsKnown DEF Applying
  <2> QED
      BY <2>1, <2>3, <2>5, <2>6 DEF LiftingInv, Ours
<1>5. CASE RevokeNext
  <2>1. PICK i \in todo : work' = [NoWork EXCEPT !.id = i] /\ left' = actions[i].subjects
      BY <1>5 DEF RevokeNext
  <2>2. i \in Running /\ i \in Nat
      BY DEF TodoInv, TypeInv, TypeOK
  <2>3. work'.id = i /\ pc = "revoking" /\ pc' = "lifting" /\ UNCHANGED <<actions, assignments, now>>
      BY <1>5, <2>1, <2>2, EmptyRecords DEF RevokeNext, places, base
  <2>4. ASSUME NEW s \in Subject, Ours(i, s) PROVE s \in left'
      BY <2>1, <2>2, <2>3, <2>4, RunningIsKnown DEF Applying
  <2> QED
      BY <2>3, <2>4 DEF LiftingInv, Ours
<1>6. CASE LiftBan
  <2>1. /\ work.id \in DOMAIN actions /\ actions[work.id].kind = "ban" /\ pc' = "saving"
        /\ UNCHANGED <<assignments, actions, work>>
      BY <1>6 DEF LiftBan, WorkInv, Lifting, base, control
  <2>2. \A s \in Subject : assignments[s].action # work.id
      BY <1>1, <2>1 DEF PlacesInv, DecoysInv
  <2> QED
      BY <1>6, <2>1, <2>2, BanLifted DEF LiftingInv, InPlace, Ours
<1>7. CASE Release
  <2>1. /\ work.id \in DOMAIN actions /\ pc = "lifting" /\ UNCHANGED <<pc, work, now>>
        /\ \E s \in left :
            /\ left' = left \ {s}
            /\ assignments' = IF Ours(work.id, s) THEN [assignments EXCEPT ![s] = NoDecoy] ELSE assignments
      BY <1>7 DEF Release, WorkInv, Lifting
  <2>2. assignments \in [Subject -> Decoy] /\ left \subseteq Subject
      BY DEF TypeInv, TypeOK
  <2> QED
      BY <1>1, <2>1, <2>2 DEF LiftingInv, Ours, NoDecoy
<1>8. CASE Lifted
  <2>1. /\ work.id \in DOMAIN actions /\ pc = "lifting" /\ pc' = "saving"
        /\ UNCHANGED <<blocklist, assignments, actions, targets, work, now>>
        /\ actions[work.id].kind \notin targets \/ (actions[work.id].kind = "decoy" /\ left = {})
      BY <1>8 DEF Lifted, WorkInv, Lifting, places, base, reading
  <2>2. CASE actions[work.id].kind = "decoy" /\ left = {}
    <3>1. \A ip \in Ip : blocklist[ip].action # work.id
        BY <1>1, <2>1, <2>2 DEF PlacesInv, EntriesInv
    <3>2. \A s \in Subject : ~Ours(work.id, s)
        BY <2>1, <2>2 DEF LiftingInv
    <3> QED
        BY <2>1, <3>1, <3>2 DEF LiftingInv, InPlace, Ours
  <2>3. CASE actions[work.id].kind \notin targets
      BY <2>1, <2>3 DEF LiftingInv
  <2> QED
      BY <2>1, <2>2, <2>3
<1>9. CASE Start \/ Die \/ Booted \/ Tick \/ StartReconcile \/ StartBatch \/ EndBatch \/ RunRevokeMany
           \/ RunNotRecidive \/ SaveRevoked \/ EndInHistory \/ Exclude \/ ExemptSource
    BY <1>2, <1>9 DEF Start, Die, Booted, Tick, StartReconcile, StartBatch, EndBatch, RunRevokeMany,
        RunNotRecidive, SaveRevoked, EndInHistory, Exclude, ExemptSource, Lifting
<1>10. CASE ApplyBan \/ AssignDecoy \/ DecoyAssigned \/ SaveResult \/ SaveSource
    BY <1>2, <1>10 DEF ApplyBan, AssignDecoy, DecoyAssigned, Result, SaveResult, SaveSource, Lifting
<1>11. CASE Finishing
    BY <1>2, <1>11, FinishingStep DEF Lifting
<1>12. ASSUME NEW i \in Id, Reconcile(i) PROVE LiftingInv'
    BY <1>2, <1>12 DEF Reconcile, Lifting
<1>13. ASSUME NEW c \in Depositable, Deposit(c) PROVE LiftingInv'
    BY <1>2, <1>13 DEF Deposit, Lifting
<1>14. ASSUME NEW ip \in Ip, NEW starts \in BOOLEAN, NEW kind \in Kinds, NEW subjects \in SUBSET Agent,
             Decide(ip, starts, kind, subjects)
       PROVE  LiftingInv'
    BY <1>2, <1>14 DEF Decide, Lifting
<1> QED
    BY <1>3, <1>4, <1>5, <1>6, <1>7, <1>8, <1>9, <1>10, <1>11, <1>12, <1>13, <1>14, ControlChanges

-----------------------------------------------------------------------------
(* The safety properties.                                                   *)

\* An action closed without a look stays known for that.
LEMMA OrphansGrow ==
    ASSUME TypeInv, [Next]_vars
    PROVE  orphans \subseteq orphans'
<1>1. CASE Others
    BY <1>1, Outside DEF TimePasses, RegainAccess, ExemptionEnds, WrittenOutside, LoseAccess, DecoyByActiveDefense,
        ReleaseByHand, ghosts
<1> USE DEF ghosts
<1>2. CASE Commanding
    BY <1>2 DEF Commanding, Tick, StartReconcile, RunRevoke, RunRevokeMany, RevokeNext, RevokedMany, LiftBan,
        LiftFails, Release, Lifted, SaveRevoked, Orphaned, EndInHistory, Exclude, ExemptSource, RevokedOne,
        RunNotRecidive, RunForgetSource, RunRemoveExemption, RunReload
<1>3. CASE Handling
    BY <1>3 DEF Handling, StartBatch, EndBatch, LetPass, Decide, ApplyBan, AssignDecoy, DecoyAssigned, SaveResult,
        SaveSource
<1>4. CASE Operator
    BY <1>4, Deposited DEF Deposit, EmergencyStop, Resume
<1>5. CASE Start \/ Die \/ Booted
    BY <1>5 DEF Start, Die, Booted
<1>6. ASSUME NEW i \in Id, Reconcile(i) PROVE orphans \subseteq orphans'
  <2>1. \A inPlace : Judge(i, inPlace) => orphans \subseteq orphans'
      BY DEF Judge, Orphaned
  <2> QED
      BY <1>6, <2>1 DEF Reconcile, ExpireAction, JudgeBan, JudgeDecoy
<1> QED
    BY <1>1, <1>2, <1>3, <1>4, <1>5, <1>6 DEF Next, Riposte, vars

\* A reconciliation that sees its action absent is right, or the action is an orphan.
LEMMA JudgedAbsent ==
    ASSUME TypeInv, PlacesInv, TodoInv, NEW i \in Id, Reconcile(i), actions'[i].state \in {"failed", "revoked"},
           InPlace(i)
    PROVE  i \in orphans'
<1>1. /\ i \in DOMAIN actions /\ i # 0 /\ InProgress(actions[i]) /\ actions \in Seq(Action)
      /\ actions[i] \in Action
    BY ReconcileKept, ActionFields DEF TypeInv, TypeOK
<1>2. ~ExpireAction(i)
    BY <1>1 DEF ExpireAction, Close, Action
<1>3. ~Close(i, "unknown", "check_failed")
    BY <1>1 DEF Close, Action
\* The verdict was that of an absent action.
<1>4. ASSUME NEW inPlace \in BOOLEAN, Judge(i, inPlace) PROVE ~inPlace /\ orphans' = Orphaned(i)
  <2>1. actions'[i] = Verdict(actions[i], inPlace)
      BY <1>1, <1>4, JudgeKept
  <2>2. ~inPlace
      BY <1>1, <2>1, VerdictType
  <2> QED
      BY <1>4, <2>2 DEF Judge
<1>5. SUFFICES Blind(actions[i]) /\ orphans' = Orphaned(i)
    BY DEF Orphaned
<1>6. CASE JudgeBan(i)
  <2>1. \A s \in Subject : ~Ours(i, s)
      BY <1>1, <1>6 DEF JudgeBan, Ours, PlacesInv, DecoysInv
  <2>2. i \in Listed
      BY <1>1, <2>1 DEF InPlace, Listed
  <2>3. CASE "ban" \notin targets /\ Judge(i, FALSE)
      BY <1>4, <1>6, <2>3 DEF Blind, JudgeBan
  <2>4. ASSUME NEW ids, SeesList(ids), Judge(i, i \in ids)
        PROVE  Blind(actions[i]) /\ orphans' = Orphaned(i)
    <3>1. (i \in ids) \in BOOLEAN
        OBVIOUS
    <3>2. i \notin ids /\ orphans' = Orphaned(i)
        BY <1>4, <2>4, <3>1
    <3>3. access \in {"readable", "unreadable", "unreachable"}
        BY DEF TypeInv, TypeOK
    <3>4. access = "unreadable" /\ ~fresh
        BY <2>2, <2>4, <3>2, <3>3 DEF SeesList
    <3> QED
        BY <1>6, <3>2, <3>4 DEF Blind, JudgeBan
  <2> QED
      BY <1>3, <1>6, <2>3, <2>4 DEF JudgeBan
<1>7. CASE JudgeDecoy(i)
  <2> DEFINE inPlace == "decoy" \in targets /\ \E s \in actions[i].subjects : Ours(i, s)
  <2>1. inPlace \in BOOLEAN /\ Judge(i, inPlace)
      BY <1>7 DEF JudgeDecoy
  <2>2. ~inPlace /\ orphans' = Orphaned(i)
    <3> HIDE DEF inPlace
    <3> QED
        BY <1>4, <2>1
  <2>3. PICK s \in Subject : Ours(i, s)
      BY <1>1, <1>7 DEF JudgeDecoy, InPlace, PlacesInv, EntriesInv
  <2>4. actions[i].state = "pending" \/ s \in actions[i].subjects
      BY <1>1, <2>3 DEF Ours, PlacesInv, DecoysInv, InProgress
  <2>5. CASE "decoy" \notin targets
      BY <1>7, <2>2, <2>5 DEF Blind, JudgeDecoy
  <2>6. CASE "decoy" \in targets
    <3>1. actions[i].state = "pending"
        BY <2>2, <2>3, <2>4, <2>6
    <3> QED
        BY <1>7, <2>2, <3>1 DEF Blind, JudgeDecoy
  <2> QED
      BY <2>5, <2>6
<1> QED
    BY <1>2, <1>6, <1>7 DEF Reconcile

\* An action is closed as failed or revoked when nothing of it is in place, and nothing of it comes back.
LEMMA LeftBehindStep ==
    ASSUME TypeInv, PlacesInv, ProcessInv, NothingLeftBehind, [Next]_vars
    PROVE  NothingLeftBehind'
<1> USE DEF ProcessInv
<1> SUFFICES ASSUME NEW i \in DOMAIN actions', actions'[i].state \in {"failed", "revoked"}, InPlace(i)'
             PROVE  i \in orphans'
    BY DEF NothingLeftBehind
<1>1. i \in DOMAIN actions
  <2>1. \A ip \in Ip, starts \in BOOLEAN, kind \in Kinds, subjects \in SUBSET Agent :
            Decide(ip, starts, kind, subjects) => i \in DOMAIN actions
      BY DecideKept
  <2>2. \A j \in Id : Reconcile(j) => i \in DOMAIN actions
      BY ReconcileKept
  <2>3. SaveRevoked \/ Exclude \/ SaveResult => i \in DOMAIN actions
      BY DEF SaveRevoked, Close, Exclude, SaveResult
  <2> QED
      BY <2>1, <2>2, <2>3, RegistryChanges
<1>2. CASE actions[i].state \in {"failed", "revoked"}
  <2>1. i \in orphans \/ ~InPlace(i)
      BY <1>1, <1>2 DEF NothingLeftBehind
  <2>2. CASE ApplyBan \/ AssignDecoy
      BY <1>2, <2>1, <1>1, <2>2, InPlaceStep, OrphansGrow DEF ApplyBan, AssignDecoy, WorkInv, Applying
  <2> QED
      BY <1>1, <2>1, <2>2, InPlaceStep, OrphansGrow
<1>3. CASE actions[i].state \notin {"failed", "revoked"}
  <2>1. CASE Reconcile(i)
    <3>1. i \in Id /\ InPlace(i)
      <4>1. i \in Id
        <5>1. Len(actions) \in Nat /\ Len(actions) <= MaxActions /\ MaxActions \in Nat
              /\ DOMAIN actions = 1..Len(actions)
            BY Constants DEF TypeInv, TypeOK
        <5> QED
            BY <1>1, <5>1 DEF Id
      <4>2. UNCHANGED <<blocklist, assignments, now>>
          BY <2>1 DEF Reconcile, places
      <4> QED
          BY <4>1, <4>2 DEF InPlace, InForce, Ours
    <3> QED
        BY <2>1, <3>1, JudgedAbsent
  <2>2. CASE i = work.id /\ SaveRevoked
    <3>1. InPlace(i)
        BY <2>2 DEF SaveRevoked, places, InPlace, InForce, Ours
    <3>2. actions[work.id].kind \notin targets
        BY <2>2, <3>1 DEF LiftingInv, SaveRevoked
    <3> QED
        BY <2>2, <3>1, <3>2 DEF SaveRevoked, Orphaned, Blind
  <2>3. CASE i = work.id /\ SaveResult
    <3>1. InPlace(i)
        BY <2>3 DEF SaveResult, places, InPlace, InForce, Ours
    <3>2. actions'[i].state = work.result
      <4>1. actions[i] \in Action
          BY <1>1, ActionFields DEF TypeInv, TypeOK
      <4> QED
          BY <1>1, <2>3, <4>1 DEF SaveResult, Action
    <3>3. work.result = "failed" /\ pc = "recording"
        BY <2>3, <3>2 DEF SaveResult, WorkInv
    <3> QED
        BY <2>3, <3>1, <3>3 DEF PlacingInv, InPlace, Ours
  <2>4. CASE i = work.id /\ Exclude
    <3>1. actions[i] \in Action
        BY <1>1, ActionFields DEF TypeInv, TypeOK
    <3> QED
        BY <1>1, <1>3, <2>4, <3>1 DEF Exclude, Action
  <2> QED
      BY <1>1, <1>3, <2>1, <2>2, <2>3, <2>4, OneChanges
<1> QED
    BY <1>2, <1>3

-----------------------------------------------------------------------------
(* The emergency stop, the exemptions and the caps.                         *)

\* An action that runs ran before, unless the step has decided it.
LEMMA RunningStep ==
    ASSUME TypeInv, CommandsInv, WorkInv, TodoInv, [Next]_vars, NEW i \in Running'
    PROVE  \/ i \in Running
           \/ /\ i = Len(actions) + 1 /\ i \notin DOMAIN actions
              /\ \E ip \in Ip, starts \in BOOLEAN, kind \in Kinds, subjects \in SUBSET Agent :
                    Decide(ip, starts, kind, subjects)
<1>1. Kept(actions') /\ i \in DOMAIN actions' /\ InProgress(actions'[i])
    BY RegistryKept DEF Running, InProgress
<1>2. CASE i \in DOMAIN actions
  <2>1. ~Finished(actions[i])
      BY <1>1, <1>2 DEF Kept, Finished, InProgress
  <2> QED
      BY <1>2, <2>1 DEF Running, Finished
<1>3. CASE i \notin DOMAIN actions
  <2>1. \A j \in Id : ~Reconcile(j)
      BY <1>1, <1>3, ReconcileKept
  <2>2. ~(SaveRevoked \/ Exclude \/ SaveResult) /\ actions' # actions
      BY <1>1, <1>3 DEF SaveRevoked, Close, Exclude, SaveResult
  <2>3. PICK ip \in Ip, starts \in BOOLEAN, kind \in Kinds, subjects \in SUBSET Agent :
            Decide(ip, starts, kind, subjects)
      BY <2>1, <2>2, RegistryChanges
  <2>4. DOMAIN actions' = DOMAIN actions \cup {Len(actions) + 1}
      BY <2>3, DecideKept
  <2> QED
      BY <1>1, <1>3, <2>3, <2>4
<1> QED
    BY <1>2, <1>3

\* Who changes the emergency stop, its history variable and the exemptions.
LEMMA StopChanges ==
    ASSUME TypeInv, [Next]_vars
    PROVE  \/ UNCHANGED <<stopped, cleared>> /\ exempt' \subseteq exempt
           \/ EmergencyStop \/ Resume \/ ExemptSource \/ Finishing
<1> USE DEF places, base, reading, control, ghosts, vars
<1>1. CASE Commanding
    BY <1>1 DEF Commanding, Tick, StartReconcile, RunRevoke, RunRevokeMany, RevokeNext, LiftBan,
        Release, Lifted, SaveRevoked, EndInHistory, Exclude, RunNotRecidive, Finishing
<1>2. CASE Handling
    BY <1>2 DEF Handling, StartBatch, EndBatch, LetPass, Decide, ApplyBan, AssignDecoy, DecoyAssigned, SaveResult,
        SaveSource
<1>3. CASE Operator
    BY <1>3, Deposited DEF Deposit
<1>4. CASE Others
    BY <1>4, Outside DEF TimePasses, WrittenOutside, ExemptionEnds, LoseAccess, RegainAccess, DecoyByActiveDefense,
        ReleaseByHand
<1>5. CASE Start \/ Die \/ Booted
    BY <1>5 DEF Start, Die, Booted
<1>6. ASSUME NEW i \in Id, Reconcile(i) PROVE UNCHANGED <<stopped, cleared, exempt>>
    BY <1>6 DEF Reconcile
<1> QED
    BY <1>1, <1>2, <1>3, <1>4, <1>5, <1>6 DEF Next, Riposte

\* A batch reads the emergency stop and the exemptions once, when it starts.
LEMMA BatchStep ==
    ASSUME TypeInv, [Next]_vars, pc' \in {"handling"} \cup Deciding
    PROVE  /\ StartBatch \/ (pc \in {"handling"} \cup Deciding /\ UNCHANGED seen)
           /\ pc' \in Deciding => \/ pc \in Deciding
                                  \/ \E ip \in Ip, starts \in BOOLEAN, kind \in Kinds, subjects \in SUBSET Agent :
                                        Decide(ip, starts, kind, subjects)
           /\ pc' = "handling" => StartBatch \/ pc \in {"handling", "remembering"}
<1> USE DEF Deciding, base, control
<1>1. CASE Standing \/ EndBatch \/ ApplyBan \/ AssignDecoy \/ DecoyAssigned \/ SaveResult \/ SaveSource
    BY <1>1 DEF Standing, EndBatch, ApplyBan, AssignDecoy, DecoyAssigned, SaveResult, SaveSource, Result
<1>2. CASE StartBatch
    BY <1>2 DEF StartBatch
<1>3. ASSUME NEW ip \in Ip, NEW starts \in BOOLEAN, NEW kind \in Kinds, NEW subjects \in SUBSET Agent,
              Decide(ip, starts, kind, subjects)
      PROVE  pc = "handling" /\ pc' = "applying" /\ UNCHANGED seen
    BY <1>3 DEF Decide
<1>4. CASE Start \/ Die \/ Booted \/ Tick \/ StartReconcile \/ \E i \in Id : Reconcile(i)
    BY <1>4 DEF Start, Die, Booted, Tick, StartReconcile, Reconcile
<1>5. CASE RunRevoke \/ RunRevokeMany \/ RevokeNext \/ RunNotRecidive
    BY <1>5 DEF RunRevoke, RunRevokeMany, RevokeNext, RunNotRecidive
<1>6. CASE LiftBan \/ Release \/ Lifted \/ SaveRevoked \/ EndInHistory \/ Exclude \/ ExemptSource
    BY <1>6 DEF LiftBan, Release, Lifted, SaveRevoked, EndInHistory, Exclude, ExemptSource
<1>7. CASE Finishing
    BY <1>7 DEF Finishing, RevokedMany, LiftFails, RevokedOne, RunForgetSource, RunRemoveExemption, RunReload, Finish
<1>8. CASE \E c \in Depositable : Deposit(c)
    BY <1>8 DEF Deposit
<1> QED
  <2>1. CASE \E ip \in Ip, starts \in BOOLEAN, kind \in Kinds, subjects \in SUBSET Agent :
                Decide(ip, starts, kind, subjects)
      BY <1>3, <2>1
  <2> QED
      BY <1>1, <1>2, <1>4, <1>5, <1>6, <1>7, <1>8, <2>1, ControlChanges

\* A revoke_all takes the running actions one after the other, and none appears meanwhile.
LEMMA RevokingStep ==
    ASSUME TypeInv, ProcessInv, StopInv, [Next]_vars, pc' \in Revoking, Command'.kind = "revoke_all",
           NEW i \in Running'
    PROVE  i \in todo' \/ (pc' \in Lifting /\ i = work'.id)
<1> USE DEF ProcessInv, Revoking, Lifting, base, control
<1>1. i \in Running
  <2>1. ASSUME NEW ip \in Ip, NEW starts \in BOOLEAN, NEW kind \in Kinds, NEW subjects \in SUBSET Agent
        PROVE  ~Decide(ip, starts, kind, subjects)
      BY DEF Decide
  <2> QED
      BY <2>1, RunningStep
<1>2. CASE Standing
    BY <1>1, <1>2 DEF Standing, StopInv, Command
<1>3. CASE RunRevoke
  <2>1. quota > 0 /\ Head(commands).kind = "revoke" /\ commands' = [commands EXCEPT ![1].begun = TRUE]
      BY <1>3 DEF RunRevoke, Begin, Command
  <2>2. Command = commands[1] /\ 1 \in DOMAIN commands /\ commands[1] \in CommandType /\ Len(commands) > 0
      BY <2>1, FirstCommand
  <2>3. commands \in Seq(CommandType)
      BY DEF TypeInv
  <2> DEFINE begun == [commands[1] EXCEPT !.begun = TRUE]
  <2>4. begun \in CommandType /\ begun.kind = "revoke"
      BY <2>1, <2>2 DEF CommandType, Command
  <2>5. commands' = [commands EXCEPT ![1] = begun]
      BY <2>1, <2>2
  <2> HIDE DEF begun
  <2>6. Head(commands') = begun
      BY <2>2, <2>3, <2>4, <2>5
  <2> QED
      BY <2>4, <2>6 DEF Command
<1>4. CASE RunRevokeMany
    BY <1>1, <1>4 DEF RunRevokeMany, Command
<1>5. CASE RunNotRecidive
    BY <1>5 DEF RunNotRecidive, Begin, Command
<1>6. CASE RevokeNext
  <2>1. PICK j \in todo : todo' = todo \ {j} /\ work' = [NoWork EXCEPT !.id = j]
      BY <1>6 DEF RevokeNext
  <2>2. j \in Nat
      BY <2>1 DEF TypeInv, TypeOK
  <2>3. work'.id = j
      BY <2>1, <2>2, EmptyRecords
  <2> QED
      BY <1>1, <1>6, <2>1, <2>3 DEF RevokeNext, StopInv, Command
<1>7. CASE LiftBan \/ Release \/ Lifted
    BY <1>1, <1>7 DEF LiftBan, Release, Lifted, StopInv, Command
<1>8. CASE SaveRevoked
  <2>1. work.id \in DOMAIN actions /\ actions'[work.id].state = "revoked"
    <3>1. work.id \in DOMAIN actions /\ actions \in Seq(Action) /\ actions[work.id] \in Action
        BY <1>8, ActionFields DEF SaveRevoked, WorkInv, TypeInv, TypeOK
    <3> QED
        BY <1>8, <3>1 DEF SaveRevoked, Close, Action
  <2>2. i # work.id
      BY <2>1 DEF Running, InProgress
  <2> QED
      BY <1>1, <1>8, <2>2 DEF SaveRevoked, StopInv, Command
<1>9. CASE EndInHistory
    BY <1>1, <1>9 DEF EndInHistory, StopInv, Command
<1>10. CASE Start \/ Die \/ Booted \/ Tick \/ StartReconcile \/ StartBatch \/ EndBatch \/ \E j \in Id : Reconcile(j)
    BY <1>10 DEF Start, Die, Booted, Tick, StartReconcile, StartBatch, EndBatch, Reconcile
<1>11. CASE Exclude \/ ExemptSource
    BY <1>11 DEF Exclude, ExemptSource
<1>12. CASE Finishing
    BY <1>12, FinishingStep
<1>13. CASE ApplyBan \/ AssignDecoy \/ DecoyAssigned \/ SaveResult \/ SaveSource
    BY <1>13 DEF ApplyBan, AssignDecoy, DecoyAssigned, SaveResult, SaveSource, Result
<1>14. CASE \E c \in Depositable : Deposit(c)
    BY <1>14 DEF Deposit
<1>15. CASE \E ip \in Ip, starts \in BOOLEAN, kind \in Kinds, subjects \in SUBSET Agent :
                Decide(ip, starts, kind, subjects)
    BY <1>15 DEF Decide
<1> QED
    BY <1>2, <1>3, <1>4, <1>5, <1>6, <1>7, <1>8, <1>9, <1>10, <1>11, <1>12, <1>13, <1>14, <1>15, ControlChanges

\* A revoke_all goes through every running action, and the stop keeps decisions from beginning.
LEMMA StopStep ==
    ASSUME TypeInv, ProcessInv, StopInv, [Next]_vars
    PROVE  StopInv'
<1> USE DEF ProcessInv
<1>1. pc' \in Revoking /\ Command'.kind = "revoke_all" =>
        \A i \in Running' : i \in todo' \/ (pc' \in Lifting /\ i = work'.id)
    BY RevokingStep
<1>2. ASSUME cleared, stopped', seen.stop \/ pc # "handling"
      PROVE  Running' = {} /\ pc' \notin Deciding /\ (pc' = "handling" => seen'.stop)
  <2>1. stopped /\ Running = {} /\ pc \notin Deciding
      BY <1>2 DEF StopInv
  <2>2. ASSUME NEW ip \in Ip, NEW starts \in BOOLEAN, NEW kind \in Kinds, NEW subjects \in SUBSET Agent
        PROVE  ~Decide(ip, starts, kind, subjects)
      BY <1>2 DEF Decide, MayAct
  <2>3. Running' = {}
      BY <2>1, <2>2, RunningStep
  <2>4. pc' \notin Deciding
      BY <2>1, <2>2, BatchStep
  <2>5. pc' = "handling" => seen'.stop
    <3>1. StartBatch => seen'.stop
        BY <2>1 DEF StartBatch
    <3>2. pc' = "handling" => StartBatch \/ (pc = "handling" /\ UNCHANGED seen)
        BY <2>1, BatchStep DEF Deciding
    <3> QED
        BY <1>2, <3>1, <3>2
  <2> QED
      BY <2>3, <2>4, <2>5
<1>3. ASSUME cleared', ~cleared
      PROVE  stopped' /\ Running' = {} /\ pc' \notin Deciding \cup {"handling"}
  <2>1. Finishing
      BY <1>3, StopChanges DEF EmergencyStop, Resume, ExemptSource, ghosts
  <2>2. ~LiftFails
      BY <1>3 DEF LiftFails, Finish
  <2>3. ~(RunForgetSource \/ RunRemoveExemption \/ RunReload)
      BY <1>3 DEF RunForgetSource, RunRemoveExemption, RunReload, Finish, Begin
  <2>4. ~RevokedOne
      BY <1>3 DEF RevokedOne, Finish, CommandsInv, Ending
  <2>5. RevokedMany
      BY <2>1, <2>2, <2>3, <2>4 DEF Finishing
  <2>6. stopped /\ Command.kind = "revoke_all" /\ pc = "revoking" /\ todo = {} /\ pc' = "commanding"
        /\ UNCHANGED <<stopped, actions>>
      BY <1>3, <2>5 DEF RevokedMany, Finish
  <2>7. Running = {}
      BY <2>6 DEF StopInv, Revoking, Lifting
  <2> QED
      BY <2>6, <2>7 DEF Running, Deciding
<1>4. ASSUME cleared, cleared' PROVE stopped'
  <2>1. stopped
      BY <1>4 DEF StopInv
  <2> QED
      BY <1>4, <2>1, StopChanges, FinishingStep DEF EmergencyStop, Resume, ExemptSource
<1>5. cleared => seen.stop \/ pc # "handling"
    BY DEF StopInv
<1>6. cleared' => /\ stopped' /\ Running' = {} /\ pc' \notin Deciding /\ (pc' = "handling" => seen'.stop)
  <2>1. CASE cleared
      BY <1>2, <1>4, <1>5, <2>1
  <2>2. CASE ~cleared
      BY <1>3, <2>2
  <2> QED
      BY <2>1, <2>2
<1> QED
    BY <1>1, <1>6 DEF StopInv

\* What a decision does to the exemptions and to the caps.
LEMMA ExemptStep ==
    ASSUME TypeInv, CommandsInv, ExemptInv, [Next]_vars
    PROVE  ExemptInv'
<1> SUFFICES ASSUME pc' \in {"handling"} \cup Deciding
             PROVE  exempt' \subseteq seen'.exempt
    BY DEF ExemptInv
<1>1. CASE StartBatch
    BY <1>1 DEF StartBatch, base
<1>2. CASE pc \in {"handling"} \cup Deciding /\ UNCHANGED seen
  <2>1. exempt \subseteq seen.exempt
      BY <1>2 DEF ExemptInv
  <2>2. ~Finishing /\ ~ExemptSource
      BY <1>2, FinishingStep DEF CommandsInv, Deciding, ExemptSource, TypeInv, TypeOK
  <2>3. exempt' \subseteq exempt
      BY <2>2, StopChanges DEF EmergencyStop, Resume
  <2> QED
      BY <1>2, <2>1, <2>3
<1> QED
    BY <1>1, <1>2, BatchStep

\* The running bans can be counted.
LEMMA RunningBansAreFinite ==
    ASSUME TypeInv
    PROVE  IsFiniteSet(RunningBans) /\ Cardinality(RunningBans) \in Nat
<1>1. Len(actions) \in Nat /\ DOMAIN actions = 1..Len(actions)
    BY DEF TypeInv, TypeOK
<1>2. IsFiniteSet(1..Len(actions))
    BY <1>1, FS_Interval
<1>3. RunningBans \subseteq 1..Len(actions)
    BY <1>1 DEF RunningBans, Running
<1> QED
    BY <1>2, <1>3, FS_Subset, FS_CardinalityType

\* A ban that runs ran before, or has just been decided while the cap was not reached.
LEMMA CapStep ==
    ASSUME TypeInv, CommandsInv, WorkInv, TodoInv, CapInv, [Next]_vars
    PROVE  CapInv'
<1>1. IsFiniteSet(RunningBans) /\ Cardinality(RunningBans) \in Nat /\ MaxActiveBans \in Nat
    BY RunningBansAreFinite, Constants
<1>2. ASSUME NEW i \in RunningBans', i \in Running
      PROVE  i \in RunningBans
  <2>1. Kept(actions') /\ i \in DOMAIN actions /\ actions'[i].kind = "ban"
      BY <1>2, RegistryKept DEF RunningBans, Running
  <2> QED
      BY <1>2, <2>1 DEF RunningBans, Kept
<1>3. CASE RunningBans' \subseteq RunningBans
  <2>1. Cardinality(RunningBans') <= Cardinality(RunningBans) /\ Cardinality(RunningBans') \in Nat
      BY <1>1, <1>3, FS_Subset, FS_CardinalityType
  <2> QED
      BY <1>1, <2>1 DEF CapInv
<1>4. CASE \E i \in RunningBans' : i \notin Running
  <2> DEFINE new == Len(actions) + 1
  <2>1. PICK i \in RunningBans' : i \notin Running
      BY <1>4
  <2>2. i \in Running'
      BY <2>1 DEF RunningBans
  <2>3. PICK ip \in Ip, starts \in BOOLEAN, kind \in Kinds, subjects \in SUBSET Agent :
            Decide(ip, starts, kind, subjects)
      BY <2>1, <2>2, RunningStep
  <2>4. i = new /\ actions'[new].kind = kind
      BY <2>1, <2>2, <2>3, RunningStep, DecideKept
  <2>5. kind = "ban"
      BY <2>1, <2>4 DEF RunningBans
  <2>6. Cardinality(RunningBans) < MaxActiveBans
      BY <2>3, <2>5 DEF Decide, MayAct
  <2> HIDE DEF new
  <2>7. RunningBans' \subseteq RunningBans \cup {new}
    <3>1. \A j \in RunningBans' : j \in Running'
        BY DEF RunningBans
    <3>2. \A j \in RunningBans' : j \in Running \/ j = new
        BY <3>1, RunningStep DEF new
    <3> QED
        BY <1>2, <3>2
  <2>8. /\ IsFiniteSet(RunningBans \cup {new})
        /\ \/ Cardinality(RunningBans \cup {new}) = Cardinality(RunningBans)
           \/ Cardinality(RunningBans \cup {new}) = Cardinality(RunningBans) + 1
      BY <1>1, FS_AddElement
  <2>9. Cardinality(RunningBans') <= Cardinality(RunningBans \cup {new}) /\ Cardinality(RunningBans') \in Nat
      BY <2>7, <2>8, FS_Subset, FS_CardinalityType
  <2> QED
      BY <1>1, <2>6, <2>8, <2>9 DEF CapInv
<1> QED
    BY <1>2, <1>3, <1>4

\* Only the reconciliation of an action that is past its end gives it for expired.
LEMMA ExpiredStep ==
    ASSUME TypeInv, CommandsInv, WorkInv, TodoInv, ExpiredInv, [Next]_vars
    PROVE  ExpiredInv'
<1> SUFFICES ASSUME NEW i \in DOMAIN actions', actions'[i].state = "expired"
             PROVE  now' >= actions'[i].ends
    BY DEF ExpiredInv
<1>1. Kept(actions') /\ now \in Nat /\ now' \in Nat /\ now' >= now
    BY RegistryKept, TimeMoves
<1>2. i \in DOMAIN actions
  <2>1. \A ip \in Ip, starts \in BOOLEAN, kind \in Kinds, subjects \in SUBSET Agent :
            Decide(ip, starts, kind, subjects) => i \in DOMAIN actions
      BY DecideKept
  <2>2. \A j \in Id : Reconcile(j) => i \in DOMAIN actions
      BY ReconcileKept
  <2>3. SaveRevoked \/ Exclude \/ SaveResult => i \in DOMAIN actions
      BY DEF SaveRevoked, Close, Exclude, SaveResult
  <2> QED
      BY <2>1, <2>2, <2>3, RegistryChanges
<1>3. actions[i] \in Action /\ actions[i].ends \in Nat /\ actions'[i].ends = actions[i].ends
    BY <1>1, <1>2, ActionFields DEF TypeInv, TypeOK, Action, Kept
<1>4. CASE actions[i].state = "expired"
    BY <1>1, <1>2, <1>3, <1>4 DEF ExpiredInv
<1>5. CASE actions[i].state # "expired"
  <2>1. ~(i = work.id /\ (SaveRevoked \/ Exclude \/ SaveResult))
    <3>1. i = work.id /\ SaveRevoked => actions'[i].state = "revoked"
        BY <1>2, <1>3 DEF SaveRevoked, Close, Action
    <3>2. i = work.id /\ Exclude => actions'[i].state = actions[i].state
      <4>1. Exclude => actions' = actions \/ actions' = [actions EXCEPT ![work.id].counts = FALSE]
          BY DEF Exclude
      <4>2. actions \in Seq(Action)
          BY DEF TypeInv, TypeOK
      <4>3. [actions[i] EXCEPT !.counts = FALSE].state = actions[i].state
          BY <1>3 DEF Action
      <4>4. [actions EXCEPT ![i].counts = FALSE][i] = [actions[i] EXCEPT !.counts = FALSE]
          BY <1>2, <4>2
      <4> QED
          BY <4>1, <4>3, <4>4
    <3>3. i = work.id /\ SaveResult => actions'[i].state \in {"applied", "failed"}
      <4>1. SaveResult => work.result \in {"applied", "failed"}
          BY DEF SaveResult, WorkInv
      <4> QED
          BY <1>2, <1>3, <4>1 DEF SaveResult, Action
    <3> QED
        BY <1>5, <3>1, <3>2, <3>3
  <2>2. Reconcile(i)
      BY <1>2, <1>5, <2>1, OneChanges
  <2>3. ~(\E inPlace \in BOOLEAN : Judge(i, inPlace))
      BY <1>2, <1>3, VerdictType DEF Judge
  <2>4. ~Close(i, "unknown", "check_failed")
      BY <1>2, <1>3 DEF Close, Action
  <2>5. ~JudgeBan(i)
    <3>1. \A ids : (i \in ids) \in BOOLEAN
        OBVIOUS
    <3> QED
        BY <2>3, <2>4, <3>1, Zenon DEF JudgeBan
  <2>6. ~JudgeDecoy(i)
    <3>1. ("decoy" \in targets /\ \E s \in actions[i].subjects : Ours(i, s)) \in BOOLEAN
        OBVIOUS
    <3> QED
        BY <2>3, <3>1 DEF JudgeDecoy
  <2>7. now >= actions[i].ends
      BY <2>2, <2>5, <2>6 DEF Reconcile, ExpireAction
  <2> QED
      BY <1>1, <1>3, <2>7
<1> QED
    BY <1>4, <1>5

-----------------------------------------------------------------------------
(* The memory of a source.                                                  *)

\* Who changes what is remembered.
LEMMA HistoryChanges ==
    ASSUME TypeInv, [Next]_vars
    PROVE  \/ UNCHANGED history
           \/ EndInHistory \/ RunForgetSource \/ SaveSource
           \/ \E ip \in Ip, starts \in BOOLEAN : LetPass(ip, starts)
<1> USE DEF places, base, reading, control, ghosts, vars
<1>1. CASE Commanding
    BY <1>1 DEF Commanding, Tick, StartReconcile, RunRevoke, RunRevokeMany, RevokeNext, RevokedMany, LiftBan,
        LiftFails, Release, Lifted, SaveRevoked, Exclude, ExemptSource, RevokedOne, RunNotRecidive,
        RunRemoveExemption, RunReload
<1>2. CASE Handling
    BY <1>2 DEF Handling, StartBatch, EndBatch, Decide, ApplyBan, AssignDecoy, DecoyAssigned, SaveResult
<1>3. CASE Operator
    BY <1>3, Deposited DEF Deposit, EmergencyStop, Resume
<1>4. CASE Others
    BY <1>4, Outside DEF TimePasses, WrittenOutside, ExemptionEnds, LoseAccess, RegainAccess, DecoyByActiveDefense,
        ReleaseByHand
<1>5. CASE Start \/ Die \/ Booted
    BY <1>5 DEF Start, Die, Booted
<1>6. ASSUME NEW i \in Id, Reconcile(i) PROVE UNCHANGED history
    BY <1>6 DEF Reconcile
<1> QED
    BY <1>1, <1>2, <1>3, <1>4, <1>5, <1>6 DEF Next, Riposte

\* A source keeps the memory of its actions as long as one of them runs.
LEMMA MemoryKept ==
    ASSUME TypeInv, WorkInv, [Next]_vars, NEW ip \in Ip, RunningFor(ip) # {},
           NEW p \in history[ip].past
    PROVE  \E q \in history'[ip].past : q.id = p.id
<1>1. history \in [Ip -> Memory] /\ history[ip].past \subseteq [id : Id, counts : BOOLEAN]
    BY DEF TypeInv, TypeOK, Memory
<1>2. CASE EndInHistory
  <2> DEFINE ended(q) == [q EXCEPT !.counts = q.counts /\ ~(q.id = work.id /\ Command.notRecidive)]
             past(j) == {ended(q) : q \in history[j].past}
  <2>1. history' = [history EXCEPT ![actions[work.id].ip].past = past(actions[work.id].ip)]
      BY <1>2 DEF EndInHistory
  <2>2. ended(p).id = p.id /\ ended(p) \in past(ip)
      BY <1>1
  <2>3. history'[ip].past = history[ip].past \/ history'[ip].past = past(ip)
      BY <1>1, <2>1 DEF Memory
  <2> HIDE DEF ended, past
  <2> QED
      BY <2>2, <2>3
<1>3. CASE RunForgetSource
    BY <1>1, <1>3 DEF RunForgetSource
<1>4. CASE SaveSource
  <2>1. memory.past = history[actions[work.id].ip].past
      BY <1>4 DEF SaveSource, WorkInv, Deciding
  <2>2. history'[ip].past = history[ip].past
        \/ (ip = actions[work.id].ip /\ memory.past \subseteq history'[ip].past)
      BY <1>1, <1>4 DEF SaveSource
  <2> QED
      BY <2>1, <2>2
<1>5. ASSUME NEW j \in Ip, NEW starts \in BOOLEAN, LetPass(j, starts)
      PROVE  history'[ip].past = history[ip].past
  <2>1. Observe(history[j], starts).past = history[j].past
      BY <1>1, ObserveType
  <2>2. history' = [history EXCEPT ![j] = Observe(history[j], starts)]
      BY <1>5 DEF LetPass
  <2> QED
      BY <1>1, <2>1, <2>2
<1>6. CASE UNCHANGED history
    BY <1>6
<1> QED
    BY <1>2, <1>3, <1>4, <1>5, <1>6, HistoryChanges

\* The step that ends the work on an action forgets it for good, or has put it in the memory of its source.
LEMMA RememberingStep ==
    ASSUME TypeInv, WorkInv, [Next]_vars, pc \in Deciding
    PROVE  \/ pc' \in Deciding /\ work'.id = work.id
           \/ work.id \in forgotten'
           \/ /\ SaveSource
              /\ \/ work.result = "failed"
                 \/ \E p \in history'[actions[work.id].ip].past : p.id = work.id
<1> USE DEF Deciding, base, control
<1>1. CASE Standing \/ DecoyAssigned \/ SaveResult
    BY <1>1 DEF Standing, DecoyAssigned, SaveResult, Result, TypeInv, WorkType
<1>2. CASE Die
    BY <1>2 DEF Die
<1>3. CASE ApplyBan
    BY <1>3, BanApplied
<1>4. CASE AssignDecoy
    BY <1>4, DecoyAssignedTo
<1>5. CASE SaveSource
  <2> DEFINE past == [id |-> work.id, counts |-> actions[work.id].counts]
  <2>1. work.result \in {"applied", "failed"} /\ actions[work.id].ip \in Ip /\ history \in [Ip -> Memory]
    <3>1. actions \in Seq(Action) /\ work.id \in DOMAIN actions /\ history \in [Ip -> Memory]
        BY <1>5 DEF SaveSource, WorkInv, TypeInv, TypeOK
    <3> QED
        BY <1>5, <3>1, ActionFields DEF SaveSource, WorkInv, Action
  <2>2. work.result = "applied" => past \in history'[actions[work.id].ip].past
      BY <1>5, <2>1 DEF SaveSource
  <2>3. past.id = work.id
      OBVIOUS
  <2> HIDE DEF past
  <2> QED
      BY <1>5, <2>1, <2>2, <2>3
<1>6. CASE Start \/ Booted \/ Tick \/ StartReconcile \/ StartBatch \/ EndBatch \/ \E i \in Id : Reconcile(i)
    BY <1>6 DEF Start, Booted, Tick, StartReconcile, StartBatch, EndBatch, Reconcile
<1>7. CASE RunRevoke \/ RunRevokeMany \/ RevokeNext \/ RunNotRecidive
    BY <1>7 DEF RunRevoke, RunRevokeMany, RevokeNext, RunNotRecidive, Begin
<1>8. CASE LiftBan \/ Release \/ Lifted \/ SaveRevoked \/ EndInHistory \/ Exclude \/ ExemptSource
    BY <1>8 DEF LiftBan, Release, Lifted, SaveRevoked, EndInHistory, Exclude, ExemptSource
<1>9. CASE Finishing
    BY <1>9 DEF Finishing, RevokedMany, LiftFails, RevokedOne, RunForgetSource, RunRemoveExemption, RunReload, Begin
<1>10. CASE \E c \in Depositable : Deposit(c)
    BY <1>10 DEF Deposit
<1>11. CASE \E ip \in Ip, starts \in BOOLEAN, kind \in Kinds, subjects \in SUBSET Agent :
                Decide(ip, starts, kind, subjects)
    BY <1>11 DEF Decide
<1> QED
    BY <1>1, <1>2, <1>3, <1>4, <1>5, <1>6, <1>7, <1>8, <1>9, <1>10, <1>11, ControlChanges

\* An action a death has cut before its source was saved stays known for that.
LEMMA ForgottenGrows ==
    ASSUME TypeInv, [Next]_vars
    PROVE  forgotten \subseteq forgotten'
<1> USE DEF ghosts
<1>1. CASE Others
    BY <1>1, Outside DEF TimePasses, RegainAccess, ExemptionEnds, WrittenOutside, LoseAccess, DecoyByActiveDefense,
        ReleaseByHand
<1>2. CASE Commanding
    BY <1>2 DEF Commanding, Tick, StartReconcile, RunRevoke, RunRevokeMany, RevokeNext, RevokedMany, LiftBan,
        LiftFails, Release, Lifted, SaveRevoked, EndInHistory, Exclude, ExemptSource, RevokedOne,
        RunNotRecidive, RunForgetSource, RunRemoveExemption, RunReload
<1>3. CASE Handling
    BY <1>3 DEF Handling, StartBatch, EndBatch, LetPass, Decide, ApplyBan, AssignDecoy, DecoyAssigned, SaveResult,
        SaveSource
<1>4. CASE Operator
    BY <1>4, Deposited DEF Deposit, EmergencyStop, Resume
<1>5. CASE Start \/ Die \/ Booted
    BY <1>5 DEF Start, Die, Booted
<1>6. ASSUME NEW i \in Id, Reconcile(i) PROVE forgotten \subseteq forgotten'
    BY <1>6 DEF Reconcile
<1> QED
    BY <1>1, <1>2, <1>3, <1>4, <1>5, <1>6 DEF Next, Riposte, vars

\* The memory of a source loses a running ban on no path: forgetting is refused meanwhile.
LEMMA RememberedStep ==
    ASSUME TypeInv, ProcessInv, RememberedInv, [Next]_vars
    PROVE  RememberedInv'
<1> USE DEF ProcessInv
<1> SUFFICES ASSUME NEW i \in RunningBans', actions'[i].state \in {"applied", "unknown"}, i \notin forgotten',
                    ~(pc' \in Deciding /\ i = work'.id)
             PROVE  \E p \in history'[actions'[i].ip].past : p.id = i
    BY DEF RememberedInv
<1>1. i \in Running'
    BY DEF RunningBans
<1>2. i \in Running
  <2>1. \A ip \in Ip, starts \in BOOLEAN, kind \in Kinds, subjects \in SUBSET Agent :
            Decide(ip, starts, kind, subjects) => actions'[Len(actions) + 1].state = "pending"
      BY DecideKept
  <2> QED
      BY <1>1, <2>1, RunningStep
<1>3. /\ i \in DOMAIN actions /\ InProgress(actions[i]) /\ actions[i] \in Action
      /\ actions'[i].ip = actions[i].ip /\ actions'[i].kind = actions[i].kind
    BY <1>2, RegistryKept, ActionFields DEF Running, TypeInv, TypeOK, Kept
<1>4. i \in RunningBans /\ i \in RunningFor(actions[i].ip)
    BY <1>2, <1>3 DEF RunningBans, RunningFor
<1>5. i \notin forgotten
    BY ForgottenGrows
<1>6. CASE actions[i].state = "pending"
  <2>1. pc \in Applying /\ i = work.id
      BY <1>3, <1>5, <1>6 DEF PendingInv
  <2>2. SaveResult
      BY <1>3, <1>6, <2>1, OneChanges DEF Applying, SaveRevoked, Exclude, Reconcile
  <2> QED
      BY <2>1, <2>2 DEF SaveResult, control, Deciding
<1>7. CASE actions[i].state # "pending" /\ ~(pc \in Deciding /\ i = work.id)
  <2>1. actions[i].state \in {"applied", "unknown"}
      BY <1>3, <1>7 DEF InProgress
  <2>2. PICK p \in history[actions[i].ip].past : p.id = i
      BY <1>4, <1>5, <1>7, <2>1 DEF RememberedInv
  <2>3. actions[i].ip \in Ip
      BY <1>3 DEF Action
  <2> QED
      BY <1>3, <1>4, <2>2, <2>3, MemoryKept
<1>8. CASE actions[i].state # "pending" /\ pc \in Deciding /\ i = work.id
  <2>1. pc = "remembering" /\ actions[i].state = work.result
      BY <1>8 DEF WorkInv, Deciding, Applying
  <2>2. work.result # "failed"
      BY <1>3, <2>1 DEF InProgress
  <2> QED
      BY <1>3, <1>8, <2>2, RememberingStep
<1> QED
    BY <1>6, <1>7, <1>8

-----------------------------------------------------------------------------
\* Every step keeps the invariant.
LEMMA InvStep == Inv /\ [Next]_vars => Inv'
<1> SUFFICES ASSUME Inv, [Next]_vars PROVE Inv'
    OBVIOUS
<1> USE DEF Inv
<1>1. CommandsInv /\ WorkInv /\ TodoInv /\ PendingInv /\ PlacingInv /\ LiftingInv
    BY DEF ProcessInv
<1>2. TypeInv'
    BY <1>1, TypeStep
<1>3. EntriesInv' /\ DecoysInv'
    BY <1>1, EntriesStep, DecoysStep
<1>4. CommandsInv' /\ WorkInv' /\ TodoInv' /\ PendingInv'
    BY <1>1, CommandsStep, WorkStep, TodoStep, PendingStep
<1>5. PlacingInv' /\ LiftingInv' /\ StopInv' /\ NothingLeftBehind'
    BY PlacingStep, LiftingStep, StopStep, LeftBehindStep
<1>6. ExemptInv' /\ CapInv' /\ ExpiredInv' /\ RememberedInv'
    BY <1>1, ExemptStep, CapStep, ExpiredStep, RememberedStep
<1> QED
    BY <1>2, <1>3, <1>4, <1>5, <1>6 DEF PlacesInv, ProcessInv

\* The invariant holds in every state of every behaviour.
THEOREM Invariance == Spec => []Inv
<1>1. Init => Inv
    BY FirstState
<1>2. Inv /\ [Next]_vars => Inv'
    BY InvStep
<1> QED
    BY <1>1, <1>2, PTL DEF Spec

-----------------------------------------------------------------------------
(* The theorems.                                                            *)

\* Type correctness: whatever the order of events, commands, deaths and changes by others, the process
\* works on an action of the registry and the list of RIPOSTE holds actions of the registry only.
THEOREM ActionsTypeCorrect == Spec => []TypeOK
<1>1. Inv => TypeOK
    BY DEF Inv, TypeInv
<1> QED
    BY <1>1, Invariance, PTL

\* An action in place, of the invariant, runs or is an orphan.
LEMMA InPlaceRuns ==
    ASSUME Inv, NEW i \in DOMAIN actions, InPlace(i), i \notin orphans
    PROVE  i \in Running
<1>1. actions[i] \in Action /\ i # 0 /\ now \in Nat
    BY ActionFields DEF Inv, TypeInv, TypeOK
<1>2. actions[i].state \notin {"failed", "revoked"}
    BY DEF Inv, NothingLeftBehind
<1>3. now < actions[i].ends
    BY <1>1 DEF InPlace, InForce, Ours, Inv, PlacesInv, EntriesInv, DecoysInv
<1>4. actions[i].state # "expired"
  <2>1. actions[i].ends \in Nat
      BY <1>1 DEF Action
  <2>2. ~(now >= actions[i].ends)
      BY <1>1, <1>3, <2>1
  <2> QED
      BY <2>2 DEF Inv, ExpiredInv
<1> QED
    BY <1>1, <1>2, <1>4 DEF Running, InProgress, Action

\* What the registry gives for over is over, and a revoke_all that ended well during the emergency stop
\* leaves nothing in place: the reconciliation, the liftings and the results never close an action that
\* holds, but on the paths that do not look.
THEOREM OverMeansOver == Spec => []OverIsOver
<1>1. Inv => NothingLeftBehind
    BY DEF Inv
<1>2. Inv => StopClears
    BY InPlaceRuns DEF Inv, StopInv, StopClears
<1> QED
    BY <1>1, <1>2, Invariance, PTL DEF OverIsOver

\* At most max_active_bans bans of RIPOSTE are in force: each is the ban of one running action of the
\* registry, and decide counts those.
THEOREM BansAreCapped == Spec => []ActiveBansCapped
<1>1. ASSUME Inv PROVE ActiveBansCapped
  <2> DEFINE S == {ip \in Ip : /\ blocklist[ip].source = "riposte" /\ InForce(blocklist[ip])
                               /\ blocklist[ip].action \notin orphans}
             f == [ip \in S |-> blocklist[ip].action]
  <2>1. ASSUME NEW ip \in S
        PROVE  blocklist[ip].action \in RunningBans /\ actions[blocklist[ip].action].ip = ip
    <3>1. /\ blocklist[ip].action # 0 /\ blocklist[ip].action \in DOMAIN actions
          /\ actions[blocklist[ip].action].kind = "ban" /\ actions[blocklist[ip].action].ip = ip
        BY <1>1 DEF Inv, PlacesInv, EntriesInv
    <3>2. InPlace(blocklist[ip].action)
        BY DEF InPlace
    <3> QED
        BY <1>1, <3>1, <3>2, InPlaceRuns DEF RunningBans
  <2>2. f \in [S -> RunningBans] /\ \A x, y \in S : f[x] = f[y] => x = y
    <3> HIDE DEF S
    <3>1. \A x, y \in S : blocklist[x].action = blocklist[y].action => x = y
        BY <2>1
    <3> QED
        BY <2>1, <3>1
  <2> HIDE DEF S, f
  <2>3. f \in Injection(S, RunningBans)
      BY <2>2 DEF Injection, IsInjective
  <2>4. IsFiniteSet(RunningBans) /\ Cardinality(RunningBans) \in Nat /\ MaxActiveBans \in Nat
      BY <1>1, RunningBansAreFinite, Constants DEF Inv
  <2>5. IsFiniteSet(S) /\ Cardinality(S) <= Cardinality(RunningBans) /\ Cardinality(S) \in Nat
      BY <2>3, <2>4, FS_Injection, FS_CardinalityType
  <2>6. Cardinality(S) <= MaxActiveBans
      BY <1>1, <2>4, <2>5 DEF Inv, CapInv
  <2> QED
      BY <2>6 DEF ActiveBansCapped, S
<1> QED
    BY <1>1, Invariance, PTL

\* A ban that was put in place counts for the next tier as long as it runs, unless the process died
\* before it saved the source: forget_source refuses a source with a running action.
THEOREM BansAreRemembered == Spec => []RunningBansAreRemembered
<1>1. Inv => RunningBansAreRemembered
    BY DEF Inv, RememberedInv, RunningBansAreRemembered
<1> QED
    BY <1>1, Invariance, PTL

\* RIPOSTE never removes or replaces an entry in force of somebody else that is manual or longer.
THEOREM EntriesOfOthersStand == Spec => OthersUntouched
<1> DEFINE Untouched ==
        \A ip \in Ip :
            blocklist[ip].source \in {"manual", "auto"} /\ InForce(blocklist[ip])
            /\ blocklist'[ip] # blocklist[ip] /\ Riposte =>
                /\ blocklist[ip].source = "auto"
                /\ blocklist'[ip].source = "riposte" /\ blocklist'[ip].expires > blocklist[ip].expires
<1>1. ASSUME Inv, [Next]_vars PROVE Untouched
  <2> SUFFICES ASSUME NEW ip \in Ip, blocklist[ip].source \in {"manual", "auto"}, InForce(blocklist[ip]),
                      blocklist'[ip] # blocklist[ip], Riposte
               PROVE  /\ blocklist[ip].source = "auto"
                      /\ blocklist'[ip].source = "riposte" /\ blocklist'[ip].expires > blocklist[ip].expires
      BY <1>1
  <2>1. TypeInv /\ WorkInv /\ blocklist \in [Ip -> Entry] /\ blocklist[ip].action = 0
      BY <1>1 DEF Inv, ProcessInv, PlacesInv, EntriesInv, TypeInv, TypeOK
  <2>2. LiftBan \/ ApplyBan
    <3> USE DEF places
    <3>1. CASE Commanding
        BY <3>1 DEF Commanding, Tick, StartReconcile, RunRevoke, RunRevokeMany, RevokeNext, RevokedMany, LiftFails,
            ListFails, Release, Lifted, SaveRevoked, EndInHistory, Exclude, ExemptSource, RevokedOne,
            RunNotRecidive, RunForgetSource, RunRemoveExemption, RunReload
    <3>2. CASE Handling
        BY <3>2 DEF Handling, StartBatch, EndBatch, LetPass, Decide, AssignDecoy, DecoyAssigned, SaveResult,
            SaveSource
    <3>3. CASE Start \/ Die \/ Booted \/ \E i \in Id : Reconcile(i)
        BY <3>3 DEF Start, Die, Booted, Reconcile
    <3> QED
        BY <3>1, <3>2, <3>3 DEF Riposte
  <2>3. ~LiftBan
    <3>1. LiftBan => work.id # 0
        BY <1>1 DEF LiftBan, Inv, ProcessInv, WorkInv, Lifting, TypeInv, TypeOK
    <3> QED
        BY <2>1, <3>1, BanLifted
  <2>4. ApplyBan
      BY <2>2, <2>3
  <2> DEFINE a == actions[work.id]
             e == [source |-> "riposte", action |-> work.id, expires |-> a.ends]
  <2>5. a.ip \in Ip /\ a.ends \in Nat /\ ~Stronger(blocklist[a.ip], a.ends) /\ blocklist' = [blocklist EXCEPT ![a.ip] = e]
      BY <2>1, <2>4, BanApplied
  <2>6. a.ip = ip /\ blocklist'[ip] = e
      BY <2>1, <2>5
  <2>7. e.source = "riposte" /\ e.expires = a.ends
      OBVIOUS
  <2>8. blocklist[ip].expires \in Nat
      BY <2>1 DEF Entry
  <2> HIDE DEF a, e
  <2> QED
      BY <2>5, <2>6, <2>7, <2>8 DEF Stronger
<1> QED
    BY <1>1, Invariance, PTL DEF Spec, OthersUntouched

\* A finished action stays finished, with the end it had: no path of the engine runs it again.
THEOREM FinishedForGood == Spec => FinishedIsFinal
<1> DEFINE Final == \A i \in DOMAIN actions : Finished(actions[i]) =>
                        i \in DOMAIN actions' /\ actions'[i].state = actions[i].state
<1>1. ASSUME Inv, [Next]_vars PROVE Final
    BY <1>1, RegistryKept DEF Kept, Inv, ProcessInv
<1> QED
    BY <1>1, Invariance, PTL DEF Spec, FinishedIsFinal

\* No action is registered against an exempted source, nor between the lifting and the exemption of a
\* "lift and exempt" that a death has interrupted: a begun command is run before the next batch.
THEOREM ExemptedAreSpared == Spec => ExemptedStaysFree
<1> DEFINE Free ==
        \A i \in DOMAIN actions' \ DOMAIN actions :
            /\ actions'[i].ip \notin exempt
            /\ \A n \in DOMAIN commands :
                commands[n].begun /\ commands[n].exempt => actions[commands[n].action].ip # actions'[i].ip
<1>1. ASSUME Inv, [Next]_vars PROVE Free
  <2> SUFFICES ASSUME NEW i \in DOMAIN actions' \ DOMAIN actions
               PROVE  /\ actions'[i].ip \notin exempt
                      /\ \A n \in DOMAIN commands :
                            commands[n].begun /\ commands[n].exempt =>
                                actions[commands[n].action].ip # actions'[i].ip
      OBVIOUS
  <2>1. TypeInv /\ CommandsInv /\ TodoInv /\ ExemptInv
      BY <1>1 DEF Inv, ProcessInv
  <2>2. \A j \in Id : ~Reconcile(j)
      BY <2>1, ReconcileKept
  <2>3. ~(SaveRevoked \/ Exclude \/ SaveResult) /\ actions' # actions
      BY DEF SaveRevoked, Close, Exclude, SaveResult
  <2>4. PICK ip \in Ip, starts \in BOOLEAN, kind \in Kinds, subjects \in SUBSET Agent :
            Decide(ip, starts, kind, subjects)
      BY <1>1, <2>2, <2>3, RegistryChanges
  <2>5. actions'[i].ip = ip
      BY <2>1, <2>4, DecideKept
  <2>6. pc = "handling" /\ ip \notin seen.exempt
      BY <2>4 DEF Decide, MayAct
  <2>7. ip \notin exempt
      BY <2>1, <2>6 DEF ExemptInv
  <2>8. \A n \in DOMAIN commands : ~commands[n].begun
      BY <2>1, <2>6 DEF CommandsInv
  <2> QED
      BY <2>5, <2>7, <2>8
<1> QED
    BY <1>1, Invariance, PTL DEF Spec, ExemptedStaysFree
=============================================================================
