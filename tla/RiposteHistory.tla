---------------------------- MODULE RiposteHistory ----------------------------
(***************************************************************************)
(* What RIPOSTE remembers of a source and what it decides from it: the     *)
(* episodes and the past actions (history.py), the decision (decide.py)    *)
(* and their use for each event (RiposteEngine.handle).  The memory is     *)
(* bounded in number and in age.  Events come in order within a batch, but *)
(* a batch may hold older events than the one before.                      *)
(*                                                                         *)
(* The attack classes, the level and the decoy hits of a policy are a      *)
(* choice; the returns, the tiers and the silences are computed.           *)
(***************************************************************************)
EXTENDS Naturals, Sequences, FiniteSets

CONSTANTS
    Gap,           \* episode_gap_seconds
    Within,        \* within_seconds of the policies
    Returns,       \* returns
    Recidive,      \* recidive_window_seconds
    Retention,     \* history_retention_seconds
    BanTimes,      \* tiers_seconds
    LureTime,      \* decoy_duration_seconds
    MaxEpisodes,   \* MAX_EPISODES
    MaxPast,       \* MAX_ACTIONS
    MaxOfSource,   \* max_active_per_source
    Lateness,      \* how late an event may be handled
    LastMoment,    \* bound: the clock
    MaxActs        \* bound: actions taken

ASSUME HistoryAssumption ==
    /\ {Gap, Within, Recidive, Retention, MaxOfSource, Lateness, MaxActs} \subseteq Nat
    /\ BanTimes \in Seq(Nat \ {0}) /\ BanTimes # <<>> /\ {LureTime, LastMoment} \subseteq Nat \ {0}
    /\ {MaxEpisodes, MaxPast} \subseteq Nat \ {0} /\ Returns \in 1..MaxEpisodes
    /\ Retention >= Recidive + 2 * Lateness /\ Retention >= Within + Lateness /\ Retention >= Gap + Lateness

VARIABLES
    moment,
    episodes,   \* of the source, the oldest first
    past,       \* its past actions, by their identities in the registry
    saved,      \* updated_at of its row
    ongoing,    \* its actions in progress in the registry
    \* history variables
    truth,      \* its episodes as they are defined, the decisions taken in the last one, the newest event
    acts,       \* every action taken since it was forgotten
    astray      \* an event came late, a decision failed although an action was remembered, or an
                \* action was dropped before its end

memoryVars  == <<episodes, past, saved>>
historyVars == <<moment, memoryVars, ongoing, truth, acts, astray>>

LatestOf(m, n) == IF m >= n THEN m ELSE n
AtMostOf(m, n) == IF m <= n THEN m ELSE n

\* Some entries of a sequence, in its order; its last entry, and its n newest.
Rank(keep, i) == Cardinality({k \in keep : k <= i})
Selected(s, keep) == [j \in 1..Cardinality(keep) |-> s[CHOOSE i \in keep : Rank(keep, i) = j]]
Final(s)     == s[Len(s)]
Newest(s, n) == Selected(s, {i \in DOMAIN s : i + n > Len(s)})

Unknown == [starts |-> <<>>, latest |-> 0, acted |-> FALSE, decided |-> 0, seen |-> 0]

HistoryInit ==
    /\ moment = 1
    /\ episodes = <<>> /\ past = <<>> /\ saved = 0 /\ ongoing = {}
    /\ truth = Unknown /\ acts = <<>> /\ astray = FALSE

-----------------------------------------------------------------------------
(* The memory.                                                              *)

\* forget_before, at the date of the event.
KeptEpisodes(t) == Selected(episodes, {i \in DOMAIN episodes : episodes[i].last + Retention >= t})
KeptPast(t) == [i \in {i \in DOMAIN past : past[i].ends + Retention >= t} |-> past[i]]

\* Mutant of NewEpisode: the end of the last action is not looked at.
NewEpisodeAfterSilence(t) ==
    LET eps == KeptEpisodes(t) IN eps = <<>> \/ t > Final(eps).last + Gap

\* apply_event: a new episode after a silence, or once the last action has ended.
NewEpisode(t) ==
    LET eps == KeptEpisodes(t) IN
    \/ eps = <<>>
    \/ t > Final(eps).last + Gap
    \/ /\ Final(eps).acted /\ DOMAIN KeptPast(t) # {}
       /\ \A i \in DOMAIN KeptPast(t) : t >= KeptPast(t)[i].ends

EpisodesAfter(t, kind) ==
    LET eps == KeptEpisodes(t) IN
    IF kind = "escalation" THEN eps
    ELSE IF NewEpisode(t)
         THEN Newest(Append(eps, [start |-> t, last |-> t, acted |-> FALSE]), MaxEpisodes)
         ELSE [eps EXCEPT ![Len(eps)].last = LatestOf(@, t)]

Acted(eps) == [eps EXCEPT ![Len(eps)].acted = TRUE]

\* record_action: after the actions kept, and only the newest ones.
PastWith(kept, id, act) ==
    LET after == DOMAIN kept \cup {id} IN
    [i \in {i \in after : Cardinality({j \in after : j > i}) < MaxPast} |-> IF i = id THEN act ELSE kept[i]]

\* episodes_since, next_tier_index.
CountSince(starts, t) == Cardinality({i \in DOMAIN starts : starts[i] + Within >= t})
EpisodeStarts == [i \in DOMAIN episodes |-> episodes[i].start]
TierAt(list, t) ==
    LET previous == {i \in DOMAIN list : list[i].counts /\ list[i].taken + Recidive >= t} IN
    AtMostOf(1 + Cardinality(previous), Len(BanTimes))

-----------------------------------------------------------------------------
(* The episodes as they are defined: a series of activities without a long  *)
(* silence, that ends also when an action begins: what follows once every   *)
(* action has ended is another.                                             *)

TrulyNew(t) ==
    \/ truth.latest = 0 \/ t > truth.latest + Gap
    \/ truth.acted /\ \A i \in DOMAIN acts : t >= acts[i].ends

TruthAfter(t, kind) ==
    LET known == [truth EXCEPT !.seen = LatestOf(@, t)] IN
    IF kind = "escalation" THEN known
    ELSE IF TrulyNew(t)
         THEN [known EXCEPT !.starts = Append(@, t), !.latest = LatestOf(@, t), !.acted = FALSE, !.decided = 0]
         ELSE [known EXCEPT !.latest = LatestOf(@, t)]

Decided(known, acted) == [known EXCEPT !.acted = @ \/ acted, !.decided = AtMostOf(@ + 1, 2)]

-----------------------------------------------------------------------------
(* RiposteEngine.handle, one event.                                         *)

Comes(t) == t + Lateness >= moment /\ t <= moment
Tardy(t) == t < truth.seen

\* decide: one action per episode, enough returns, no other action for the source.
MayStrike(eps, t) ==
    /\ eps # <<>> /\ ~Final(eps).acted
    /\ CountSince([i \in DOMAIN eps |-> eps[i].start], t) >= Returns
    /\ Cardinality(ongoing) < MaxOfSource

\* Nothing to do: no policy, a safeguard, or a refusal by the blocklist, which never decides.
Watch(t, kind) ==
    /\ Comes(t)
    /\ episodes' = EpisodesAfter(t, kind) /\ past' = KeptPast(t) /\ saved' = t
    /\ truth' = TruthAfter(t, kind) /\ astray' = (astray \/ Tardy(t))
    /\ UNCHANGED <<moment, ongoing, acts>>

\* An action that has not ended leaves the memory.
DropsRunning == \E i \in DOMAIN past \ DOMAIN past' : past[i].ends > moment

\* The action is in place: record_action.  It runs from the clock, not from the event.
Strike(t, kind, ban) ==
    LET eps   == EpisodesAfter(t, kind)
        tier  == TierAt(KeptPast(t), t)
        ends  == moment + IF ban THEN BanTimes[tier] ELSE LureTime
        id    == Len(acts) + 1
        act   == [taken |-> moment, ends |-> ends, counts |-> ban] IN
    /\ Comes(t) /\ MayStrike(eps, t) /\ id <= MaxActs
    /\ episodes' = Acted(eps) /\ saved' = t
    /\ past' = PastWith(KeptPast(t), id, act)
    /\ ongoing' = ongoing \cup {id}
    /\ acts' = Append(acts, act)
    /\ truth' = Decided(TruthAfter(t, kind), TRUE)
    /\ astray' = (astray \/ Tardy(t) \/ DropsRunning)
    /\ UNCHANGED moment

\* The action failed: mark_episode_decided.
Miss(t, kind) ==
    LET eps == EpisodesAfter(t, kind) IN
    /\ Comes(t) /\ MayStrike(eps, t)
    /\ episodes' = Acted(eps) /\ past' = KeptPast(t) /\ saved' = t
    /\ truth' = Decided(TruthAfter(t, kind), FALSE)
    /\ astray' = (astray \/ Tardy(t) \/ DOMAIN KeptPast(t) # {})
    /\ UNCHANGED <<moment, ongoing, acts>>

-----------------------------------------------------------------------------
(* The registry, the commands and the maintenance.                          *)

\* The action has ended, or somebody else than RIPOSTE has removed it.
Leaves(id) ==
    /\ id \in ongoing
    /\ ongoing' = ongoing \ {id}
    /\ UNCHANGED <<moment, memoryVars, truth, acts, astray>>

\* end_action and exclude_from_recidive, where the action is in the list.
EndedAt(list, id, t) ==
    [i \in DOMAIN list |-> IF i = id THEN [list[i] EXCEPT !.ends = AtMostOf(@, t)] ELSE list[i]]
Excluded(list, id) == [i \in DOMAIN list |-> IF i = id THEN [list[i] EXCEPT !.counts = FALSE] ELSE list[i]]

\* _update_history: a source that was purged is left so.
Saves == saved' = IF saved = 0 THEN 0 ELSE moment

\* revoke: end_action.
LiftAction(id) ==
    /\ id \in ongoing
    /\ ongoing' = ongoing \ {id}
    /\ past' = EndedAt(past, id, moment) /\ acts' = EndedAt(acts, id, moment) /\ Saves
    /\ UNCHANGED <<moment, episodes, truth, astray>>

\* exclude_from_recidive.
NotCounted(id) ==
    /\ id \in DOMAIN acts /\ acts[id].counts
    /\ past' = Excluded(past, id) /\ acts' = Excluded(acts, id) /\ Saves
    /\ UNCHANGED <<moment, episodes, ongoing, truth, astray>>

Forgotten == episodes' = <<>> /\ past' = <<>> /\ saved' = 0

\* forget_source, refused while an action is in progress.
ForgetSource ==
    /\ ongoing = {} /\ saved # 0 /\ Forgotten
    /\ truth' = Unknown /\ acts' = <<>> /\ astray' = FALSE
    /\ UNCHANGED <<moment, ongoing>>

\* purge_sources: nothing was saved for the whole retention.
PurgeSource ==
    /\ saved # 0 /\ moment > saved + Retention /\ Forgotten
    /\ astray' = (astray \/ DropsRunning)
    /\ UNCHANGED <<moment, ongoing, truth, acts>>

MomentPasses ==
    /\ moment < LastMoment
    /\ moment' = moment + 1
    /\ UNCHANGED <<memoryVars, ongoing, truth, acts, astray>>

HistoryNext ==
    \/ \E t \in 1..moment, kind \in {"activity", "escalation"} :
        \/ Watch(t, kind) \/ Miss(t, kind)
        \/ \E ban \in BOOLEAN : Strike(t, kind, ban)
    \/ \E id \in 1..MaxActs : Leaves(id) \/ LiftAction(id) \/ NotCounted(id)
    \/ ForgetSource \/ PurgeSource \/ MomentPasses

HistorySpec == HistoryInit /\ [][HistoryNext]_historyVars

-----------------------------------------------------------------------------
(* Properties.                                                              *)

HistoryTypeOK ==
    /\ moment \in 1..LastMoment /\ saved \in 0..LastMoment
    /\ episodes \in Seq([start : Nat, last : Nat, acted : BOOLEAN]) /\ Len(episodes) <= MaxEpisodes
    /\ DOMAIN past \subseteq DOMAIN acts /\ Cardinality(DOMAIN past) <= MaxPast
    /\ \A i \in DOMAIN past : past[i] = acts[i]
    /\ acts \in Seq([taken : Nat, ends : Nat, counts : BOOLEAN]) /\ Len(acts) <= MaxActs
    /\ truth \in [starts : Seq(Nat), latest : Nat, acted : BOOLEAN, decided : 0..2, seen : Nat]
    /\ ongoing \subseteq DOMAIN acts /\ astray \in BOOLEAN

\* One decision for each episode, as mark_episode_decided and the module state it.
OneDecisionPerEpisode == truth.decided <= 1

NotCounting == Cardinality({i \in DOMAIN past : ~past[i].counts})

\* The bounded memory answers like the whole history: the next tier is the number of actions taken in
\* the window and, unless it went astray, the returns are the episodes of the definition and each of
\* them is decided once.
MemoryAnswersAsHistory ==
    /\ MaxPast + 1 >= NotCounting + Len(BanTimes) =>
        \A t \in 1..moment : Comes(t) => TierAt(past, t) = TierAt(acts, t)
    /\ ~astray => \A t \in LatestOf(truth.seen, 1)..moment : Comes(t) =>
        CountSince(EpisodeStarts, t) = AtMostOf(CountSince(truth.starts, t), MaxEpisodes)
    /\ ~astray => OneDecisionPerEpisode
=============================================================================
