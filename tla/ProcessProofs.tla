--------------------------- MODULE ProcessProofs ---------------------------
(***************************************************************************)
(* Proofs about the processes of the server: the stop of the boost mode    *)
(* (BoostSupervisor), for every set of workers and every limit of          *)
(* restarts; the configurations that run together under the native engine  *)
(* (NativeSupervisor), for every set of security processes; and the        *)
(* sources that the native engine may not judge alone (NativeWatch), for   *)
(* every set of sources, every size of the table and every lifetime; and   *)
(* the requests it sends for a verdict (NativeInspection), for every set   *)
(* of connections and every length of the queue.                           *)
(***************************************************************************)
EXTENDS BoostSupervisor, NativeSupervisor, NativeWatch, NativeInspection, FiniteSetTheorems, TLAPS

-----------------------------------------------------------------------------
(* The stop of the boost mode.                                              *)

\* The inductive invariant: the types, the limit of the deaths counted while the service goes on, and
\* what the stop promises.
BoostInv ==
    /\ BoostTypeOK
    /\ ~stopping => recent <= MaxRestartsInWindow
    /\ StopReachesEveryWorker

LEMMA BoostConstants == MaxRestartsInWindow \in Nat /\ MaxDeaths \in Nat /\ IsFiniteSet(WorkerIndex)
BY BoostAssumption

LEMMA BoostStart == BoostInit => BoostInv
<1> SUFFICES ASSUME BoostInit PROVE BoostInv
    OBVIOUS
<1>1. BoostTypeOK
  <2>1. stopping \in BOOLEAN
      BY Zenon DEF BoostInit
  <2> QED
      BY <2>1, BoostConstants DEF BoostInit, BoostTypeOK
<1> QED
    BY <1>1, BoostConstants DEF BoostInit, BoostInv, StopReachesEveryWorker

\* The workers reaped in a turn are a list of workers.
LEMMA OrdersType ==
    ASSUME NEW S \in SUBSET WorkerIndex, NEW s \in Orders(S)
    PROVE  s \in Seq(WorkerIndex)
<1>1. Cardinality(S) \in Nat
    BY BoostConstants, FS_Subset, FS_CardinalityType
<1>2. s \in [1..Cardinality(S) -> S]
    BY DEF Orders
<1>3. s \in [1..Cardinality(S) -> WorkerIndex]
    BY <1>2
<1> QED
    BY <1>1, <1>3

LEMMA BoostTypeStep ==
    ASSUME BoostInv, [BoostNext]_boostVars
    PROVE  BoostTypeOK'
<1> USE BoostConstants DEF BoostInv
<1>1. CASE StartCompanion
    BY <1>1 DEF StartCompanion, BoostTypeOK
<1>2. CASE TakeStop
  <2>1. stopping' \in BOOLEAN
      BY <1>2, Zenon DEF TakeStop
  <2>2. hups' \subseteq WorkerIndex /\ terms' \subseteq WorkerIndex
      BY <1>2 DEF TakeStop, SignalAll, Live, BoostTypeOK
  <2> QED
      BY <1>2, <2>1, <2>2 DEF TakeStop, BoostTypeOK
<1>3. CASE TakeReload
    BY <1>3 DEF TakeReload, Live, BoostTypeOK
<1>4. CASE TakeNothing
    BY <1>4 DEF TakeNothing, BoostTypeOK
<1>5. CASE Reap
  <2>1. reaped' \in Seq(WorkerIndex)
      BY <1>5, OrdersType DEF Reap, Zombies
  <2> QED
      BY <1>5, <2>1 DEF Reap, BoostTypeOK
<1>6. CASE HandleReaped
  <2>1. reaped' \in Seq(WorkerIndex) /\ Head(reaped) \in WorkerIndex
      BY <1>6 DEF HandleReaped, BoostTypeOK
  <2>2. CASE IgnoresDeaths /\ UNCHANGED <<worker, hups, terms, stopping, recent>>
      BY <1>6, <2>1, <2>2 DEF HandleReaped, BoostTypeOK
  <2>3. CASE /\ ~IgnoresDeaths /\ \E kept \in 0..recent : recent' = kept + 1
             /\ recent' > MaxRestartsInWindow
             /\ stopping' = TRUE /\ SignalAll /\ UNCHANGED worker
    <3>1. recent' \in 0..(MaxRestartsInWindow + 1)
        BY <2>3 DEF IgnoresDeaths, BoostTypeOK
    <3>2. stopping' \in BOOLEAN
        BY <2>3, Zenon
    <3>3. hups' \subseteq WorkerIndex /\ terms' \subseteq WorkerIndex
        BY <2>3 DEF SignalAll, Live, BoostTypeOK
    <3> QED
        BY <1>6, <2>1, <2>3, <3>1, <3>2, <3>3 DEF HandleReaped, BoostTypeOK
  <2>4. CASE /\ ~IgnoresDeaths /\ \E kept \in 0..recent : recent' = kept + 1
             /\ ~(recent' > MaxRestartsInWindow)
             /\ worker' = [worker EXCEPT ![Head(reaped)] = "forked"] /\ UNCHANGED <<hups, terms, stopping>>
    <3>1. recent' \in 0..(MaxRestartsInWindow + 1)
        BY <2>4 DEF BoostTypeOK
    <3> QED
        BY <1>6, <2>1, <2>4, <3>1 DEF HandleReaped, BoostTypeOK
  <2> QED
      BY <1>6, <2>2, <2>3, <2>4 DEF HandleReaped
<1>7. CASE EndTurn
  <2>1. companion' \in {"up", "dead", "given_up", "stopped"}
      BY <1>7 DEF EndTurn, DriveCompanion, BoostTypeOK
  <2>2. /\ worker' \in [WorkerIndex -> {"none", "forked", "ready", "draining", "zombie"}]
        /\ hups' \subseteq WorkerIndex /\ terms' \subseteq WorkerIndex
      BY <1>7 DEF EndTurn, KillLate, BoostTypeOK
  <2> QED
      BY <1>7, <2>1, <2>2 DEF EndTurn, BoostTypeOK
<1>8. CASE EndService
    BY <1>8 DEF EndService, BoostTypeOK
<1>9. ASSUME NEW i \in WorkerIndex, BecomeReady(i) \/ KilledEarly(i) \/ Reload(i) \/ Drain(i) \/ Drained(i)
      PROVE  BoostTypeOK'
    BY <1>9 DEF BecomeReady, KilledEarly, Reload, Drain, Drained, Becomes, Gone, BoostTypeOK
<1>10. ASSUME NEW i \in WorkerIndex, WorkerDies(i) PROVE BoostTypeOK'
    BY <1>10 DEF WorkerDies, Becomes, Gone, BoostTypeOK
<1>11. CASE CompanionDies
    BY <1>11 DEF CompanionDies, BoostTypeOK
<1>12. ASSUME NEW sig \in {"HUP", "TERM"}, AskMain(sig) PROVE BoostTypeOK'
    BY <1>12 DEF AskMain, Live, BoostTypeOK
<1>13. CASE UNCHANGED boostVars
    BY <1>13 DEF boostVars, BoostTypeOK
<1> QED
    BY <1>1, <1>2, <1>3, <1>4, <1>5, <1>6, <1>7, <1>8, <1>9, <1>10, <1>11, <1>12, <1>13 DEF BoostNext

\* Once the service has ended, no process of it is left that could do anything.
LEMMA EndIsTheEnd ==
    ASSUME BoostInv, turn = "ended", [BoostNext]_boostVars
    PROVE  StopReachesEveryWorker'
<1>1. /\ Live = {} /\ Zombies = {} /\ Children = {} /\ companion \in {"stopped", "given_up"}
      /\ \A i \in WorkerIndex : worker[i] = "none"
    BY DEF BoostInv, BoostTypeOK, StopReachesEveryWorker, Children, Live, Zombies
<1>2. UNCHANGED <<worker, companion>>
    BY <1>1 DEF BoostNext, boostVars, StartCompanion, TakeStop, TakeReload, TakeNothing, Reap, HandleReaped,
        EndTurn, EndService, BecomeReady, KilledEarly, Reload, Drain, Drained, WorkerDies, CompanionDies, AskMain
<1> QED
    BY <1>1, <1>2 DEF StopReachesEveryWorker, Children, Live, Zombies

LEMMA StopStep ==
    ASSUME BoostInv, turn # "ended", [BoostNext]_boostVars
    PROVE  StopReachesEveryWorker' /\ (~stopping' => recent' <= MaxRestartsInWindow)
<1> USE BoostConstants
<1> DEFINE Told == \A i \in Live : worker[i] = "draining" \/ i \in terms
<1>a. (stopping => Told) /\ BoostTypeOK /\ (~stopping => recent <= MaxRestartsInWindow)
    BY DEF BoostInv, StopReachesEveryWorker
<1>b. ASSUME turn' # "ended", stopping' => Told' PROVE StopReachesEveryWorker'
    BY <1>b DEF StopReachesEveryWorker
<1>1. CASE TakeStop
  <2>1. Told'
      BY <1>a, <1>1 DEF TakeStop, SignalAll, Live
  <2> QED
      BY <1>a, <1>b, <1>1, <2>1 DEF TakeStop
<1>2. CASE StartCompanion \/ TakeReload \/ TakeNothing \/ CompanionDies
    BY <1>a, <1>b, <1>2 DEF StartCompanion, TakeReload, TakeNothing, CompanionDies, Live
<1>3. CASE Reap
    BY <1>a, <1>b, <1>3 DEF Reap, Live, Zombies, BoostTypeOK
<1>4. CASE HandleReaped
  <2>1. CASE IgnoresDeaths /\ UNCHANGED <<worker, hups, terms, stopping, recent>>
      BY <1>a, <1>b, <1>4, <2>1 DEF HandleReaped, Live
  <2>2. CASE /\ recent' > MaxRestartsInWindow
             /\ stopping' = TRUE /\ SignalAll /\ UNCHANGED worker
    <3>1. Told'
        BY <2>2 DEF SignalAll, Live
    <3> QED
        BY <1>b, <1>4, <2>2, <3>1 DEF HandleReaped
  <2>3. CASE /\ ~IgnoresDeaths /\ \E kept \in 0..recent : recent' = kept + 1
             /\ ~(recent' > MaxRestartsInWindow) /\ UNCHANGED <<hups, terms, stopping>>
    <3>1. ~stopping' /\ recent' <= MaxRestartsInWindow
        BY <1>a, <2>3 DEF IgnoresDeaths, BoostTypeOK
    <3> QED
        BY <1>b, <1>4, <3>1 DEF HandleReaped
  <2> QED
      BY <1>4, <2>1, <2>2, <2>3 DEF HandleReaped
<1>5. CASE EndTurn
  <2>1. stopping' = stopping /\ recent' = recent /\ turn' # "ended"
      BY <1>5 DEF EndTurn
  <2>2. CASE UNCHANGED <<worker, hups, terms>>
      BY <1>a, <1>b, <2>1, <2>2 DEF Live
  <2>3. CASE KillLate(Live)
    <3>1. Live' = {}
        BY <1>a, <2>3 DEF KillLate, Live, BoostTypeOK
    <3> QED
        BY <1>a, <1>b, <2>1, <3>1
  <2> QED
      BY <1>5, <2>2, <2>3 DEF EndTurn
<1>6. CASE EndService
    BY <1>a, <1>6 DEF EndService, StopReachesEveryWorker, Children, Live, Zombies
<1>7. ASSUME NEW i \in WorkerIndex,
             BecomeReady(i) \/ KilledEarly(i) \/ Drain(i) \/ Drained(i) \/ WorkerDies(i) \/ Reload(i)
      PROVE  StopReachesEveryWorker' /\ (~stopping' => recent' <= MaxRestartsInWindow)
  <2>1. turn' = turn /\ stopping' = stopping /\ recent' = recent
      BY <1>7 DEF BecomeReady, KilledEarly, Drain, Drained, WorkerDies, Reload, Becomes
  <2>2. ASSUME stopping, Told, NEW j \in Live' PROVE worker'[j] = "draining" \/ j \in terms'
    <3>1. CASE j = i
        BY <1>a, <1>7, <2>2, <3>1 DEF BecomeReady, KilledEarly, Drain, Drained, WorkerDies, Reload, Becomes, Gone,
            Live, BoostTypeOK
    <3>2. CASE j # i
        BY <1>a, <1>7, <2>2, <3>2 DEF BecomeReady, KilledEarly, Drain, Drained, WorkerDies, Reload, Becomes, Gone,
            Live, BoostTypeOK
    <3> QED
        BY <3>1, <3>2
  <2> QED
      BY <1>a, <1>b, <2>1, <2>2
<1>8. ASSUME NEW sig \in {"HUP", "TERM"}, AskMain(sig)
      PROVE  StopReachesEveryWorker' /\ (~stopping' => recent' <= MaxRestartsInWindow)
    BY <1>a, <1>b, <1>8 DEF AskMain, Live
<1>9. CASE UNCHANGED boostVars
    BY <1>a, <1>b, <1>9 DEF boostVars, Live
<1> QED
    BY <1>1, <1>2, <1>3, <1>4, <1>5, <1>6, <1>7, <1>8, <1>9 DEF BoostNext

LEMMA BoostAlways == BoostSpec => []BoostInv
<1>1. ASSUME BoostInv, turn = "ended", [BoostNext]_boostVars
      PROVE  ~stopping' => recent' <= MaxRestartsInWindow
  <2>1. Live = {} /\ Zombies = {}
      BY <1>1 DEF BoostInv, StopReachesEveryWorker, Children
  <2>2. UNCHANGED <<stopping, recent>>
      BY <1>1, <2>1 DEF BoostNext, boostVars, StartCompanion, TakeStop, TakeReload, TakeNothing, Reap,
          HandleReaped, EndTurn, EndService, BecomeReady, KilledEarly, Reload, Drain, Drained, WorkerDies,
          CompanionDies, AskMain, Becomes
  <2> QED
      BY <1>1, <2>2 DEF BoostInv
<1>2. BoostInv /\ [BoostNext]_boostVars => BoostInv'
    BY <1>1, BoostTypeStep, EndIsTheEnd, StopStep DEF BoostInv
<1> QED
    BY <1>2, BoostStart, PTL DEF BoostSpec

\* The variables keep their types.
THEOREM BoostTypeCorrect == BoostSpec => []BoostTypeOK
<1>1. BoostInv => BoostTypeOK
    BY DEF BoostInv
<1> QED
    BY <1>1, BoostAlways, PTL

\* The stop of the service reaches every worker, and its end leaves none.
THEOREM StopIsComplete == BoostSpec => []StopReachesEveryWorker
<1>1. BoostInv => StopReachesEveryWorker
    BY DEF BoostInv
<1> QED
    BY <1>1, BoostAlways, PTL

-----------------------------------------------------------------------------
(* The configurations of the native mode: the inductive invariant, one      *)
(* conjunct per idea.                                                       *)

\* Without a late acknowledgement, a configuration is on its way to the engine, or its answer on the
\* way back, exactly while the supervisor waits for it.
WireInv ==
    engine.up /\ ~late =>
        /\ supervisor # "awaiting" =>
              toEngine = << >> /\ toSupervisor = << >> /\ engine.config = config
        /\ supervisor = "awaiting" =>
              \/ /\ toEngine = << [generation |-> generation + 1, config |-> target] >> /\ toSupervisor = << >>
                 /\ engine.config = config
              \/ /\ toEngine = << >>
                 /\ \E ok \in BOOLEAN :
                       /\ toSupervisor = << [generation |-> generation + 1, ok |-> ok] >>
                       /\ engine.config = IF ok THEN target ELSE config

\* A security process runs the configuration of the supervisor, has a reload to do, or has a reason.
SecurityInv ==
    \A m \in Member :
        security[m].phase # "dead" /\ ~security[m].hup /\ why[m] = "none" => security[m].config = config

\* The deaths counted while the supervisor goes on.
DeathsInv == supervisor # "ended" => engineDeaths <= MaxRestarts /\ securityDeaths <= MaxRestarts

NativeInv == NativeTypeOK /\ DeathsInv /\ WireInv /\ SecurityInv

Processes == [phase : {"dead", "starting", "up"}, config : 0..edits, hup : BOOLEAN, deaf : BOOLEAN]

LEMMA NativeConstants ==
    /\ MaxRestarts \in Nat /\ MaxEdits \in Nat /\ MaxReloads \in Nat /\ MaxNativeFaults \in Nat
BY NativeAssumption

\* Lists of frames.
LEMMA FrameLists ==
    ASSUME NEW S, NEW T, S \subseteq T, NEW q \in Seq(S)
    PROVE  /\ q # << >> => Head(q) \in S /\ Tail(q) \in Seq(S)
           /\ \A x \in S : Append(q, x) \in Seq(S)
           /\ q \in Seq(T) /\ << >> \in Seq(S)
OBVIOUS

LEMMA NativeStart == NativeInit => NativeInv
<1> SUFFICES ASSUME NativeInit PROVE NativeInv
    OBVIOUS
<1>1. late \in BOOLEAN
    BY Zenon DEF NativeInit
<1>2. engine \in [up : BOOLEAN, config : 0..edits]
    BY NativeConstants DEF NativeInit
<1>3. security \in [Member -> Processes]
    BY NativeConstants DEF NativeInit, Started, Processes
<1>4. /\ toEngine \in Seq([generation : Nat, config : 0..edits])
      /\ toSupervisor \in Seq([generation : Nat, ok : BOOLEAN])
    BY DEF NativeInit
<1>5. NativeTypeOK
  <2>1. /\ edits \in 0..MaxEdits /\ asked \subseteq {"HUP", "TERM"}
        /\ config \in 0..edits /\ target \in 0..edits /\ generation \in Nat
        /\ engineDeaths \in 0..(MaxRestarts + 1) /\ securityDeaths \in 0..(MaxRestarts + 1)
        /\ reloads \in 0..MaxReloads /\ nativeFaults \in 0..MaxNativeFaults
      BY NativeConstants DEF NativeInit
  <2> QED
      BY <1>1, <1>2, <1>3, <1>4, <2>1 DEF NativeInit, NativeTypeOK, Processes
<1>6. WireInv /\ SecurityInv /\ DeathsInv
    BY NativeConstants DEF NativeInit, WireInv, SecurityInv, DeathsInv, Started
<1> QED
    BY <1>5, <1>6 DEF NativeInv

\* A process that starts, stops or is sent SIGHUP.
LEMMA ProcessType ==
    ASSUME NativeTypeOK
    PROVE  /\ security \in [Member -> Processes]
           /\ Down \in Processes
           /\ \A deaf \in BOOLEAN : Started(config, deaf) \in Processes
           /\ \A m \in Member : Hup(security[m]) \in Processes
<1>1. security \in [Member -> Processes]
    BY DEF NativeTypeOK, Processes
<1>2. Down \in Processes
    BY NativeConstants DEF NativeTypeOK, Down, Processes
<1>3. ASSUME NEW deaf \in BOOLEAN PROVE Started(config, deaf) \in Processes
    BY DEF NativeTypeOK, Started, Processes
<1>4. ASSUME NEW m \in Member PROVE Hup(security[m]) \in Processes
  <2>1. security[m] \in Processes
      BY <1>1
  <2>2. [security[m] EXCEPT !.hup = TRUE] \in Processes
      BY <2>1 DEF Processes
  <2> QED
      BY <1>2, <2>1, <2>2 DEF Hup
<1> QED
    BY <1>1, <1>2, <1>3, <1>4

LEMMA StopType ==
    ASSUME NativeTypeOK, StopEverything
    PROVE  /\ supervisor' = "ended" /\ channel' = "none"
           /\ engine' \in [up : BOOLEAN, config : 0..edits]
           /\ toEngine' \in Seq([generation : Nat, config : 0..edits])
           /\ toSupervisor' \in Seq([generation : Nat, ok : BOOLEAN])
           /\ security' \in [Member -> [phase : {"dead", "starting", "up"}, config : 0..edits,
                                       hup : BOOLEAN, deaf : BOOLEAN]]
<1>1. security' \in [Member -> Processes]
    BY ProcessType DEF StopEverything
<1>2. engine' \in [up : BOOLEAN, config : 0..edits]
    BY DEF StopEverything, NativeTypeOK
<1> QED
    BY <1>1, <1>2 DEF StopEverything, Processes

LEMMA NativeTypeStep ==
    ASSUME NativeTypeOK, DeathsInv, [NativeNext]_nativeVars
    PROVE  NativeTypeOK'
<1> USE NativeConstants DEF control, wire, counts
<1>a. Dead \subseteq Member /\ security \in [Member -> Processes]
    BY ProcessType DEF Dead
<1>1. CASE Pump
    BY <1>1 DEF Pump, NativeTypeOK
<1>2. CASE Stop
    BY <1>2, StopType DEF Stop, NativeTypeOK
<1>3. CASE Refuse
    BY <1>3 DEF Refuse, NativeTypeOK
<1>4. CASE ReloadWithoutChannel
  <2>1. CASE StopEverything
      BY <1>4, <2>1, StopType DEF ReloadWithoutChannel, NativeTypeOK
  <2>2. CASE supervisor' = "engine" /\ UNCHANGED <<engine, wire, security>>
      BY <1>4, <2>2 DEF ReloadWithoutChannel, NativeTypeOK
  <2> QED
      BY <1>4, <2>1, <2>2 DEF ReloadWithoutChannel
<1>5. CASE SendConfig
    BY <1>5 DEF SendConfig, NativeTypeOK
<1>6. CASE Accept
  <2>1. security' \in [Member -> Processes]
      BY <1>6, ProcessType DEF Accept
  <2>2. why' \in [Member -> {"none", "lost", "edited", "refused"}]
      BY <1>6 DEF Accept, NativeTypeOK
  <2>3. toSupervisor' \in Seq([generation : Nat, ok : BOOLEAN])
      BY <1>6 DEF Accept, NativeTypeOK
  <2> QED
      BY <1>6, <2>1, <2>2, <2>3 DEF Accept, NativeTypeOK, Processes
<1>7. CASE Refused
    BY <1>7 DEF Refused, NativeTypeOK
<1>8. CASE NoAnswer
  <2>1. late' \in BOOLEAN /\ nativeFaults' \in 0..MaxNativeFaults /\ channel' \in {"open", "closed", "none"}
    <3>1. CASE ~engine.up /\ channel' = "closed" /\ UNCHANGED <<late, nativeFaults>>
        BY <3>1 DEF NativeTypeOK
    <3>2. CASE engine.up /\ NativeFault /\ late' = TRUE /\ UNCHANGED channel
      <4>1. late' \in BOOLEAN
          BY <3>2, Zenon
      <4> QED
          BY <3>2, <4>1 DEF NativeFault, NativeTypeOK
    <3> QED
        BY <1>8, <3>1, <3>2 DEF NoAnswer
  <2> QED
      BY <1>8, <2>1 DEF NoAnswer, NativeTypeOK
<1>9. CASE EngineAlive
    BY <1>9 DEF EngineAlive, NativeTypeOK
<1>10. CASE RelaunchEngine
  <2>1. engineDeaths' \in 0..(MaxRestarts + 1)
    <3>1. PICK kept \in 0..engineDeaths : engineDeaths' = kept + 1
        BY <1>10 DEF RelaunchEngine, OneMore
    <3>2. engineDeaths <= MaxRestarts /\ engineDeaths \in Nat
        BY <1>10 DEF RelaunchEngine, DeathsInv, NativeTypeOK
    <3> QED
        BY <3>1, <3>2
  <2>2. UNCHANGED <<edits, asked, config, target, securityDeaths, reloads, nativeFaults>>
      BY <1>10 DEF RelaunchEngine
  <2>3. CASE StopEverything /\ UNCHANGED <<generation, late, why>>
      BY <2>1, <2>2, <2>3, StopType DEF NativeTypeOK
  <2>4. CASE /\ supervisor' = "security"
             /\ engine' = [up |-> TRUE, config |-> config] /\ generation' = generation + 1
             /\ toEngine' = << >> /\ toSupervisor' = << >> /\ channel' = "open"
             /\ security' = [m \in Member |-> Started(config, TRUE)]
             /\ late' = FALSE /\ why' = [m \in Member |-> "none"]
    <3>1. security' \in [Member -> Processes]
        BY <2>4, ProcessType
    <3>2. late' \in BOOLEAN
        BY <2>4, Zenon
    <3>3. engine' \in [up : BOOLEAN, config : 0..edits]
        BY <2>4 DEF NativeTypeOK
    <3>4. /\ toEngine' \in Seq([generation : Nat, config : 0..edits])
          /\ toSupervisor' \in Seq([generation : Nat, ok : BOOLEAN])
        BY <2>4
    <3>5. supervisor' = "security" /\ channel' = "open" /\ generation' \in Nat
          /\ why' \in [Member -> {"none", "lost", "edited", "refused"}]
        BY <2>4 DEF NativeTypeOK
    <3> QED
        BY <2>1, <2>2, <3>1, <3>2, <3>3, <3>4, <3>5 DEF NativeTypeOK, Processes
  <2>5. CASE /\ supervisor' = "security"
             /\ channel' = "none" /\ toEngine' = << >> /\ toSupervisor' = << >>
             /\ security' = [m \in Member |-> Down]
             /\ UNCHANGED <<engine, generation, late, why>>
    <3>1. security' \in [Member -> Processes]
        BY <2>5, ProcessType
    <3>2. /\ toEngine' \in Seq([generation : Nat, config : 0..edits])
          /\ toSupervisor' \in Seq([generation : Nat, ok : BOOLEAN])
        BY <2>5
    <3> QED
        BY <2>1, <2>2, <2>5, <3>1, <3>2 DEF NativeTypeOK, Processes
  <2> QED
      BY <1>10, <2>3, <2>4, <2>5 DEF RelaunchEngine
<1>11. CASE RelaunchSecurity
  <2>1. securityDeaths' \in 0..(MaxRestarts + 1)
    <3>1. PICK kept \in 0..securityDeaths : securityDeaths' = kept + 1
        BY <1>11 DEF RelaunchSecurity, OneMore
    <3>2. securityDeaths <= MaxRestarts /\ securityDeaths \in Nat
        BY <1>11 DEF RelaunchSecurity, DeathsInv, NativeTypeOK
    <3> QED
        BY <3>1, <3>2
  <2>2. UNCHANGED <<edits, asked, config, target, generation, engineDeaths, late, reloads, nativeFaults>>
      BY <1>11 DEF RelaunchSecurity
  <2>3. CASE StopEverything /\ UNCHANGED why
      BY <2>1, <2>2, <2>3, StopType DEF NativeTypeOK
  <2>4. CASE /\ supervisor' = "pump"
             /\ security' = [m \in Member |-> IF m \in Dead THEN Started(config, TRUE) ELSE security[m]]
             /\ why' = [m \in Member |-> IF m \in Dead THEN "none" ELSE why[m]]
             /\ UNCHANGED <<engine, wire>>
    <3>1. security' \in [Member -> Processes]
        BY <1>a, <2>4, ProcessType
    <3>2. why' \in [Member -> {"none", "lost", "edited", "refused"}]
        BY <2>4 DEF NativeTypeOK
    <3> QED
        BY <2>1, <2>2, <2>4, <3>1, <3>2 DEF NativeTypeOK, Processes
  <2> QED
      BY <1>11, <2>3, <2>4 DEF RelaunchSecurity
<1>12. CASE EndOfTurn
    BY <1>12 DEF EndOfTurn, NativeTypeOK
<1>13. CASE HandleConfig
  <2>1. PICK ok \in BOOLEAN :
            /\ engine' = IF ok THEN [engine EXCEPT !.config = Head(toEngine).config] ELSE engine
            /\ toSupervisor' = Append(toSupervisor, [generation |-> Head(toEngine).generation, ok |-> ok])
      BY <1>13 DEF HandleConfig
  <2>2. toEngine \in Seq([generation : Nat, config : 0..edits]) /\ toEngine # << >> /\ toEngine' = Tail(toEngine)
      BY <1>13 DEF HandleConfig, NativeTypeOK
  <2>3. Head(toEngine) \in [generation : Nat, config : 0..edits]
        /\ toEngine' \in Seq([generation : Nat, config : 0..edits])
      BY <2>2, FrameLists
  <2>4. engine' \in [up : BOOLEAN, config : 0..edits]
      BY <2>1, <2>3 DEF NativeTypeOK
  <2>5. toSupervisor' \in Seq([generation : Nat, ok : BOOLEAN])
    <3>1. [generation |-> Head(toEngine).generation, ok |-> ok] \in [generation : Nat, ok : BOOLEAN]
        BY <2>3
    <3>2. toSupervisor \in Seq([generation : Nat, ok : BOOLEAN])
        BY DEF NativeTypeOK
    <3> QED
        BY <2>1, <3>1, <3>2, FrameLists
  <2> QED
      BY <1>13, <2>3, <2>4, <2>5 DEF HandleConfig, NativeTypeOK
<1>14. CASE EngineDies
  <2>1. engine' \in [up : BOOLEAN, config : 0..edits]
      BY <1>14 DEF EngineDies, NativeTypeOK
  <2>2. toEngine' \in Seq([generation : Nat, config : 0..edits])
      BY <1>14 DEF EngineDies
  <2>3. nativeFaults' \in 0..MaxNativeFaults
      BY <1>14, SMTT(30) DEF EngineDies, NativeFault, NativeTypeOK
  <2> QED
      BY <1>14, <2>1, <2>2, <2>3 DEF EngineDies, NativeTypeOK
<1>15. ASSUME NEW m \in Member, SecurityReady(m) PROVE NativeTypeOK'
    BY <1>15, ZenonT(60) DEF SecurityReady, NativeTypeOK
<1>16. ASSUME NEW m \in Member, SecurityReloads(m) PROVE NativeTypeOK'
  <2>1. edits \in 0..edits
      BY DEF NativeTypeOK
  <2>2. security' \in [Member -> Processes]
    <3>1. security[m] \in Processes
        BY <1>a
    <3>2. /\ [security[m] EXCEPT !.hup = FALSE] \in Processes
          /\ [security[m] EXCEPT !.hup = FALSE, !.config = edits] \in Processes
        BY <2>1, <3>1 DEF Processes
    <3>3. \/ security' = [security EXCEPT ![m] = [security[m] EXCEPT !.hup = FALSE, !.config = edits]]
          \/ security' = [security EXCEPT ![m] = [security[m] EXCEPT !.hup = FALSE]]
        BY <1>16, <1>a DEF SecurityReloads, Processes
    <3> QED
        BY <1>a, <3>2, <3>3
  <2>3. why' \in [Member -> {"none", "lost", "edited", "refused"}]
      BY <1>16 DEF SecurityReloads, NativeTypeOK
  <2> QED
      BY <1>16, <2>2, <2>3 DEF SecurityReloads, NativeTypeOK, Processes
<1>17. ASSUME NEW m \in Member, SecurityEnds(m) PROVE NativeTypeOK'
  <2>1. security' \in [Member -> Processes]
      BY <1>a, <1>17, ProcessType DEF SecurityEnds
  <2>2. nativeFaults' \in 0..MaxNativeFaults
      BY <1>17 DEF SecurityEnds, NativeFault, NativeTypeOK
  <2> QED
      BY <1>17, <2>1, <2>2 DEF SecurityEnds, NativeTypeOK, Processes
<1>18. CASE Edit
  <2>1. edits' \in 0..MaxEdits /\ 0..edits \subseteq 0..edits'
      BY <1>18 DEF Edit, NativeTypeOK
  <2>2. /\ config \in 0..edits' /\ target \in 0..edits' /\ engine \in [up : BOOLEAN, config : 0..edits']
        /\ security \in [Member -> [phase : {"dead", "starting", "up"}, config : 0..edits',
                                    hup : BOOLEAN, deaf : BOOLEAN]]
      BY <2>1 DEF NativeTypeOK
  <2>3. toEngine \in Seq([generation : Nat, config : 0..edits'])
    <3>1. [generation : Nat, config : 0..edits] \subseteq [generation : Nat, config : 0..edits']
        BY <2>1
    <3>2. toEngine \in Seq([generation : Nat, config : 0..edits])
        BY DEF NativeTypeOK
    <3> QED
        BY <3>1, <3>2, FrameLists
  <2> QED
      BY <1>18, <2>1, <2>2, <2>3 DEF Edit, NativeTypeOK
<1>19. CASE AskReload
    BY <1>19 DEF AskReload, NativeTypeOK
<1>20. CASE AskStop
    BY <1>20 DEF AskStop, NativeTypeOK
<1>21. CASE UNCHANGED nativeVars
    BY <1>21 DEF nativeVars, NativeTypeOK
<1> QED
    BY <1>1, <1>2, <1>3, <1>4, <1>5, <1>6, <1>7, <1>8, <1>9, <1>10, <1>11, <1>12, <1>13, <1>14, <1>15, <1>16,
       <1>17, <1>18, <1>19, <1>20, <1>21 DEF NativeNext

-----------------------------------------------------------------------------
(* Configurations.                                                          *)

LEMMA DeathsStep ==
    ASSUME NativeTypeOK, DeathsInv, [NativeNext]_nativeVars
    PROVE  DeathsInv'
<1>1. CASE RelaunchEngine
  <2>1. securityDeaths' = securityDeaths /\ (supervisor' # "ended" => engineDeaths' <= MaxRestarts)
      BY <1>1 DEF RelaunchEngine, StopEverything
  <2> QED
      BY <1>1, <2>1 DEF DeathsInv, RelaunchEngine
<1>2. CASE RelaunchSecurity
  <2>1. engineDeaths' = engineDeaths /\ (supervisor' # "ended" => ~(securityDeaths' > MaxRestarts))
      BY <1>2 DEF RelaunchSecurity, StopEverything
  <2>2. securityDeaths' \in Nat
      BY <1>2 DEF RelaunchSecurity, OneMore, NativeTypeOK
  <2> QED
      BY <1>2, <2>1, <2>2, NativeConstants DEF DeathsInv, RelaunchSecurity
<1>3. CASE ~RelaunchEngine /\ ~RelaunchSecurity
  <2>1. UNCHANGED <<engineDeaths, securityDeaths>> /\ (supervisor = "ended" => supervisor' = "ended")
      BY <1>3 DEF NativeNext, nativeVars, control, counts, Pump, Stop, Refuse, ReloadWithoutChannel, SendConfig,
          Accept, Refused, NoAnswer, EngineAlive, EndOfTurn, HandleConfig, EngineDies, SecurityReady,
          SecurityReloads, SecurityEnds, Edit, AskReload, AskStop
  <2> QED
      BY <2>1 DEF DeathsInv
<1> QED
    BY <1>1, <1>2, <1>3

LEMMA WireStep ==
    ASSUME NativeTypeOK, WireInv, [NativeNext]_nativeVars
    PROVE  WireInv'
<1> USE DEF control, wire, counts
<1>0. CASE StopEverything \/ engine'.up = FALSE
    BY <1>0 DEF WireInv, StopEverything, NativeTypeOK
<1>1. CASE Pump
    BY <1>1 DEF Pump, WireInv
<1>2. CASE Stop
    BY <1>0, <1>2 DEF Stop
<1>3. CASE Refuse
    BY <1>3 DEF Refuse, WireInv
<1>4. CASE ReloadWithoutChannel
  <2>1. CASE supervisor' = "engine" /\ UNCHANGED <<engine, wire, security>>
      BY <1>4, <2>1 DEF ReloadWithoutChannel, WireInv
  <2> QED
      BY <1>0, <1>4, <2>1 DEF ReloadWithoutChannel
<1>5. CASE SendConfig
  <2> SUFFICES ASSUME ~late PROVE WireInv'
      BY <1>5 DEF SendConfig, WireInv
  <2>1. toEngine = << >> /\ toSupervisor = << >> /\ engine.config = config
      BY <1>5 DEF SendConfig, WireInv
  <2>2. toEngine' = << [generation |-> generation' + 1, config |-> target'] >>
      BY <1>5, <2>1 DEF SendConfig
  <2> QED
      BY <1>5, <2>1, <2>2 DEF SendConfig, WireInv
<1>6. CASE Accept \/ Refused
  <2> SUFFICES ASSUME engine.up, ~late PROVE WireInv'
      BY <1>6 DEF Accept, Refused, WireInv
  <2>1. supervisor = "awaiting" /\ toSupervisor # << >>
      BY <1>6 DEF Accept, Refused
  <2>2. /\ toEngine = << >>
        /\ \E ok \in BOOLEAN : /\ toSupervisor = << [generation |-> generation + 1, ok |-> ok] >>
                               /\ engine.config = IF ok THEN target ELSE config
      BY <2>1 DEF WireInv
  <2>3. PICK ok \in BOOLEAN : /\ toSupervisor = << [generation |-> generation + 1, ok |-> ok] >>
                              /\ engine.config = IF ok THEN target ELSE config
      BY <2>2
  <2>4. Head(toSupervisor) = [generation |-> generation + 1, ok |-> ok] /\ Tail(toSupervisor) = << >>
      BY <2>3
  <2>5. /\ toEngine' = << >> /\ toSupervisor' = << >> /\ engine' = engine /\ supervisor' = "engine"
      BY <1>6, <2>2, <2>4 DEF Accept, Refused
  <2>6. engine.config = config'
    <3>1. CASE Accept
        BY <2>3, <2>4, <3>1 DEF Accept
    <3>2. CASE Refused
        BY <2>3, <2>4, <3>2 DEF Refused
    <3> QED
        BY <1>6, <3>1, <3>2
  <2> QED
      BY <2>5, <2>6 DEF WireInv
<1>7. CASE NoAnswer
    BY <1>7 DEF NoAnswer, WireInv
<1>8. CASE EngineAlive \/ EndOfTurn
    BY <1>8 DEF EngineAlive, EndOfTurn, WireInv
<1>9. CASE RelaunchEngine
  <2>1. ~engine.up /\ config' = config
      BY <1>9 DEF RelaunchEngine
  <2>2. CASE /\ supervisor' = "security" /\ engine' = [up |-> TRUE, config |-> config]
             /\ toEngine' = << >> /\ toSupervisor' = << >>
      BY <2>1, <2>2 DEF WireInv
  <2>3. CASE engine' = engine
    <3>1. engine'.up = FALSE
        BY <2>1, <2>3 DEF NativeTypeOK
    <3> QED
        BY <1>0, <3>1
  <2> QED
      BY <1>0, <1>9, <2>2, <2>3 DEF RelaunchEngine
<1>10. CASE RelaunchSecurity
    BY <1>0, <1>10 DEF RelaunchSecurity, WireInv
<1>11. CASE HandleConfig
  <2> SUFFICES ASSUME engine.up, ~late PROVE WireInv'
      BY <1>11 DEF HandleConfig, WireInv, NativeTypeOK
  <2>1. /\ supervisor = "awaiting" /\ toSupervisor = << >> /\ engine.config = config
        /\ toEngine = << [generation |-> generation + 1, config |-> target] >>
      BY <1>11 DEF HandleConfig, WireInv
  <2>2. Head(toEngine) = [generation |-> generation + 1, config |-> target] /\ Tail(toEngine) = << >>
      BY <2>1
  <2>3. PICK ok \in BOOLEAN :
            /\ engine' = IF ok THEN [engine EXCEPT !.config = Head(toEngine).config] ELSE engine
            /\ toSupervisor' = Append(toSupervisor, [generation |-> Head(toEngine).generation, ok |-> ok])
      BY <1>11 DEF HandleConfig
  <2>4. /\ toSupervisor' = << [generation |-> generation + 1, ok |-> ok] >>
        /\ engine'.config = IF ok THEN target ELSE config
      BY <2>1, <2>2, <2>3 DEF NativeTypeOK
  <2>5. toEngine' = << >> /\ UNCHANGED <<supervisor, config, target, generation, late>>
      BY <1>11, <2>2 DEF HandleConfig
  <2> QED
      BY <2>1, <2>4, <2>5 DEF WireInv
<1>12. CASE EngineDies
    BY <1>0, <1>12 DEF EngineDies, NativeTypeOK
<1>13. ASSUME NEW m \in Member, SecurityReady(m) \/ SecurityReloads(m) \/ SecurityEnds(m) PROVE WireInv'
    BY <1>13 DEF SecurityReady, SecurityReloads, SecurityEnds, WireInv
<1>14. CASE Edit \/ AskReload \/ AskStop
    BY <1>14 DEF Edit, AskReload, AskStop, WireInv
<1>15. CASE UNCHANGED nativeVars
    BY <1>15 DEF nativeVars, WireInv
<1> QED
    BY <1>1, <1>2, <1>3, <1>4, <1>5, <1>6, <1>7, <1>8, <1>9, <1>10, <1>11, <1>12, <1>13, <1>14, <1>15
    DEF NativeNext

LEMMA SecurityStep ==
    ASSUME NativeTypeOK, SecurityInv, [NativeNext]_nativeVars
    PROVE  SecurityInv'
<1> USE DEF control, wire, counts
<1>0. CASE StopEverything
    BY <1>0 DEF SecurityInv, StopEverything, Down
<1>1. CASE UNCHANGED <<config, security, why>>
    BY <1>1 DEF SecurityInv
<1>2. CASE Accept
  <2> SUFFICES ASSUME NEW m \in Member, security'[m].phase # "dead", ~security'[m].hup, why'[m] = "none"
               PROVE  FALSE
      BY DEF SecurityInv
  <2>1. security'[m] = Hup(security[m])
      BY <1>2 DEF Accept
  <2>2. security[m] \in Processes
      BY ProcessType
  <2>3. security[m].phase = "up" => security'[m].hup
      BY <2>1, <2>2 DEF Hup, Processes
  <2>4. security[m].phase = "starting" /\ ~security[m].deaf => security'[m].phase = "dead"
      BY <2>1, <2>2 DEF Hup, Down, Processes
  <2>5. security[m].phase = "starting" /\ security[m].deaf => why'[m] = "lost"
      BY <1>2 DEF Accept
  <2>6. security[m].phase = "dead" => security'[m].phase = "dead"
      BY <2>1, <2>2 DEF Hup, Processes
  <2> QED
      BY <2>2, <2>3, <2>4, <2>5, <2>6 DEF Processes
<1>3. CASE RelaunchEngine
    BY <1>0, <1>3 DEF RelaunchEngine, SecurityInv, Started, Down
<1>4. CASE RelaunchSecurity
    BY <1>0, <1>4 DEF RelaunchSecurity, SecurityInv, Started
<1>5. ASSUME NEW m \in Member, SecurityReady(m) PROVE SecurityInv'
    BY <1>5 DEF SecurityReady, SecurityInv, NativeTypeOK
<1>6. ASSUME NEW m \in Member, SecurityReloads(m) PROVE SecurityInv'
  <2>1. ASSUME NEW q \in Member, q # m PROVE security'[q] = security[q] /\ why'[q] = why[q]
      BY <1>6, <2>1 DEF SecurityReloads, NativeTypeOK
  <2>2. why'[m] = "none" => security'[m].config = config
      BY <1>6 DEF SecurityReloads, NativeTypeOK
  <2>3. config' = config
      BY <1>6 DEF SecurityReloads
  <2> QED
      BY <2>1, <2>2, <2>3 DEF SecurityInv
<1>7. ASSUME NEW m \in Member, SecurityEnds(m) PROVE SecurityInv'
    BY <1>7 DEF SecurityEnds, SecurityInv, NativeTypeOK, Down
<1>8. CASE \/ Pump \/ Stop \/ Refuse \/ ReloadWithoutChannel \/ SendConfig \/ Refused \/ NoAnswer
           \/ EngineAlive \/ EndOfTurn \/ HandleConfig \/ EngineDies \/ Edit \/ AskReload \/ AskStop
           \/ UNCHANGED nativeVars
    BY <1>0, <1>1, <1>8 DEF Pump, Stop, Refuse, ReloadWithoutChannel, SendConfig, Refused, NoAnswer, EngineAlive,
        EndOfTurn, HandleConfig, EngineDies, Edit, AskReload, AskStop, nativeVars
<1> QED
    BY <1>2, <1>3, <1>4, <1>5, <1>6, <1>7, <1>8 DEF NativeNext

LEMMA NativeAlways == NativeSpec => []NativeInv
<1>1. NativeInv /\ [NativeNext]_nativeVars => NativeInv'
    BY NativeTypeStep, DeathsStep, WireStep, SecurityStep DEF NativeInv
<1> QED
    BY <1>1, NativeStart, PTL DEF NativeSpec

\* The variables keep their types.
THEOREM NativeTypeCorrect == NativeSpec => []NativeTypeOK
<1>1. NativeInv => NativeTypeOK
    BY DEF NativeInv
<1> QED
    BY <1>1, NativeAlways, PTL

\* The engine and the security processes run the configuration of the supervisor, or have one of the
\* reasons named.
THEOREM MixedNeedsACause == NativeSpec => []MixedHasACause
<1>1. NativeInv => MixedHasACause
    BY DEF NativeInv, WireInv, SecurityInv, MixedHasACause
<1> QED
    BY <1>1, NativeAlways, PTL

-----------------------------------------------------------------------------
(* The sources that the native engine may not judge alone.                  *)

\* The frames of a process for a source: the last one carries the deadline that the process remembers,
\* unless it was relaunched since.
LastIsTold ==
    \A p \in Security, s \in Source : \A i \in DOMAIN unread[p] :
        unread[p][i].source = s /\ told[p][s] # 0 =>
            \E j \in DOMAIN unread[p] : j >= i /\ unread[p][j].source = s /\ unread[p][j].until = told[p][s]

\* Where the deadline that a process remembers is: in the table, in a frame that the engine has not read, or lost.
Carried(p, s) ==
    \/ table[s] >= told[p][s]
    \/ \E i \in DOMAIN unread[p] : unread[p][i].source = s
    \/ <<p, s>> \in missed \cup refused

EverythingIsCarried ==
    /\ \A p \in Security, s \in Source : told[p][s] > second => Carried(p, s)
    /\ refused # {} => overflow

WatchInv == WatchTypeOK /\ LastIsTold /\ EverythingIsCarried

LEMMA WatchConstants ==
    /\ MaxEntries \in Nat /\ StateLife \in Nat /\ DecoyLife \in Nat /\ MaxUnread \in Nat
    /\ MaxDecoys \in Nat /\ MaxWatchFaults \in Nat /\ LastSecond \in Nat /\ LastSecond >= 1
BY WatchAssumption

LEMMA DeadlinesAreNat == Deadline \subseteq Nat /\ 0 \in Deadline
BY WatchConstants DEF Deadline

LEMMA WatchStart == WatchInit => WatchInv
<1> SUFFICES ASSUME WatchInit PROVE WatchInv
    OBVIOUS
<1> USE WatchConstants DEF WatchInit, Deadline
<1>1. WatchTypeOK
  <2>1. overflow \in BOOLEAN
      BY Zenon
  <2>2. << >> \in Seq([source : Source, until : Deadline])
      OBVIOUS
  <2>3. unread \in [Security -> Seq([source : Source, until : Deadline])]
      BY <2>2
  <2> QED
      BY <2>1, <2>3 DEF WatchTypeOK
<1>2. LastIsTold
    BY DEF LastIsTold
<1>3. EverythingIsCarried
    BY DEF EverythingIsCarried, Carried
<1> QED
    BY <1>1, <1>2, <1>3 DEF WatchInv

\* The purge takes away what has ended, and only that.
LEMMA PurgeKeeps ==
    ASSUME WatchTypeOK
    PROVE  /\ Purged(table) \in [Source -> Deadline]
           /\ \A s \in Source : table[s] > second => Purged(table)[s] = table[s]
BY WatchConstants DEF WatchTypeOK, Purged, Deadline

\* An entry that is read is in the table, or refused; the others stay, where they were or among the missed ones.
LEMMA AddKeeps ==
    ASSUME WatchTypeOK, NEW p \in Security, NEW s \in Source, NEW until \in Deadline, Add(p, s, until)
    PROVE  /\ table' \in [Source -> Deadline] /\ overflow' \in BOOLEAN
           /\ refused' \subseteq refused \cup {<<p, s>>} /\ missed' \subseteq missed \cup refused
           /\ \A t \in Source : table[t] > second => table'[t] >= table[t]
           /\ until > second => table'[s] >= until \/ <<p, s>> \in refused'
           /\ (missed \cup refused) \ {<<p, s>>} \subseteq missed' \cup refused'
           /\ (refused # {} => overflow) => (refused' # {} => overflow')
<1> DEFINE purged == Purged(table)
<1>1. /\ table \in [Source -> Deadline] /\ purged \in [Source -> Deadline] /\ second \in Nat
      /\ \A t \in Source : table[t] \in Nat /\ purged[t] \in Nat /\ (table[t] > second => purged[t] = table[t])
  <2>1. table \in [Source -> Deadline] /\ second \in Nat
      BY WatchConstants DEF WatchTypeOK
  <2>2. /\ purged \in [Source -> Deadline]
        /\ \A t \in Source : table[t] > second => purged[t] = table[t]
      BY PurgeKeeps
  <2>3. \A t \in Source : table[t] \in Nat /\ purged[t] \in Nat
      BY <2>1, <2>2, WatchConstants DEF Deadline
  <2> QED
      BY <2>1, <2>2, <2>3
<1>2. overflow \in BOOLEAN
    BY Zenon DEF WatchTypeOK
<1>3. until \in Nat
    BY WatchConstants DEF Deadline
<1>4. CASE until <= second /\ UNCHANGED <<table, overflow, refused, missed>>
    BY <1>1, <1>2, <1>3, <1>4
<1>5. CASE /\ until > second /\ table[s] # 0
           /\ table' = [table EXCEPT ![s] = IF until > @ THEN until ELSE @]
           /\ refused' = refused \ {<<p, s>>} /\ missed' = missed \ {<<p, s>>}
           /\ UNCHANGED overflow
  <2>1. /\ table' \in [Source -> Deadline] /\ table'[s] >= until
        /\ \A t \in Source : table[t] > second => table'[t] >= table[t]
      BY <1>1, <1>3, <1>5
  <2> QED
      BY <2>1, <1>2, <1>5
<1>6. ASSUME until > second, table[s] = 0, table' = [table EXCEPT ![s] = until],
             refused' = refused \ {<<p, s>>}, missed' = missed \ {<<p, s>>}, UNCHANGED overflow
      PROVE  /\ table' \in [Source -> Deadline] /\ table'[s] >= until /\ overflow' \in BOOLEAN
             /\ \A t \in Source : table[t] > second => table'[t] >= table[t]
    BY <1>1, <1>2, <1>3, <1>6
<1>7. ASSUME until > second, table[s] = 0, table' = [purged EXCEPT ![s] = until]
      PROVE  /\ table' \in [Source -> Deadline] /\ table'[s] >= until
             /\ \A t \in Source : table[t] > second => table'[t] >= table[t]
  <2> HIDE DEF purged
  <2> QED
      BY <1>1, <1>3, <1>7
<1>8. ASSUME table' = purged
      PROVE  /\ table' \in [Source -> Deadline]
             /\ \A t \in Source : table[t] > second => table'[t] >= table[t]
  <2> HIDE DEF purged
  <2> QED
      BY <1>1, <1>3, <1>8
<1> HIDE DEF purged
<1>9. CASE /\ until > second /\ table[s] = 0 /\ HasPlace(table)
           /\ table' = [table EXCEPT ![s] = until]
           /\ refused' = refused \ {<<p, s>>} /\ missed' = missed \ {<<p, s>>}
           /\ UNCHANGED overflow
    BY <1>6, <1>9
<1>10. CASE /\ until > second /\ table[s] = 0 /\ ~HasPlace(table) /\ HasPlace(purged)
            /\ table' = [purged EXCEPT ![s] = until]
            /\ overflow' = FALSE
            /\ refused' = {} /\ missed' = (missed \cup refused) \ {<<p, s>>}
    BY <1>7, <1>10
<1>11. CASE /\ until > second /\ table[s] = 0 /\ ~HasPlace(table) /\ ~HasPlace(purged)
            /\ table' = purged /\ overflow' = TRUE
            /\ refused' = refused \cup {<<p, s>>} /\ missed' = missed \ {<<p, s>>}
    BY <1>8, <1>11
<1> QED
    BY <1>4, <1>5, <1>9, <1>10, <1>11 DEF Add, purged

\* A request of a source takes no entry that runs out of the table.
LEMMA LookKeeps ==
    ASSUME WatchTypeOK, NEW s \in Source, RequiresPython(s)
    PROVE  /\ table' \in [Source -> Deadline] /\ overflow' \in BOOLEAN
           /\ refused' \subseteq refused /\ missed \cup refused = missed' \cup refused'
           /\ \A t \in Source : table[t] > second => table'[t] >= table[t]
           /\ (refused # {} => overflow) => (refused' # {} => overflow')
<1> DEFINE purged == Purged(table)
<1>1. /\ table \in [Source -> Deadline] /\ purged \in [Source -> Deadline] /\ second \in Nat
      /\ \A t \in Source : table[t] \in Nat /\ purged[t] \in Nat /\ (table[t] > second => purged[t] = table[t])
  <2>1. table \in [Source -> Deadline] /\ second \in Nat
      BY WatchConstants DEF WatchTypeOK
  <2>2. /\ purged \in [Source -> Deadline]
        /\ \A t \in Source : table[t] > second => purged[t] = table[t]
      BY PurgeKeeps
  <2>3. \A t \in Source : table[t] \in Nat /\ purged[t] \in Nat
      BY <2>1, <2>2, WatchConstants DEF Deadline
  <2> QED
      BY <2>1, <2>2, <2>3
<1>2. overflow \in BOOLEAN
    BY Zenon DEF WatchTypeOK
<1>3. 0 \in Deadline
    BY WatchConstants DEF Deadline
<1> HIDE DEF purged
<1>4. ASSUME table' = purged
      PROVE  /\ table' \in [Source -> Deadline]
             /\ \A t \in Source : table[t] > second => table'[t] >= table[t]
    BY <1>1, <1>3, <1>4
<1>5. CASE overflow /\ ~HasPlace(purged) /\ Keep(purged, FALSE)
  <2>1. table' = purged /\ refused' = refused /\ missed' = missed
      BY <1>5 DEF Keep
  <2>2. overflow' = overflow
      BY <1>5, <1>2, Zenon DEF Keep
  <2> QED
      BY <2>1, <2>2, <1>2, <1>4
<1>6. CASE overflow /\ HasPlace(purged) /\ Keep(purged, TRUE)
  <2>1. table' = purged /\ refused' = {} /\ missed' = missed \cup refused
      BY <1>6 DEF Keep
  <2>2. overflow' = FALSE
      BY <1>6, Zenon DEF Keep
  <2> QED
      BY <2>1, <2>2, <1>4
<1>7. CASE ~overflow /\ Keep([table EXCEPT ![s] = IF @ > second THEN @ ELSE 0], FALSE)
  <2>1. refused' = refused /\ missed' = missed /\ table' = [table EXCEPT ![s] = IF @ > second THEN @ ELSE 0]
      BY <1>7 DEF Keep
  <2>2. overflow' = overflow
      BY <1>7, <1>2, Zenon DEF Keep
  <2>3. /\ table' \in [Source -> Deadline]
        /\ \A t \in Source : table[t] > second => table'[t] >= table[t]
      BY <2>1, <1>1, <1>3
  <2> QED
      BY <2>1, <2>2, <2>3, <1>2
<1> QED
    BY <1>5, <1>6, <1>7 DEF RequiresPython, purged

\* The deadlines that a process sends.
LEMMA SendsDeadlines ==
    ASSUME WatchTypeOK, NEW p \in Security,
           SyncWatchList(p) \/ (\E s \in Source : Follow(p, s) \/ FollowDecoyed(p, s))
    PROVE  \E s \in Source, until \in Nat :
               /\ until <= LastSecond + StateLife + DecoyLife
               /\ SendWatch(p, s, until)
<1> USE WatchConstants DEF WatchTypeOK
<1>1. CASE SyncWatchList(p)
  <2>1. PICK s \in Source : decoys[s] > second /\ SendWatch(p, s, decoys[s])
      BY <1>1 DEF SyncWatchList
  <2>2. decoys[s] \in Nat /\ decoys[s] <= LastSecond + StateLife + DecoyLife
      OBVIOUS
  <2> QED
      BY <2>1, <2>2
<1>2. ASSUME NEW s \in Source, Follow(p, s)
      PROVE  \E t \in Source, until \in Nat : until <= LastSecond + StateLife + DecoyLife /\ SendWatch(p, t, until)
  <2>1. second + StateLife \in Nat /\ second + StateLife <= LastSecond + StateLife + DecoyLife
      OBVIOUS
  <2> QED
      BY <1>2, <2>1 DEF Follow
<1>3. ASSUME NEW s \in Source, FollowDecoyed(p, s)
      PROVE  \E t \in Source, until \in Nat : until <= LastSecond + StateLife + DecoyLife /\ SendWatch(p, t, until)
  <2> DEFINE end == IF decoys[s] > second + StateLife THEN decoys[s] ELSE second + StateLife
  <2>1. end \in Nat /\ end <= LastSecond + StateLife + DecoyLife
      OBVIOUS
  <2>2. SendWatch(p, s, end)
      BY <1>3 DEF FollowDecoyed
  <2> HIDE DEF end
  <2> QED
      BY <2>1, <2>2
<1> QED
    BY <1>1, <1>2, <1>3

LEMMA SendKeepsInv ==
    ASSUME WatchInv, NEW p \in Security, NEW s \in Source, NEW until \in Nat,
           until <= LastSecond + StateLife + DecoyLife, SendWatch(p, s, until)
    PROVE  WatchInv'
<1> DEFINE frame  == [source |-> s, until |-> until + 1]
           Frames == Seq([source : Source, until : Deadline])
<1> USE WatchConstants DEF WatchInv
<1>1. until + 1 \in Deadline /\ frame \in [source : Source, until : Deadline]
    BY DEF Deadline
<1>2. /\ told' = [told EXCEPT ![p][s] = until + 1] /\ unread' = [unread EXCEPT ![p] = Append(@, frame)]
      /\ second' = second /\ decoys' = decoys /\ decoysMade' = decoysMade /\ table' = table /\ overflow' = overflow
      /\ refused' = refused /\ missed' = missed /\ watchFaults' = watchFaults
    BY DEF SendWatch
<1>3. unread \in [Security -> Frames] /\ told \in [Security -> [Source -> Deadline]]
    BY DEF WatchTypeOK
<1>4. /\ Len(unread[p]) \in Nat /\ DOMAIN unread[p] = 1..Len(unread[p])
      /\ DOMAIN unread'[p] = 1..(Len(unread[p]) + 1)
      /\ unread'[p][Len(unread[p]) + 1] = frame
      /\ \A i \in 1..Len(unread[p]) : unread'[p][i] = unread[p][i]
      /\ unread'[p] \in Frames
  <2>1. unread[p] \in Frames /\ unread'[p] = Append(unread[p], frame)
      BY <1>2, <1>3
  <2> HIDE DEF frame
  <2> QED
      BY <2>1, <1>1
<1> HIDE DEF frame, Frames
<1>5. /\ \A q \in Security : q # p => unread'[q] = unread[q] /\ told'[q] = told[q]
      /\ \A t \in Source : t # s => told'[p][t] = told[p][t]
      /\ told'[p][s] = until + 1
    BY <1>2, <1>3
<1>6. WatchTypeOK'
  <2>1. unread' \in [Security -> Frames]
    <3>1. unread' = [unread EXCEPT ![p] = unread'[p]]
        BY <1>2, <1>3
    <3> QED
        BY <3>1, <1>3, <1>4
  <2>2. told' \in [Security -> [Source -> Deadline]]
      BY <1>1, <1>2, <1>3
  <2> QED
      BY <1>2, <2>1, <2>2, Zenon DEF WatchTypeOK, Frames
<1>7. LastIsTold'
  <2> SUFFICES ASSUME NEW q \in Security, NEW t \in Source, NEW i \in DOMAIN unread'[q],
                      unread'[q][i].source = t, told'[q][t] # 0
               PROVE  \E j \in DOMAIN unread'[q] : j >= i /\ unread'[q][j].source = t
                                                   /\ unread'[q][j].until = told'[q][t]
      BY DEF LastIsTold
  <2>1. CASE q # p
      BY <2>1, <1>5 DEF LastIsTold
  <2>2. CASE q = p /\ t = s
    <3>1. /\ Len(unread[p]) + 1 \in DOMAIN unread'[p] /\ Len(unread[p]) + 1 >= i
          /\ unread'[p][Len(unread[p]) + 1].source = s /\ unread'[p][Len(unread[p]) + 1].until = told'[p][s]
        BY <2>2, <1>4, <1>5 DEF frame
    <3> QED
        BY <3>1, <2>2
  <2>3. CASE q = p /\ t # s
    <3>1. i \in DOMAIN unread[p] /\ unread[p][i].source = t /\ told[p][t] # 0
        BY <2>3, <1>4, <1>5 DEF frame
    <3>2. PICK j \in DOMAIN unread[p] : j >= i /\ unread[p][j].source = t /\ unread[p][j].until = told[p][t]
        BY <3>1 DEF LastIsTold
    <3> QED
        BY <3>2, <2>3, <1>4, <1>5
  <2> QED
      BY <2>1, <2>2, <2>3
<1>8. EverythingIsCarried'
  <2> SUFFICES ASSUME NEW q \in Security, NEW t \in Source, told'[q][t] > second'
               PROVE  Carried(q, t)'
      BY <1>2 DEF EverythingIsCarried
  <2>1. CASE q # p
      BY <2>1, <1>2, <1>5 DEF EverythingIsCarried, Carried
  <2>2. CASE q = p /\ t = s
      BY <2>2, <1>4 DEF Carried, frame
  <2>3. CASE q = p /\ t # s
    <3>1. Carried(p, t)
        BY <2>3, <1>2, <1>5 DEF EverythingIsCarried
    <3>2. \A i \in DOMAIN unread[p] : i \in DOMAIN unread'[p] /\ unread'[p][i] = unread[p][i]
        BY <1>4
    <3> QED
        BY <3>1, <3>2, <2>3, <1>2, <1>5 DEF Carried
  <2> QED
      BY <2>1, <2>2, <2>3
<1> QED
    BY <1>6, <1>7, <1>8

\* What is left of a sequence without its head.
LEMMA TailIsRest ==
    ASSUME NEW S, NEW q \in Seq(S), q # << >>
    PROVE  /\ Len(q) \in Nat \ {0} /\ DOMAIN q = 1..Len(q) /\ Head(q) = q[1] /\ q[1] \in S
           /\ Tail(q) \in Seq(S) /\ DOMAIN Tail(q) = 1..(Len(q) - 1)
           /\ \A i \in 1..(Len(q) - 1) : Tail(q)[i] = q[i + 1]
           /\ \A i \in DOMAIN q : i # 1 => i - 1 \in DOMAIN Tail(q) /\ Tail(q)[i - 1] = q[i]
<1>1. /\ Len(q) \in Nat \ {0} /\ DOMAIN q = 1..Len(q) /\ Head(q) = q[1] /\ q[1] \in S
      /\ Tail(q) \in Seq(S) /\ DOMAIN Tail(q) = 1..(Len(q) - 1)
      /\ \A i \in 1..(Len(q) - 1) : Tail(q)[i] = q[i + 1]
    OBVIOUS
<1>2. ASSUME NEW i \in DOMAIN q, i # 1
      PROVE  i - 1 \in DOMAIN Tail(q) /\ Tail(q)[i - 1] = q[i]
  <2>1. i \in Nat /\ i - 1 \in 1..(Len(q) - 1) /\ (i - 1) + 1 = i
      BY <1>1, <1>2
  <2> QED
      BY <1>1, <2>1
<1> QED
    BY <1>1, <1>2

LEMMA ReadKeepsInv ==
    ASSUME WatchInv, NEW p \in Security, ReadWatch(p)
    PROVE  WatchInv'
<1> DEFINE s == Head(unread[p]).source
           u == Head(unread[p]).until
           Frames == Seq([source : Source, until : Deadline])
<1> USE WatchConstants DEF WatchInv
<1>1. unread \in [Security -> Frames] /\ unread[p] # << >> /\ unread' = [unread EXCEPT ![p] = Tail(unread[p])]
    BY DEF WatchTypeOK, ReadWatch
<1>2. /\ unread[p] \in Frames /\ unread'[p] = Tail(unread[p])
      /\ \A q \in Security : q # p => unread'[q] = unread[q]
    BY <1>1
<1>3. /\ Len(unread[p]) \in Nat \ {0} /\ DOMAIN unread[p] = 1..Len(unread[p])
      /\ DOMAIN unread'[p] = 1..(Len(unread[p]) - 1)
      /\ \A i \in 1..(Len(unread[p]) - 1) : unread'[p][i] = unread[p][i + 1]
      /\ s = unread[p][1].source /\ u = unread[p][1].until
      /\ unread[p][1] \in [source : Source, until : Deadline]
      /\ unread'[p] \in Frames
      /\ \A i \in DOMAIN unread[p] : i # 1 => i - 1 \in DOMAIN unread'[p] /\ unread'[p][i - 1] = unread[p][i]
  <2> DEFINE Entries == [source : Source, until : Deadline]
             q       == unread[p]
  <2>1. q \in Seq(Entries) /\ q # << >> /\ unread'[p] = Tail(q) /\ s = Head(q).source /\ u = Head(q).until
      BY <1>1, <1>2
  <2> HIDE DEF Entries, q, s, u, Frames
  <2>2. /\ Len(q) \in Nat \ {0} /\ DOMAIN q = 1..Len(q) /\ Head(q) = q[1] /\ q[1] \in Entries
        /\ Tail(q) \in Seq(Entries) /\ DOMAIN Tail(q) = 1..(Len(q) - 1)
        /\ \A i \in 1..(Len(q) - 1) : Tail(q)[i] = q[i + 1]
        /\ \A i \in DOMAIN q : i # 1 => i - 1 \in DOMAIN Tail(q) /\ Tail(q)[i - 1] = q[i]
      BY <2>1, TailIsRest
  <2>3. Seq(Entries) = Frames /\ Entries = [source : Source, until : Deadline] /\ q = unread[p]
      BY DEF Entries, Frames, q
  <2> QED
      BY <2>1, <2>2, <2>3
<1>4. s \in Source /\ u \in Deadline /\ Add(p, s, u)
    BY <1>3 DEF ReadWatch
<1> HIDE DEF s, u, Frames
<1>5. /\ table' \in [Source -> Deadline] /\ overflow' \in BOOLEAN
      /\ refused' \subseteq refused \cup {<<p, s>>} /\ missed' \subseteq missed \cup refused
      /\ \A t \in Source : table[t] > second => table'[t] >= table[t]
      /\ u > second => table'[s] >= u \/ <<p, s>> \in refused'
      /\ (missed \cup refused) \ {<<p, s>>} \subseteq missed' \cup refused'
      /\ (refused # {} => overflow) => (refused' # {} => overflow')
    BY <1>4, AddKeeps
<1>6. told' = told /\ second' = second /\ decoys' = decoys /\ decoysMade' = decoysMade /\ watchFaults' = watchFaults
    BY DEF ReadWatch
<1>7. WatchTypeOK'
  <2>1. unread' \in [Security -> Frames]
      BY <1>1, <1>2, <1>3
  <2>2. refused' \subseteq Security \X Source /\ missed' \subseteq Security \X Source
    <3>1. refused \subseteq Security \X Source /\ missed \subseteq Security \X Source
        BY Zenon DEF WatchTypeOK
    <3> QED
        BY <3>1, <1>4, <1>5
  <2>3. table' \in [Source -> Deadline] /\ overflow' \in BOOLEAN
      BY <1>5, Zenon
  <2> QED
      BY <2>1, <2>2, <2>3, <1>6, Zenon DEF WatchTypeOK, Frames
<1>8. LastIsTold'
  <2> SUFFICES ASSUME NEW q \in Security, NEW t \in Source, NEW i \in DOMAIN unread'[q],
                      unread'[q][i].source = t, told[q][t] # 0
               PROVE  \E j \in DOMAIN unread'[q] : j >= i /\ unread'[q][j].source = t
                                                   /\ unread'[q][j].until = told[q][t]
      BY <1>6 DEF LastIsTold
  <2>1. CASE q # p
      BY <2>1, <1>2 DEF LastIsTold
  <2>2. CASE q = p
    <3>1. i + 1 \in DOMAIN unread[p] /\ unread[p][i + 1].source = t /\ i \in Nat /\ i >= 1
        BY <2>2, <1>3
    <3>2. PICK j \in DOMAIN unread[p] : j >= i + 1 /\ unread[p][j].source = t /\ unread[p][j].until = told[p][t]
        BY <3>1, <2>2 DEF LastIsTold
    <3>3. j - 1 \in DOMAIN unread'[p] /\ j - 1 >= i /\ unread'[p][j - 1] = unread[p][j]
      <4>0. j \in Nat
          BY <1>3
      <4>1. j \in Nat /\ j # 1 /\ j - 1 >= i
          BY <4>0, <3>1, <3>2
      <4> QED
          BY <4>1, <1>3
    <3> QED
        BY <3>2, <3>3, <2>2
  <2> QED
      BY <2>1, <2>2
<1>9. EverythingIsCarried'
  <2>1. refused' # {} => overflow'
      BY <1>5 DEF EverythingIsCarried
  <2>2. ASSUME NEW q \in Security, NEW t \in Source, told[q][t] > second
        PROVE  Carried(q, t)'
    <3> USE <2>2
    <3>1. told[q][t] \in Nat /\ second \in Nat /\ table[t] \in Nat /\ table'[t] \in Nat
      <4>1. told[q][t] \in Deadline /\ table[t] \in Deadline /\ table'[t] \in Deadline /\ second \in 1..LastSecond
          BY <1>5 DEF WatchTypeOK
      <4> QED
          BY <4>1 DEF Deadline
    <3>2. CASE table[t] >= told[q][t]
        BY <3>1, <3>2, <1>5, <1>6 DEF Carried
    <3>3. CASE q = p /\ t = s
      <4>1. PICK j \in DOMAIN unread[p] : j >= 1 /\ unread[p][j].source = s /\ unread[p][j].until = told[p][s]
        <5>1. 1 \in DOMAIN unread[p] /\ unread[p][1].source = s /\ told[p][s] # 0
            BY <3>1, <3>3, <1>3
        <5> QED
            BY <5>1, <1>4 DEF LastIsTold
      <4>2. CASE j = 1
          BY <4>1, <4>2, <3>1, <3>3, <1>3, <1>5, <1>6 DEF Carried
      <4>3. CASE j # 1
        <5>1. j - 1 \in DOMAIN unread'[p] /\ unread'[p][j - 1].source = s
            BY <4>1, <4>3, <1>3
        <5> QED
            BY <5>1, <3>3 DEF Carried
      <4> QED
          BY <4>2, <4>3
    <3>4. CASE <<q, t>> # <<p, s>> /\ <<q, t>> \in missed \cup refused
        BY <3>4, <1>5 DEF Carried
    <3>5. CASE q # p /\ \E i \in DOMAIN unread[q] : unread[q][i].source = t
        BY <3>5, <1>2 DEF Carried
    <3>6. CASE q = p /\ t # s /\ \E i \in DOMAIN unread[q] : unread[q][i].source = t
      <4>1. PICK i \in DOMAIN unread[p] : unread[p][i].source = t
          BY <3>6
      <4>2. i - 1 \in DOMAIN unread'[p] /\ unread'[p][i - 1].source = t
          BY <4>1, <3>6, <1>3
      <4> QED
          BY <4>2, <3>6 DEF Carried
    <3>7. Carried(q, t)
        BY DEF EverythingIsCarried
    <3> QED
        BY <3>2, <3>3, <3>4, <3>5, <3>6, <3>7 DEF Carried
  <2> QED
      BY <2>1, <2>2, <1>6 DEF EverythingIsCarried
<1> QED
    BY <1>7, <1>8, <1>9

LEMMA WatchStep ==
    ASSUME WatchInv, [WatchNext]_watchVars
    PROVE  WatchInv'
<1> USE WatchConstants DEF Deadline
<1>1. CASE SecondPasses
  <2> USE <1>1 DEF SecondPasses, WatchInv
  <2>0. /\ second' \in 1..LastSecond /\ second' = second + 1
        /\ decoys' = decoys /\ decoysMade' = decoysMade /\ told' = told /\ unread' = unread /\ table' = table
        /\ overflow' = overflow /\ refused' = refused /\ missed' = missed /\ watchFaults' = watchFaults
      BY DEF WatchTypeOK
  <2>1. WatchTypeOK'
      BY <2>0, Zenon DEF WatchTypeOK
  <2>2. LastIsTold'
      BY DEF LastIsTold
  <2>3. EverythingIsCarried'
    <3>1. ASSUME NEW q \in Security, NEW t \in Source, told[q][t] > second + 1
          PROVE  Carried(q, t)'
      <4>1. told[q][t] > second
        <5>1. told[q][t] \in 0..(LastSecond + StateLife + DecoyLife + 1) /\ second \in 1..LastSecond
            BY DEF WatchTypeOK
        <5> QED
            BY <5>1, <3>1
      <4>2. Carried(q, t)
          BY <4>1 DEF EverythingIsCarried
      <4> QED
          BY <4>2, <2>0 DEF Carried
    <3>2. refused' # {} => overflow'
        BY <2>0 DEF EverythingIsCarried
    <3> QED
        BY <3>1, <3>2, <2>0 DEF EverythingIsCarried
  <2> QED
      BY <2>1, <2>2, <2>3
<1>2. CASE RelaunchAll
  <2> USE <1>2 DEF RelaunchAll, WatchFault, WatchInv
  <2>1. WatchTypeOK'
    <3>1. told' \in [Security -> [Source -> Deadline]] /\ table' \in [Source -> Deadline]
        OBVIOUS
    <3>2. unread' \in [Security -> Seq([source : Source, until : Deadline])]
      <4>1. << >> \in Seq([source : Source, until : Deadline])
          OBVIOUS
      <4> QED
          BY <4>1
    <3>3. overflow' \in BOOLEAN /\ second' = second /\ decoys' = decoys /\ decoysMade' = decoysMade
        BY Zenon
    <3>4. refused' \subseteq Security \X Source /\ missed' \subseteq Security \X Source
        OBVIOUS
    <3>5. watchFaults' \in 0..MaxWatchFaults
        BY DEF WatchTypeOK
    <3> QED
        BY <3>1, <3>2, <3>3, <3>4, <3>5, Zenon DEF WatchTypeOK
  <2>2. LastIsTold'
      BY DEF LastIsTold, WatchTypeOK
  <2>3. EverythingIsCarried'
      BY DEF EverythingIsCarried, Carried, WatchTypeOK
  <2> QED
      BY <2>1, <2>2, <2>3
<1>3. ASSUME NEW s \in Source, AssignDecoyTo(s) PROVE WatchInv'
  <2> USE <1>3 DEF AssignDecoyTo, WatchInv
  <2>1. WatchTypeOK'
    <3>1. decoys' \in [Source -> 0..(LastSecond + DecoyLife)] /\ decoysMade' \in 0..MaxDecoys
        BY DEF WatchTypeOK
    <3>2. /\ second' = second /\ told' = told /\ unread' = unread /\ table' = table
          /\ overflow' = overflow /\ refused' = refused /\ missed' = missed /\ watchFaults' = watchFaults
        OBVIOUS
    <3> QED
        BY <3>1, <3>2, Zenon DEF WatchTypeOK
  <2>2. LastIsTold'
      BY DEF LastIsTold
  <2>3. EverythingIsCarried'
      BY DEF EverythingIsCarried, Carried
  <2> QED
      BY <2>1, <2>2, <2>3
<1>4. ASSUME NEW s \in Source, RequiresPython(s) PROVE WatchInv'
  <2>0. /\ table' \in [Source -> Deadline] /\ overflow' \in BOOLEAN
        /\ refused' \subseteq refused /\ missed \cup refused = missed' \cup refused'
        /\ \A t \in Source : table[t] > second => table'[t] >= table[t]
        /\ (refused # {} => overflow) => (refused' # {} => overflow')
      BY <1>4, LookKeeps DEF WatchInv
  <2>1. UNCHANGED <<second, decoys, decoysMade, told, unread, watchFaults>>
      BY <1>4 DEF RequiresPython
  <2>2. WatchTypeOK'
      BY <2>0, <2>1 DEF WatchInv, WatchTypeOK
  <2>3. LastIsTold'
      BY <2>1 DEF WatchInv, LastIsTold
  <2>4. EverythingIsCarried'
    <3>1. ASSUME NEW q \in Security, NEW t \in Source, told[q][t] > second
          PROVE  Carried(q, t)'
      <4>1. Carried(q, t) /\ told[q][t] \in Nat /\ second \in Nat /\ table[t] \in Nat /\ table'[t] \in Nat
          BY <3>1, <2>0 DEF WatchInv, EverythingIsCarried, WatchTypeOK
      <4> QED
          BY <4>1, <3>1, <2>0, <2>1 DEF Carried
    <3> QED
        BY <3>1, <2>0, <2>1 DEF WatchInv, EverythingIsCarried
  <2> QED
      BY <2>2, <2>3, <2>4 DEF WatchInv
<1>5. ASSUME NEW p \in Security,
             SyncWatchList(p) \/ (\E s \in Source : Follow(p, s) \/ FollowDecoyed(p, s))
      PROVE  WatchInv'
    BY <1>5, SendsDeadlines, SendKeepsInv DEF WatchInv
<1>6. ASSUME NEW p \in Security, ReadWatch(p) PROVE WatchInv'
    BY <1>6, ReadKeepsInv
<1>7. ASSUME NEW p \in Security, LoseWatchChannel(p) PROVE WatchInv'
  <2> USE <1>7 DEF LoseWatchChannel, WatchFault, WatchInv
  <2>0. /\ unread'[p] = << >> /\ \A q \in Security : q # p => unread'[q] = unread[q]
        /\ \A i \in DOMAIN unread[p] : <<p, unread[p][i].source>> \in missed'
        /\ missed \subseteq missed'
      BY DEF WatchTypeOK
  <2>1. WatchTypeOK'
    <3> DEFINE Entries == [source : Source, until : Deadline]
    <3>1. unread \in [Security -> Seq(Entries)] /\ missed \subseteq Security \X Source
        BY Zenon DEF WatchTypeOK
    <3>2. \A i \in DOMAIN unread[p] : unread[p][i].source \in Source
      <4>1. \A i \in DOMAIN unread[p] : unread[p][i] \in Entries
        <5> HIDE DEF Entries
        <5> QED
            BY <3>1
      <4> QED
          BY <4>1
    <3>3. missed' \subseteq Security \X Source
        BY <3>1, <3>2
    <3>4. unread' \in [Security -> Seq(Entries)]
      <4> HIDE DEF Entries
      <4> QED
          BY <3>1
    <3>5. watchFaults' \in 0..MaxWatchFaults
        BY DEF WatchTypeOK
    <3>6. /\ second' = second /\ decoys' = decoys /\ decoysMade' = decoysMade /\ told' = told
          /\ table' = table /\ overflow' = overflow /\ refused' = refused
        OBVIOUS
    <3> QED
        BY <3>3, <3>4, <3>5, <3>6, Zenon DEF WatchTypeOK
  <2>2. LastIsTold'
    <3> SUFFICES ASSUME NEW q \in Security, NEW t \in Source, NEW i \in DOMAIN unread'[q],
                        unread'[q][i].source = t, told'[q][t] # 0
                 PROVE  \E j \in DOMAIN unread'[q] : j >= i /\ unread'[q][j].source = t
                                                     /\ unread'[q][j].until = told'[q][t]
        BY DEF LastIsTold
    <3>1. q # p
        BY <2>0
    <3> QED
        BY <3>1, <2>0 DEF LastIsTold
  <2>3. EverythingIsCarried'
    <3>1. ASSUME NEW q \in Security, NEW t \in Source, told[q][t] > second
          PROVE  Carried(q, t)'
      <4>1. Carried(q, t)
          BY <3>1 DEF EverythingIsCarried
      <4>2. CASE q = p
          BY <4>1, <4>2, <2>0 DEF Carried
      <4>3. CASE q # p
          BY <4>1, <4>3, <2>0 DEF Carried
      <4> QED
          BY <4>2, <4>3
    <3> QED
        BY <3>1 DEF EverythingIsCarried
  <2> QED
      BY <2>1, <2>2, <2>3
<1>8. ASSUME NEW p \in Security, RelaunchProcess(p) PROVE WatchInv'
  <2> USE <1>8 DEF RelaunchProcess, WatchFault, WatchInv
  <2>0. /\ \A t \in Source : told'[p][t] = 0
        /\ \A q \in Security : q # p => told'[q] = told[q]
      BY DEF WatchTypeOK
  <2>1. WatchTypeOK'
    <3>1. told' \in [Security -> [Source -> Deadline]] /\ watchFaults' \in 0..MaxWatchFaults
        BY DEF WatchTypeOK
    <3>2. /\ second' = second /\ decoys' = decoys /\ decoysMade' = decoysMade /\ unread' = unread
          /\ table' = table /\ overflow' = overflow /\ refused' = refused /\ missed' = missed
        OBVIOUS
    <3> QED
        BY <3>1, <3>2, Zenon DEF WatchTypeOK
  <2>2. LastIsTold'
      BY <2>0 DEF LastIsTold
  <2>3. EverythingIsCarried'
      BY <2>0 DEF EverythingIsCarried, Carried, WatchTypeOK
  <2> QED
      BY <2>1, <2>2, <2>3
<1>9. CASE UNCHANGED watchVars
  <2>1. /\ second' = second /\ decoys' = decoys /\ decoysMade' = decoysMade /\ told' = told
        /\ unread' = unread /\ table' = table /\ overflow' = overflow /\ refused' = refused
        /\ missed' = missed /\ watchFaults' = watchFaults
      BY <1>9 DEF watchVars
  <2>2. WatchTypeOK'
      BY <2>1, Zenon DEF WatchInv, WatchTypeOK
  <2>3. LastIsTold' /\ EverythingIsCarried'
      BY <2>1 DEF WatchInv, LastIsTold, EverythingIsCarried, Carried
  <2> QED
      BY <2>2, <2>3 DEF WatchInv
<1> QED
    BY <1>1, <1>2, <1>3, <1>4, <1>5, <1>6, <1>7, <1>8, <1>9 DEF WatchNext

LEMMA WatchSafety == WatchSpec => []WatchInv
BY WatchStart, WatchStep, PTL DEF WatchSpec

\* The variables keep their types.
THEOREM WatchTypeCorrect == WatchSpec => []WatchTypeOK
<1>1. WatchInv => WatchTypeOK
    BY DEF WatchInv
<1> QED
    BY <1>1, WatchSafety, PTL

\* While a process holds a source to be followed, the engine sends it every request of the source, or has
\* one of the reasons named.
THEOREM FollowedSourcesAreSent == WatchSpec => []FollowedGoToPython
<1>1. ASSUME WatchInv PROVE FollowedGoToPython
  <2> SUFFICES ASSUME NEW p \in Security, NEW s \in Source, told[p][s] > second, JudgedAlone(s)
               PROVE  \/ \E i \in DOMAIN unread[p] : unread[p][i].source = s
                      \/ <<p, s>> \in missed
                      \/ <<p, s>> \in refused /\ HasPlace(Purged(table))
      BY DEF FollowedGoToPython
  <2>1. Carried(p, s) /\ (refused # {} => overflow)
      BY <1>1 DEF WatchInv, EverythingIsCarried
  <2>2. ~(table[s] >= told[p][s])
      BY <1>1, WatchConstants DEF WatchInv, WatchTypeOK, JudgedAlone, Deadline
  <2> QED
      BY <2>1, <2>2 DEF Carried, JudgedAlone
<1> QED
    BY <1>1, WatchSafety, PTL

-----------------------------------------------------------------------------
(* The requests that the native engine sends to Python.                     *)

\* The frames that Python has not answered yet: on their way, or with the security process.
InQueue(q) == {q[i] : i \in DOMAIN q}
Pending    == inPython \cup InQueue(queue)

AsFrame(n, kind) == [number |-> n, kind |-> kind]

\* A request that Python still is to judge, and one that was judged and may be served.
Unjudged(c) == AsFrame(number[c], "inspect") \in Pending
Served(c)   == ruled[c] \in {"clean", "continue"} /\ ~Unjudged(c)

\* The requests have numbers of their own, and nothing on the channel has a number not given yet.
Numbered ==
    /\ \A c \in Connection : number[c] <= lastNumber /\ (number[c] = 0 <=> busy[c] = "none")
    /\ \A c, d \in Connection : number[c] = number[d] /\ number[c] # 0 => c = d
    /\ \A f \in Pending : f.number <= lastNumber
    /\ \A v \in verdicts : v.number <= lastNumber

\* A request is inspected once.
OnceIn(q) ==
    \A i \in DOMAIN q : q[i].kind = "inspect" =>
        q[i] \notin inPython /\ \A j \in DOMAIN q : q[j] = q[i] => i = j

InspectedOnce == OnceIn(queue)

\* Nothing on the channel is about a request that is still being read.
NothingYet ==
    \A c \in Connection : busy[c] = "read" =>
        /\ answers[c] = "none"
        /\ \A f \in Pending : f.number # number[c]
        /\ \A v \in verdicts : v.number # number[c]

\* The verdicts not read yet are those of the rulings, and only what was judged is delegated.
RulingOf(c) ==
    /\ \A v \in verdicts : v.number = number[c] =>
          /\ v.says = "continue" => ruled[c] = "continue" /\ ~Unjudged(c)
          /\ v.says = "refusal" => ruled[c] = "refusal" /\ ~Unjudged(c)
          /\ v.says = "delegated" => Served(c) \/ c \in lenient
    /\ AsFrame(number[c], "delegate") \in Pending \/ busy[c] = "delegate" => Served(c) \/ c \in lenient
    /\ busy[c] = "delegate" /\ c \notin lenient =>
          \A v \in verdicts : ~(v.number = number[c] /\ v.says = "continue")

Ruling == \A c \in Connection : number[c] # 0 => RulingOf(c)

\* What a client may be given.
MayBeGiven(c, a) ==
    /\ a \in {"page", "delegated"} => Served(c) \/ c \in lenient
    /\ a = "refusal" => ruled[c] = "refusal" /\ ~Unjudged(c)
    /\ a = "500" => ruled[c] = "continue" /\ c \in lenient /\ ~Unjudged(c)

Answering == \A c \in Connection : (answers[c] # "none" => busy[c] = "write") /\ MayBeGiven(c, answers[c])

ChannelInv == Numbered /\ InspectedOnce /\ NothingYet /\ Ruling /\ Answering

InspectionInv == InspectionTypeOK /\ EveryWaitIsKnown /\ ChannelInv

LEMMA InspectionConstants == MaxQueued \in Nat /\ MaxNumber \in Nat /\ MaxChannelFaults \in Nat
BY InspectionAssumption

LEMMA InspectionStart == InspectionInit => InspectionInv
<1> SUFFICES ASSUME InspectionInit PROVE InspectionInv
    OBVIOUS
<1> USE InspectionConstants DEF InspectionInit
<1>1. InspectionTypeOK
    BY DEF InspectionTypeOK, Phase, Questions
<1>2. EveryWaitIsKnown
    BY DEF EveryWaitIsKnown, Questions
<1>3. Pending = {}
    BY DEF Pending, InQueue
<1>4. Numbered /\ InspectedOnce /\ NothingYet
    BY <1>3 DEF Numbered, InspectedOnce, OnceIn, NothingYet
<1>5. Ruling /\ Answering
    BY <1>3 DEF Ruling, Answering, MayBeGiven
<1> QED
    BY <1>1, <1>2, <1>4, <1>5 DEF InspectionInv, ChannelInv

-----------------------------------------------------------------------------
(* What a step does to each connection.                                     *)

Stays(c)   == busy'[c] = busy[c] /\ number'[c] = number[c] /\ answers'[c] = answers[c]
Clears(c)  == busy'[c] = "none" /\ number'[c] = 0 /\ answers'[c] = "none"
Judged(c)  == (ruled'[c] \in {"clean", "continue"} /\ ~Unjudged(c)) \/ c \in lenient
Given1(c, a) ==
    /\ a \in {"page", "delegated"} => Judged(c)
    /\ a = "refusal" => ruled'[c] = "refusal" /\ ~Unjudged(c)
    /\ a = "500" => ruled'[c] = "continue" /\ c \in lenient /\ ~Unjudged(c)
WritesAnswer(c) ==
    /\ busy[c] # "none" /\ busy'[c] = "write" /\ number'[c] = number[c]
    /\ Given1(c, answers'[c])
Delegates(c) ==
    /\ busy[c] \in {"read", "inspect"} /\ busy'[c] = "delegate" /\ number'[c] = number[c] /\ answers'[c] = answers[c]
    /\ Judged(c)
    /\ c \notin lenient => \A v \in verdicts' : ~(v.number = number[c] /\ v.says = "continue")
Asks(c) == busy[c] = "read" /\ busy'[c] = "inspect" /\ number'[c] = number[c] /\ answers'[c] = answers[c]

\* A step of the thread: no connection begins a request, and no verdict is added.
Moves ==
    /\ lastNumber' = lastNumber /\ lenient' = lenient /\ verdicts' \subseteq verdicts
    /\ \A c \in Connection : ruled'[c] = ruled[c] \/ (busy[c] = "read" /\ busy'[c] # "read")
    /\ \A c \in Connection : Stays(c) \/ Clears(c) \/ WritesAnswer(c) \/ Delegates(c) \/ Asks(c)
    /\ \A f \in Pending' : f \in Pending \/ \E c \in Connection :
           /\ busy[c] # "none" /\ busy'[c] # "read" /\ f.number = number[c]
           /\ \/ f.kind = "inspect" /\ Asks(c)
              \/ f.kind = "delegate" /\ Judged(c) /\ ~Asks(c)
              \/ f.kind = "handoff"

LEMMA MovesKeepInv ==
    ASSUME InspectionTypeOK, ChannelInv, Moves, InspectedOnce'
    PROVE  ChannelInv'
<1> USE InspectionConstants DEF ChannelInv
<1>1. /\ \A c \in Connection : number[c] \in Nat
      /\ lastNumber \in Nat
      /\ \A v \in verdicts : v.number \in Nat
    BY DEF InspectionTypeOK, VerdictOf, Number
<1>2. \A c \in Connection : number'[c] = number[c] \/ (number'[c] = 0 /\ busy'[c] = "none")
  <2> TAKE c \in Connection
  <2>1. Stays(c) \/ Clears(c) \/ WritesAnswer(c) \/ Delegates(c) \/ Asks(c)
      BY DEF Moves
  <2> QED
      BY <2>1 DEF Stays, Clears, WritesAnswer, Delegates, Asks
<1>3. Numbered'
  <2>1. \A c \in Connection : number'[c] <= lastNumber /\ (number'[c] = 0 <=> busy'[c] = "none")
      BY <1>1 DEF Moves, Stays, Clears, WritesAnswer, Delegates, Asks, Numbered
  <2>2. \A c, d \in Connection : number'[c] = number'[d] /\ number'[c] # 0 => c = d
      BY <1>2 DEF Numbered
  <2>3. \A f \in Pending' : f.number <= lastNumber
      BY DEF Moves, Numbered
  <2>4. \A v \in verdicts' : v.number <= lastNumber
      BY DEF Moves, Numbered
  <2> QED
      BY <2>1, <2>2, <2>3, <2>4 DEF Moves, Numbered
<1>4. ASSUME NEW c \in Connection, number'[c] # 0
      PROVE  /\ number'[c] = number[c] /\ number[c] # 0
             /\ Unjudged(c)' => Unjudged(c) \/ Asks(c)
             /\ AsFrame(number[c], "delegate") \in Pending' =>
                    AsFrame(number[c], "delegate") \in Pending \/ (busy'[c] # "read" /\ Judged(c) /\ ~Asks(c))
  <2>1. number'[c] = number[c] /\ number[c] # 0
      BY <1>2, <1>4
  <2>2. ASSUME NEW f \in Pending', f.number = number[c], f \notin Pending
        PROVE  /\ busy'[c] # "read"
               /\ f.kind = "inspect" => Asks(c)
               /\ f.kind = "delegate" => Judged(c) /\ ~Asks(c)
    <3>1. PICK d \in Connection :
             /\ busy[d] # "none" /\ busy'[d] # "read" /\ f.number = number[d]
             /\ \/ f.kind = "inspect" /\ Asks(d)
                \/ f.kind = "delegate" /\ Judged(d) /\ ~Asks(d)
                \/ f.kind = "handoff"
        BY <2>2 DEF Moves
    <3>2. d = c
        BY <3>1, <2>1, <2>2 DEF Numbered
    <3> QED
        BY <3>1, <3>2
  <2>3. AsFrame(number[c], "inspect").number = number[c] /\ AsFrame(number[c], "inspect").kind = "inspect"
        /\ AsFrame(number[c], "delegate").number = number[c] /\ AsFrame(number[c], "delegate").kind = "delegate"
      BY DEF AsFrame
  <2>4. Unjudged(c)' => Unjudged(c) \/ Asks(c)
      BY <2>1, <2>2, <2>3, Zenon DEF Unjudged
  <2>5. AsFrame(number[c], "delegate") \in Pending' =>
            AsFrame(number[c], "delegate") \in Pending \/ (busy'[c] # "read" /\ Judged(c) /\ ~Asks(c))
    <3> DEFINE f == AsFrame(number[c], "delegate")
    <3>1. f.number = number[c] /\ f.kind = "delegate"
        BY <2>3
    <3> HIDE DEF f
    <3>2. f \in Pending' /\ f \notin Pending => busy'[c] # "read" /\ Judged(c) /\ ~Asks(c)
        BY <2>2, <3>1
    <3> QED
        BY <3>2 DEF f
  <2> QED
      BY <2>1, <2>4, <2>5, Zenon
<1>5. NothingYet'
  <2> SUFFICES ASSUME NEW c \in Connection, busy'[c] = "read"
               PROVE  /\ answers'[c] = "none"
                      /\ \A f \in Pending' : f.number # number'[c]
                      /\ \A v \in verdicts' : v.number # number'[c]
      BY DEF NothingYet
  <2>1. Stays(c)
      BY DEF Moves, Clears, WritesAnswer, Delegates, Asks
  <2>2. number[c] # 0
      BY <2>1 DEF Numbered, Stays
  <2>3. ASSUME NEW f \in Pending', f.number = number[c]
        PROVE  FALSE
    <3>1. f \notin Pending
        BY <2>1, <2>3 DEF NothingYet, Stays
    <3>2. PICK d \in Connection : busy'[d] # "read" /\ f.number = number[d]
        BY <3>1 DEF Moves
    <3> QED
        BY <3>2, <2>2, <2>3 DEF Numbered
  <2> QED
      BY <2>1, <2>3 DEF Stays, NothingYet, Moves
<1>6. Ruling'
  <2> SUFFICES ASSUME NEW c \in Connection, number'[c] # 0
               PROVE  RulingOf(c)'
      BY DEF Ruling
  <2>1. number'[c] = number[c] /\ number[c] # 0 /\ RulingOf(c)
      BY <1>4 DEF Ruling
  <2>2. lenient' = lenient /\ verdicts' \subseteq verdicts
      BY DEF Moves
  <2>3. CASE busy[c] = "read"
    <3>1. \A v \in verdicts : v.number # number[c]
        BY <2>3 DEF NothingYet
    <3>2. AsFrame(number[c], "delegate") \notin Pending /\ ~Unjudged(c)
        BY <2>3 DEF NothingYet, AsFrame, Unjudged
    <3>3. AsFrame(number'[c], "delegate") \in Pending' \/ busy'[c] = "delegate" => Judged(c) /\ ~Asks(c)
      <4>1. AsFrame(number'[c], "delegate") \in Pending' => Judged(c) /\ ~Asks(c)
          BY <3>2, <2>1, <1>4
      <4>2. busy'[c] = "delegate" => Delegates(c)
          BY <2>3 DEF Moves, Stays, Clears, WritesAnswer, Asks
      <4> QED
          BY <4>1, <4>2 DEF Delegates, Asks
    <3>4. ~Asks(c) => ~Unjudged(c)'
        BY <3>2, <1>4
    <3> QED
        BY <3>1, <3>2, <3>3, <3>4, <2>1, <2>2 DEF RulingOf, Judged, Served
  <2>4. CASE busy[c] # "read"
    <3>1. ruled'[c] = ruled[c] /\ (Unjudged(c)' => Unjudged(c))
        BY <2>4, <1>4 DEF Moves, Asks
    <3>2. \A v \in verdicts' : v.number = number[c] =>
             /\ v.says = "continue" => ruled'[c] = "continue" /\ ~Unjudged(c)'
             /\ v.says = "refusal" => ruled'[c] = "refusal" /\ ~Unjudged(c)'
             /\ v.says = "delegated" => Served(c)' \/ c \in lenient
        BY <3>1, <2>1, <2>2 DEF RulingOf, Served
    <3>3. AsFrame(number[c], "delegate") \in Pending' \/ busy'[c] = "delegate" => Served(c)' \/ c \in lenient
        BY <3>1, <2>1, <2>4, <1>4 DEF RulingOf, Served, Judged, Moves, Stays, Clears, WritesAnswer, Delegates, Asks
    <3>4. busy'[c] = "delegate" /\ c \notin lenient =>
             \A v \in verdicts' : ~(v.number = number[c] /\ v.says = "continue")
        BY <2>1, <2>2 DEF RulingOf, Moves, Stays, Clears, WritesAnswer, Delegates, Asks
    <3> QED
        BY <3>2, <3>3, <3>4, <2>1, <2>2 DEF RulingOf
  <2> QED
      BY <2>3, <2>4
<1>7. Answering'
  <2> SUFFICES ASSUME NEW c \in Connection
               PROVE  (answers'[c] # "none" => busy'[c] = "write") /\ MayBeGiven(c, answers[c])'
      BY DEF Answering
  <2>1. lenient' = lenient
      BY DEF Moves
  <2>2. (answers[c] # "none" => busy[c] = "write") /\ MayBeGiven(c, answers[c])
      BY DEF Answering
  <2>3. CASE answers'[c] = "none"
      BY <2>3 DEF MayBeGiven
  <2>4. CASE answers'[c] # "none" /\ Stays(c)
    <3>1. busy[c] = "write" /\ busy'[c] = "write"
        BY <2>2, <2>4 DEF Stays
    <3>2. number'[c] # 0 /\ ruled'[c] = ruled[c] /\ ~Asks(c)
        BY <3>1, <1>3 DEF Numbered, Moves, Asks
    <3>3. Unjudged(c)' => Unjudged(c)
        BY <3>2, <1>4
    <3> QED
        BY <2>1, <2>2, <2>4, <3>1, <3>2, <3>3 DEF MayBeGiven, Served, Stays
  <2>5. CASE answers'[c] # "none" /\ WritesAnswer(c)
    <3>1. number'[c] # 0 /\ ~Asks(c)
        BY <2>5, <1>3 DEF Numbered, WritesAnswer, Asks
    <3>2. Unjudged(c)' => Unjudged(c)
        BY <3>1, <1>4
    <3> QED
        BY <2>1, <2>5, <3>2 DEF MayBeGiven, Served, WritesAnswer, Given1, Judged
  <2>6. CASE answers'[c] # "none" /\ (Delegates(c) \/ Asks(c))
    <3>1. busy[c] = "write"
        BY <2>2, <2>6 DEF Delegates, Asks
    <3> QED
        BY <3>1, <2>6 DEF Delegates, Asks
  <2> QED
      BY <2>3, <2>4, <2>5, <2>6 DEF Moves, Clears
<1> QED
    BY <1>3, <1>5, <1>6, <1>7
-----------------------------------------------------------------------------
(* The pieces of the handlers.                                              *)

\* The entries of the connections of S that wait.
WaitsOf(S) == {<<number[c], c>> : c \in {d \in S : busy[d] \in Questions}}

ChannelTypes ==
    /\ busy \in [Connection -> Phase] /\ number \in [Connection -> 0..MaxNumber]
    /\ lenient \subseteq Connection /\ lastNumber \in 0..MaxNumber
    /\ link \in {"none", "open", "dead"}
    /\ queue \in Seq(Frame) /\ Len(queue) <= MaxQueued
    /\ awaited \subseteq Number \X Connection
    /\ inPython \subseteq Frame /\ verdicts \subseteq VerdictOf
    /\ answers \in [Connection -> Given \cup {"none"}]

\* What each handler of the thread keeps, the rulings and the faults set apart.
Handled == Moves /\ InspectedOnce' /\ EveryWaitIsKnown' /\ ChannelTypes'

LEMMA TypesHold == InspectionTypeOK => ChannelTypes
BY DEF InspectionTypeOK, ChannelTypes

\* The answers and the ends of some connections leave the others.
LEMMA AnswerEffect ==
    ASSUME ChannelTypes, NEW D \in SUBSET Connection, NEW given \in [D -> Given], Answer(given)
    PROVE  /\ busy' \in [Connection -> Phase] /\ number' \in [Connection -> 0..MaxNumber]
           /\ answers' \in [Connection -> Given \cup {"none"}]
           /\ lenient' = lenient /\ lastNumber' = lastNumber
           /\ \A c \in Connection : c \notin D => Stays(c)
           /\ \A c \in D : given[c] \in {"closed", "handed"} => Clears(c)
           /\ \A c \in D : given[c] \notin {"closed", "handed"} =>
                  busy'[c] = "write" /\ number'[c] = number[c] /\ answers'[c] = given[c]
           /\ WaitsOf(Connection)' = WaitsOf(Connection \ D)
<1> DEFINE Ends(c) == c \in D /\ given[c] \in {"closed", "handed"}
<1>1. /\ answers' = [c \in Connection |-> IF Ends(c) THEN "none" ELSE IF c \in D THEN given[c] ELSE answers[c]]
      /\ busy' = [c \in Connection |-> IF Ends(c) THEN "none" ELSE IF c \in D THEN "write" ELSE busy[c]]
      /\ number' = [c \in Connection |-> IF Ends(c) THEN 0 ELSE number[c]]
      /\ lenient' = lenient /\ lastNumber' = lastNumber
    BY DEF Answer
<1>2. /\ busy \in [Connection -> Phase] /\ number \in [Connection -> 0..MaxNumber]
      /\ answers \in [Connection -> Given \cup {"none"}]
    BY DEF ChannelTypes
<1>3. "none" \in Phase /\ "write" \in Phase /\ 0 \in 0..MaxNumber
    BY InspectionConstants DEF Phase
<1>4. /\ busy' \in [Connection -> Phase] /\ number' \in [Connection -> 0..MaxNumber]
      /\ answers' \in [Connection -> Given \cup {"none"}]
    BY <1>1, <1>2, <1>3
<1>5. /\ \A c \in Connection : c \notin D => Stays(c)
      /\ \A c \in D : given[c] \in {"closed", "handed"} => Clears(c)
      /\ \A c \in D : given[c] \notin {"closed", "handed"} =>
             busy'[c] = "write" /\ number'[c] = number[c] /\ answers'[c] = given[c]
    BY <1>1 DEF Stays, Clears
<1>6. WaitsOf(Connection)' = WaitsOf(Connection \ D)
  <2>1. \A c \in D : busy'[c] \notin Questions
      BY <1>5 DEF Clears, Questions
  <2>2. \A c \in Connection : c \notin D => busy'[c] = busy[c] /\ number'[c] = number[c]
      BY <1>5 DEF Stays
  <2> QED
      BY <2>1, <2>2 DEF WaitsOf
<1> QED
    BY <1>1, <1>4, <1>5, <1>6

\* The socket takes the first frames of the queue.
LEMMA SendOutEffect ==
    ASSUME NEW q \in Seq(Frame), NEW sent \in 0..Len(q), inPython \subseteq Frame, OnceIn(q), SendOut(q, sent)
    PROVE  /\ queue' \in Seq(Frame) /\ Len(queue') = Len(q) - sent
           /\ inPython' \subseteq Frame
           /\ Pending' \subseteq inPython \cup InQueue(q)
           /\ InspectedOnce'
<1>1. /\ queue' = SubSeq(q, sent + 1, Len(q))
      /\ inPython' = inPython \cup {q[i] : i \in {j \in 1..sent : q[j].kind # "handoff"}}
    BY DEF SendOut
<1>2. Len(q) \in Nat /\ DOMAIN q = 1..Len(q) /\ \A i \in DOMAIN q : q[i] \in Frame
    OBVIOUS
<1>3. /\ queue' \in Seq(Frame) /\ Len(queue') = Len(q) - sent /\ DOMAIN queue' = 1..(Len(q) - sent)
      /\ \A i \in 1..(Len(q) - sent) : queue'[i] = q[sent + i]
  <2> DEFINE rest == [i \in 1..(Len(q) - sent) |-> q[sent + i]]
  <2>1. rest \in Seq(Frame) /\ Len(rest) = Len(q) - sent /\ DOMAIN rest = 1..(Len(q) - sent)
      BY <1>2
  <2>2. queue' = rest
      BY <1>1, <1>2
  <2> QED
      BY <2>1, <2>2
<1>4. inPython' \subseteq Frame
    BY <1>1, <1>2
<1>5. \A i \in DOMAIN queue' : sent + i \in DOMAIN q /\ queue'[i] = q[sent + i]
    BY <1>2, <1>3
<1>6. Pending' \subseteq inPython \cup InQueue(q)
    BY <1>1, <1>2, <1>5, SMTT(30) DEF Pending, InQueue
<1>7. InspectedOnce'
  <2> SUFFICES ASSUME NEW i \in DOMAIN queue', queue'[i].kind = "inspect"
               PROVE  queue'[i] \notin inPython' /\ \A j \in DOMAIN queue' : queue'[j] = queue'[i] => i = j
      BY DEF InspectedOnce, OnceIn
  <2>1. sent + i \in DOMAIN q /\ queue'[i] = q[sent + i] /\ i \in Nat /\ i >= 1
      BY <1>3, <1>5
  <2>2. q[sent + i] \notin inPython /\ \A j \in DOMAIN q : q[j] = q[sent + i] => sent + i = j
      BY <2>1 DEF OnceIn
  <2>3. queue'[i] \notin inPython'
    <3>1. ASSUME NEW k \in 1..sent, q[k] = q[sent + i]
          PROVE  FALSE
      <4>1. k \in DOMAIN q /\ sent \in Nat
          BY <1>2
      <4> QED
          BY <4>1, <3>1, <2>1, <2>2
    <3> QED
        BY <3>1, <1>1, <2>1, <2>2
  <2>4. ASSUME NEW j \in DOMAIN queue', queue'[j] = queue'[i]
        PROVE  i = j
    <3>1. sent + j \in DOMAIN q /\ q[sent + j] = q[sent + i] /\ j \in Nat
        BY <1>3, <1>5, <2>1, <2>4
    <3> QED
        BY <3>1, <2>1, <2>2
  <2> QED
      BY <2>3, <2>4
<1> QED
    BY <1>3, <1>4, <1>6, <1>7

\* The channel is lost: every request that waits gets an answer, or an end.
LEMMA LoseChannelEffect ==
    ASSUME ChannelTypes, NEW D \in SUBSET Connection, NEW E \in SUBSET Connection,
           NEW asking \in [D -> Questions], NEW given \in [E -> {"handed"}], NEW newLink \in {"none", "open"},
           \A c \in D \cup E : busy[c] # "none",
           \A c \in Connection : busy[c] \in Questions => c \in D \cup E,
           \A c \in Connection : ruled'[c] = ruled[c] \/ (busy[c] = "read" /\ c \in D \cup E),
           LoseChannel(asking, given, newLink)
    PROVE  Handled
<1>1. PICK failed \in [D -> {"451", "page", "503", "closed"}] :
         /\ \A c \in D : failed[c] \in Otherwise(c, asking[c])
         /\ Answer([c \in D \cup E |-> IF c \in E THEN given[c] ELSE failed[c]])
    BY DEF LoseChannel
<1> DEFINE all == [c \in D \cup E |-> IF c \in E THEN given[c] ELSE failed[c]]
<1>2. link' = newLink /\ queue' = << >> /\ inPython' = {} /\ verdicts' = {} /\ awaited' = {}
    BY DEF LoseChannel
<1>3. all \in [D \cup E -> Given] /\ D \cup E \in SUBSET Connection
    BY <1>1 DEF Given
<1>4. \A c \in D \cup E : all[c] = IF c \in E THEN "handed" ELSE failed[c]
    OBVIOUS
<1> HIDE DEF all
<1>5. /\ busy' \in [Connection -> Phase] /\ number' \in [Connection -> 0..MaxNumber]
      /\ answers' \in [Connection -> Given \cup {"none"}]
      /\ lenient' = lenient /\ lastNumber' = lastNumber
      /\ \A c \in Connection : c \notin D \cup E => Stays(c)
      /\ \A c \in D \cup E : all[c] \in {"closed", "handed"} => Clears(c)
      /\ \A c \in D \cup E : all[c] \notin {"closed", "handed"} =>
             busy'[c] = "write" /\ number'[c] = number[c] /\ answers'[c] = all[c]
      /\ WaitsOf(Connection)' = WaitsOf(Connection \ (D \cup E))
    BY <1>1, <1>3, AnswerEffect DEF all
<1>6. Pending' = {}
    BY <1>2 DEF Pending, InQueue
<1>7. \A c \in Connection : Stays(c) \/ Clears(c) \/ WritesAnswer(c)
  <2> TAKE c \in Connection
  <2>1. CASE c \in D \cup E /\ all[c] \notin {"closed", "handed"}
    <3>1. c \in D /\ c \notin E /\ all[c] = failed[c] /\ failed[c] \in Otherwise(c, asking[c])
        BY <2>1, <1>1, <1>4
    <3>2. all[c] \in {"451", "page", "503"} /\ (all[c] = "page" => c \in lenient)
        BY <3>1, <2>1 DEF Otherwise
    <3>3. Given1(c, all[c])
        BY <3>2 DEF Given1, Judged
    <3> QED
        BY <3>3, <2>1, <1>5 DEF WritesAnswer
  <2> QED
      BY <2>1, <1>5
<1>8. Moves
  <2>1. \A c \in Connection : ruled'[c] = ruled[c] \/ (busy[c] = "read" /\ busy'[c] # "read")
      BY <1>5 DEF Clears
  <2> QED
      BY <1>2, <1>5, <1>6, <1>7, <2>1 DEF Moves
<1>9. InspectedOnce'
    BY <1>2 DEF InspectedOnce, OnceIn
<1>10. EveryWaitIsKnown'
  <2>1. WaitsOf(Connection)' = {}
      BY <1>5 DEF WaitsOf
  <2> QED
      BY <2>1, <1>2 DEF EveryWaitIsKnown, WaitsOf
<1>11. ChannelTypes'
  <2>1. queue' \in Seq(Frame) /\ Len(queue') <= MaxQueued
      BY <1>2, InspectionConstants
  <2>2. lenient' \subseteq Connection /\ lastNumber' \in 0..MaxNumber /\ link' \in {"none", "open", "dead"}
      BY <1>2, <1>5 DEF ChannelTypes
  <2>3. awaited' \subseteq Number \X Connection /\ inPython' \subseteq Frame /\ verdicts' \subseteq VerdictOf
      BY <1>2
  <2> QED
      BY <2>1, <2>2, <2>3, <1>5 DEF ChannelTypes
<1> QED
    BY <1>8, <1>9, <1>10, <1>11 DEF Handled

\* An answer, or an end, of one connection.
LEMMA AnswerOneEffect ==
    ASSUME ChannelTypes, EveryWaitIsKnown, InspectedOnce, NEW c \in Connection, NEW a \in Given,
           busy[c] # "none", a \notin {"closed", "handed"} => Given1(c, a),
           \A d \in Connection : ruled'[d] = ruled[d] \/ (busy[d] = "read" /\ d = c),
           AnswerOne(c, a), verdicts' \subseteq verdicts, awaited' = WaitsOf(Connection \ {c}),
           UNCHANGED <<link, queue, inPython>>
    PROVE  Handled
<1> DEFINE given == [d \in {c} |-> a]
<1>1. given \in [{c} -> Given] /\ given[c] = a /\ Answer(given)
    BY DEF AnswerOne
<1> HIDE DEF given
<1>2. /\ busy' \in [Connection -> Phase] /\ number' \in [Connection -> 0..MaxNumber]
      /\ answers' \in [Connection -> Given \cup {"none"}]
      /\ lenient' = lenient /\ lastNumber' = lastNumber
      /\ \A d \in Connection : d # c => Stays(d)
      /\ a \in {"closed", "handed"} => Clears(c)
      /\ a \notin {"closed", "handed"} => busy'[c] = "write" /\ number'[c] = number[c] /\ answers'[c] = a
      /\ WaitsOf(Connection)' = WaitsOf(Connection \ {c})
  <2>1. {c} \in SUBSET Connection
      OBVIOUS
  <2> QED
      BY <1>1, <2>1, AnswerEffect
<1>3. Pending' = Pending
    BY DEF Pending, InQueue
<1>4. Stays(c) \/ Clears(c) \/ WritesAnswer(c)
    BY <1>2 DEF WritesAnswer
<1>5. busy'[c] # "read"
    BY <1>2 DEF Clears
<1>6. Moves
    BY <1>2, <1>3, <1>4, <1>5 DEF Moves
<1>7. InspectedOnce'
    BY DEF InspectedOnce, OnceIn
<1>8. EveryWaitIsKnown'
  <2>1. awaited' = WaitsOf(Connection)'
      BY <1>2
  <2>2. awaited' \subseteq awaited
      BY DEF EveryWaitIsKnown, WaitsOf
  <2> QED
      BY <2>1, <2>2 DEF EveryWaitIsKnown, WaitsOf
<1>9. ChannelTypes'
  <2>1. awaited' \subseteq awaited
      BY DEF EveryWaitIsKnown, WaitsOf
  <2> QED
      BY <1>2, <2>1 DEF ChannelTypes
<1> QED
    BY <1>6, <1>7, <1>8, <1>9 DEF Handled

\* A frame of a connection is sent, or the request has an answer without it.
LEMMA StartInspectionEffect ==
    ASSUME ChannelTypes, EveryWaitIsKnown, ChannelInv, NEW c \in Connection, NEW question \in Questions,
           NEW waits, NEW left \in SUBSET verdicts,
           busy[c] \in {"read", "inspect"}, question = "inspect" => busy[c] = "read",
           question = "delegate" => Judged(c),
           question = "delegate" /\ c \notin lenient =>
               \A v \in left : ~(v.number = number[c] /\ v.says = "continue"),
           waits = WaitsOf(Connection \ {c}),
           \A d \in Connection : ruled'[d] = ruled[d] \/ (busy[d] = "read" /\ d = c),
           StartInspection(c, question, waits, left)
    PROVE  Handled
<1> DEFINE frame == AsFrame(number[c], question)
<1>1. busy[c] # "none" /\ number[c] \in Number /\ InspectedOnce
    BY InspectionConstants DEF ChannelInv, Numbered, ChannelTypes, Number
<1>2. frame \in Frame /\ frame.number = number[c] /\ frame.kind = question
    BY <1>1 DEF AsFrame, Frame
<1>3. CASE /\ \E a \in Otherwise(c, question) : AnswerOne(c, a)
           /\ awaited' = waits /\ verdicts' = left
           /\ UNCHANGED <<link, queue, inPython>>
  <2>1. PICK a \in Otherwise(c, question) : AnswerOne(c, a)
      BY <1>3
  <2>2. a \in Given /\ Given1(c, a)
      BY DEF Otherwise, Given, Given1, Judged
  <2> QED
      BY <1>1, <1>3, <2>1, <2>2, AnswerOneEffect
<1>4. CASE /\ link = "open" /\ Len(queue) < MaxQueued
           /\ \E sent \in 0..(Len(queue) + 1) : SendOut(Append(queue, frame), sent)
           /\ busy' = [busy EXCEPT ![c] = question]
           /\ awaited' = waits \cup {<<number[c], c>>} /\ verdicts' = left
           /\ UNCHANGED <<number, lenient, lastNumber, link, answers>>
  <2> DEFINE q == Append(queue, frame)
  <2>1. /\ queue \in Seq(Frame) /\ Len(queue) \in Nat /\ Len(queue) < MaxQueued
        /\ inPython \subseteq Frame
      BY <1>4 DEF ChannelTypes
  <2>2. /\ q \in Seq(Frame) /\ Len(q) = Len(queue) + 1 /\ DOMAIN queue = 1..Len(queue)
        /\ DOMAIN q = 1..(Len(queue) + 1) /\ q[Len(queue) + 1] = frame
        /\ \A i \in 1..Len(queue) : q[i] = queue[i]
    <3> HIDE DEF frame
    <3> QED
        BY <1>2, <2>1
  <2> HIDE DEF frame, q
  <2>3. frame.kind = "inspect" => frame \notin Pending
      BY <1>2 DEF ChannelInv, NothingYet
  <2>4. OnceIn(q)
    <3> SUFFICES ASSUME NEW i \in DOMAIN q, q[i].kind = "inspect"
                 PROVE  q[i] \notin inPython /\ \A j \in DOMAIN q : q[j] = q[i] => i = j
        BY DEF OnceIn
    <3>1. CASE i = Len(queue) + 1
        BY <3>1, <2>2, <2>3 DEF Pending, InQueue
    <3>2. CASE i \in 1..Len(queue)
      <4>1. q[i] = queue[i] /\ q[i] \in Pending /\ q[i] \notin inPython
            /\ \A j \in DOMAIN queue : queue[j] = queue[i] => i = j
          BY <3>2, <1>1, <2>2 DEF InspectedOnce, OnceIn, Pending, InQueue
      <4>2. ASSUME NEW j \in DOMAIN q, q[j] = q[i] PROVE i = j
        <5>1. CASE j = Len(queue) + 1
            BY <5>1, <4>1, <4>2, <2>2, <2>3
        <5>2. CASE j \in 1..Len(queue)
            BY <5>2, <4>1, <4>2, <2>2
        <5> QED
            BY <5>1, <5>2, <2>1, <2>2
      <4> QED
          BY <4>1, <4>2
    <3> QED
        BY <3>1, <3>2, <2>1, <2>2
  <2>5. PICK sent \in 0..Len(q) : SendOut(q, sent)
      BY <1>4, <2>2 DEF q, frame, AsFrame
  <2>6. /\ queue' \in Seq(Frame) /\ Len(queue') = Len(q) - sent
        /\ inPython' \subseteq Frame
        /\ Pending' \subseteq inPython \cup InQueue(q)
        /\ InspectedOnce'
      BY <2>1, <2>2, <2>4, <2>5, SendOutEffect
  <2>7. Pending' \subseteq Pending \cup {frame}
      BY <2>2, <2>6, <2>1 DEF Pending, InQueue
  <2>8. /\ \A d \in Connection : d # c => Stays(d)
        /\ busy'[c] = question /\ number'[c] = number[c] /\ answers'[c] = answers[c]
      BY <1>4 DEF ChannelTypes, Stays
  <2>9. Asks(c) \/ (Delegates(c) /\ question = "delegate")
    <3>1. CASE question = "inspect"
        BY <3>1, <2>8 DEF Asks
    <3>2. CASE question = "delegate"
        BY <3>2, <2>8, <1>4 DEF Delegates
    <3> QED
        BY <3>1, <3>2 DEF Questions
  <2>10. Moves
    <3>1. \A f \in Pending' : f \in Pending \/ \E d \in Connection :
             /\ busy[d] # "none" /\ busy'[d] # "read" /\ f.number = number[d]
             /\ \/ f.kind = "inspect" /\ Asks(d)
                \/ f.kind = "delegate" /\ Judged(d) /\ ~Asks(d)
                \/ f.kind = "handoff"
      <4>1. /\ busy[c] # "none" /\ busy'[c] # "read" /\ frame.number = number[c]
            /\ \/ frame.kind = "inspect" /\ Asks(c)
               \/ frame.kind = "delegate" /\ Judged(c) /\ ~Asks(c)
          BY <1>1, <1>2, <2>8, <2>9 DEF Questions, Asks
      <4> QED
          BY <4>1, <2>7
    <3>2. \A d \in Connection : ruled'[d] = ruled[d] \/ (busy[d] = "read" /\ busy'[d] # "read")
        BY <2>8 DEF Questions
    <3>3. \A d \in Connection : Stays(d) \/ Clears(d) \/ WritesAnswer(d) \/ Delegates(d) \/ Asks(d)
        BY <2>8, <2>9
    <3> QED
        BY <1>4, <3>1, <3>2, <3>3 DEF Moves
  <2>11. EveryWaitIsKnown'
    <3>1. \A d \in Connection : number'[d] = number[d] /\ (d # c => busy'[d] = busy[d])
        BY <1>4, <2>8 DEF Stays
    <3>2. awaited' = WaitsOf(Connection \ {c}) \cup {<<number[c], c>>}
        BY <1>4
    <3>3. awaited' = WaitsOf(Connection)'
        BY <3>1, <3>2, <2>8 DEF WaitsOf
    <3> QED
        BY <3>3, <1>4 DEF EveryWaitIsKnown, WaitsOf
  <2>12. ChannelTypes'
    <3>1. busy' \in [Connection -> Phase]
        BY <1>4 DEF ChannelTypes, Phase
    <3>2. awaited' \subseteq Number \X Connection
      <4>1. waits \subseteq awaited
          BY DEF EveryWaitIsKnown, WaitsOf
      <4>2. awaited \subseteq Number \X Connection
          BY DEF ChannelTypes
      <4>3. <<number[c], c>> \in Number \X Connection
          BY <1>1
      <4>4. awaited' = waits \cup {<<number[c], c>>}
          BY <1>4
      <4> HIDE DEF frame
      <4> QED
          BY <4>1, <4>2, <4>3, <4>4
    <3>3. Len(queue') <= MaxQueued
        BY <2>1, <2>2, <2>6, InspectionConstants
    <3> QED
        BY <1>4, <2>6, <3>1, <3>2, <3>3 DEF ChannelTypes
  <2> QED
      BY <2>6, <2>10, <2>11, <2>12 DEF Handled
<1>5. CASE LoseChannel([d \in DOMAIN Asking(waits) \cup {c} |-> IF d = c THEN question ELSE busy[d]], Nothing, "none")
  <2> DEFINE D      == DOMAIN Asking(waits) \cup {c}
             asking == [d \in D |-> IF d = c THEN question ELSE busy[d]]
  <2>1. DOMAIN Asking(waits) = {d \in Connection \ {c} : busy[d] \in Questions}
    <3>1. DOMAIN Asking(waits) = {w[2] : w \in waits}
        BY DEF Asking
    <3>2. \A w \in waits : w[2] \in {d \in Connection \ {c} : busy[d] \in Questions}
        BY DEF WaitsOf
    <3>3. \A d \in {e \in Connection \ {c} : busy[e] \in Questions} :
              <<number[d], d>> \in waits /\ <<number[d], d>>[2] = d
        BY DEF WaitsOf
    <3> HIDE DEF WaitsOf
    <3>4. \A d \in {e \in Connection \ {c} : busy[e] \in Questions} : d \in {w[2] : w \in waits}
        BY <3>3
    <3>5. {w[2] : w \in waits} = {d \in Connection \ {c} : busy[d] \in Questions}
        BY <3>2, <3>4, ZenonT(30)
    <3> QED
        BY <3>1, <3>5
  <2>2. D \in SUBSET Connection /\ asking \in [D -> Questions]
      BY <2>1
  <2>3. {} \in SUBSET Connection /\ Nothing \in [{} -> {"handed"}]
      BY DEF Nothing
  <2>4. /\ \A d \in D \cup {} : busy[d] # "none"
        /\ \A d \in Connection : busy[d] \in Questions => d \in D \cup {}
        /\ \A d \in Connection : ruled'[d] = ruled[d] \/ (busy[d] = "read" /\ d \in D \cup {})
      BY <1>1, <2>1 DEF Questions
  <2>5. LoseChannel(asking, Nothing, "none")
      BY <1>5
  <2> HIDE DEF D, asking
  <2> QED
      BY <2>2, <2>3, <2>4, <2>5, LoseChannelEffect
<1> QED
    BY <1>3, <1>4, <1>5 DEF StartInspection, AsFrame

\* A request that was judged, or is served all the same, is routed.
LEMMA HandleRequestEffect ==
    ASSUME ChannelTypes, EveryWaitIsKnown, ChannelInv, NEW c \in Connection,
           NEW waits, NEW left \in SUBSET verdicts,
           busy[c] \in {"read", "inspect"}, Judged(c),
           c \notin lenient => \A v \in left : ~(v.number = number[c] /\ v.says = "continue"),
           waits = WaitsOf(Connection \ {c}),
           \A d \in Connection : ruled'[d] = ruled[d] \/ (busy[d] = "read" /\ d = c),
           HandleRequest(c, waits, left)
    PROVE  Handled
<1>1. CASE /\ \E a \in {"page", "closed"} : AnswerOne(c, a)
           /\ awaited' = waits /\ verdicts' = left
           /\ UNCHANGED <<link, queue, inPython>>
  <2>1. PICK a \in {"page", "closed"} : AnswerOne(c, a)
      BY <1>1
  <2>2. a \in Given /\ (a \notin {"closed", "handed"} => Given1(c, a))
      BY DEF Given, Given1
  <2> QED
      BY <1>1, <2>1, <2>2, AnswerOneEffect DEF ChannelInv
<1>2. CASE StartInspection(c, "delegate", waits, left)
    BY <1>2, StartInspectionEffect DEF Questions
<1> QED
    BY <1>1, <1>2 DEF HandleRequest

-----------------------------------------------------------------------------
(* The actions.                                                             *)

LEMMA WaitsAreThoseOf == EveryWaitIsKnown => awaited = WaitsOf(Connection)
BY DEF EveryWaitIsKnown, WaitsOf

LEMMA NoOtherWaits ==
    ASSUME EveryWaitIsKnown, NEW c \in Connection, busy[c] \notin Questions
    PROVE  awaited = WaitsOf(Connection \ {c})
BY DEF EveryWaitIsKnown, WaitsOf

LEMMA AskingIsWaiting ==
    ASSUME EveryWaitIsKnown
    PROVE  /\ DOMAIN Asking(awaited) = {d \in Connection : busy[d] \in Questions}
           /\ Asking(awaited) \in [{d \in Connection : busy[d] \in Questions} -> Questions]
<1>1. DOMAIN Asking(awaited) = {w[2] : w \in awaited}
    BY DEF Asking
<1>2. \A w \in awaited : w[2] \in {d \in Connection : busy[d] \in Questions}
    BY DEF EveryWaitIsKnown
<1>3. \A d \in {e \in Connection : busy[e] \in Questions} : <<number[d], d>> \in awaited /\ <<number[d], d>>[2] = d
    BY DEF EveryWaitIsKnown
<1>4. \A d \in {e \in Connection : busy[e] \in Questions} : d \in {w[2] : w \in awaited}
    BY <1>3
<1>5. {w[2] : w \in awaited} = {d \in Connection : busy[d] \in Questions}
    BY <1>2, <1>4
<1>6. Asking(awaited) = [d \in {e \in Connection : busy[e] \in Questions} |-> busy[d]]
    BY <1>5 DEF Asking
<1> QED
    BY <1>1, <1>5, <1>6

\* The channel is lost, and nothing else.
LEMMA LoseEffect ==
    ASSUME InspectionInv, NEW newLink \in {"none", "open"}, UNCHANGED ruled,
           LoseChannel(Asking(awaited), Nothing, newLink)
    PROVE  Handled
<1> DEFINE D      == {d \in Connection : busy[d] \in Questions}
           asking == Asking(awaited)
<1>1. ChannelTypes /\ EveryWaitIsKnown
    BY TypesHold DEF InspectionInv
<1>2. asking \in [D -> Questions] /\ D \in SUBSET Connection /\ LoseChannel(asking, Nothing, newLink)
    BY <1>1, AskingIsWaiting
<1>3. Nothing \in [{} -> {"handed"}] /\ {} \in SUBSET Connection
    BY DEF Nothing
<1>4. /\ \A c \in D \cup {} : busy[c] # "none"
      /\ \A c \in Connection : busy[c] \in Questions => c \in D \cup {}
      /\ \A c \in Connection : ruled'[c] = ruled[c] \/ (busy[c] = "read" /\ c \in D \cup {})
    BY DEF Questions
<1> HIDE DEF D, asking
<1>5. CASE newLink = "none"
  <2>1. LoseChannel(asking, Nothing, "none")
      BY <1>2, <1>5
  <2> QED
      BY <1>1, <1>2, <1>3, <1>4, <2>1, LoseChannelEffect
<1>6. CASE newLink = "open"
  <2>1. LoseChannel(asking, Nothing, "open")
      BY <1>2, <1>6
  <2> QED
      BY <1>1, <1>2, <1>3, <1>4, <2>1, LoseChannelEffect
<1> QED
    BY <1>5, <1>6

\* A handler of the thread keeps the invariant.
LEMMA HandledKeepsInv ==
    ASSUME InspectionInv, Handled,
           ruled' \in [Connection -> {"none", "clean", "continue", "refusal", "closed"}],
           channelFaults' \in 0..MaxChannelFaults
    PROVE  InspectionInv'
<1>1. ChannelInv'
    BY MovesKeepInv DEF InspectionInv, Handled
<1>2. InspectionTypeOK'
    BY DEF Handled, ChannelTypes, InspectionTypeOK
<1> QED
    BY <1>1, <1>2 DEF InspectionInv, Handled

LEMMA ReadsKeepsInv ==
    ASSUME InspectionInv, NEW c \in Connection, busy[c] \in {"none", "write"}, Reads(c),
           lenient' \subseteq Connection, \A d \in Connection \ {c} : d \in lenient' <=> d \in lenient
    PROVE  InspectionInv'
<1> USE InspectionConstants DEF InspectionInv, ChannelInv
<1>1. /\ busy \in [Connection -> Phase] /\ number \in [Connection -> 0..MaxNumber]
      /\ lastNumber \in 0..MaxNumber
      /\ ruled \in [Connection -> {"none", "clean", "continue", "refusal", "closed"}]
      /\ answers \in [Connection -> Given \cup {"none"}]
    BY DEF InspectionTypeOK
<1>2. /\ lastNumber' = lastNumber + 1 /\ lastNumber' \in 1..MaxNumber
      /\ busy' = [busy EXCEPT ![c] = "read"] /\ number' = [number EXCEPT ![c] = lastNumber']
      /\ ruled' = [ruled EXCEPT ![c] = "none"] /\ answers' = [answers EXCEPT ![c] = "none"]
      /\ UNCHANGED <<link, queue, inPython, verdicts, awaited, channelFaults>>
    BY <1>1 DEF Reads, channelVars
<1>3. /\ \A d \in Connection : d # c => Stays(d) /\ ruled'[d] = ruled[d]
      /\ busy'[c] = "read" /\ number'[c] = lastNumber + 1 /\ answers'[c] = "none" /\ ruled'[c] = "none"
    BY <1>1, <1>2 DEF Stays
<1>4. Pending' = Pending
    BY <1>2 DEF Pending, InQueue
<1>5. InspectionTypeOK'
  <2>1. /\ busy' \in [Connection -> Phase] /\ number' \in [Connection -> 0..MaxNumber]
        /\ ruled' \in [Connection -> {"none", "clean", "continue", "refusal", "closed"}]
        /\ answers' \in [Connection -> Given \cup {"none"}]
      BY <1>1, <1>2 DEF Phase
  <2> QED
      BY <2>1, <1>2 DEF InspectionTypeOK
<1>6. EveryWaitIsKnown'
    BY <1>2, <1>3 DEF EveryWaitIsKnown, Questions, Stays
<1>7. /\ \A d \in Connection : number[d] \in Nat /\ number[d] <= lastNumber
      /\ lastNumber \in Nat
      /\ \A f \in Pending : f.number \in Nat /\ f.number <= lastNumber
      /\ \A v \in verdicts : v.number \in Nat /\ v.number <= lastNumber
  <2>1. Pending \subseteq Frame /\ verdicts \subseteq VerdictOf
      BY DEF InspectionTypeOK, Pending, InQueue
  <2>2. (\A f \in Pending : f.number \in Nat) /\ (\A v \in verdicts : v.number \in Nat)
      BY <2>1 DEF Frame, VerdictOf, Number
  <2> QED
      BY <1>1, <2>2 DEF Numbered
<1>8. Numbered'
  <2>1. \A d \in Connection : number'[d] <= lastNumber' /\ (number'[d] = 0 <=> busy'[d] = "none")
    <3> TAKE d \in Connection
    <3>1. CASE d = c
        BY <3>1, <1>2, <1>3, <1>7
    <3>2. CASE d # c
      <4>1. Stays(d) /\ number[d] <= lastNumber /\ number[d] \in Nat
            /\ (number[d] = 0 <=> busy[d] = "none")
          BY <3>2, <1>3, <1>7 DEF Numbered
      <4> QED
          BY <4>1, <1>2, <1>7 DEF Stays
    <3> QED
        BY <3>1, <3>2
  <2>2. \A d, e \in Connection : number'[d] = number'[e] /\ number'[d] # 0 => d = e
    <3> TAKE d, e \in Connection
    <3>1. \A g \in Connection \ {c} : number'[g] = number[g] /\ number'[g] # lastNumber + 1
        BY <1>3, <1>7 DEF Stays
    <3> QED
        BY <3>1, <1>3 DEF Numbered
  <2>3. (\A f \in Pending' : f.number <= lastNumber') /\ (\A v \in verdicts' : v.number <= lastNumber')
      BY <1>2, <1>4, <1>7
  <2> QED
      BY <2>1, <2>2, <2>3 DEF Numbered
<1>9. InspectedOnce'
    BY <1>2 DEF InspectedOnce, OnceIn
<1>10. (\A f \in Pending : f.number # lastNumber + 1) /\ (\A v \in verdicts : v.number # lastNumber + 1)
    BY <1>7
<1>11. NothingYet'
  <2> SUFFICES ASSUME NEW d \in Connection, busy'[d] = "read"
               PROVE  /\ answers'[d] = "none"
                      /\ \A f \in Pending' : f.number # number'[d]
                      /\ \A v \in verdicts' : v.number # number'[d]
      BY DEF NothingYet
  <2>1. CASE d = c
      BY <2>1, <1>2, <1>3, <1>4, <1>10
  <2>2. CASE d # c
      BY <2>2, <1>2, <1>3, <1>4 DEF NothingYet, Stays
  <2> QED
      BY <2>1, <2>2
<1>12. Ruling'
  <2> SUFFICES ASSUME NEW d \in Connection, number'[d] # 0
               PROVE  RulingOf(d)'
      BY DEF Ruling
  <2>1. CASE d = c
    <3>1. AsFrame(number'[d], "delegate").number = lastNumber + 1
        BY <2>1, <1>3 DEF AsFrame
    <3> QED
        BY <2>1, <3>1, <1>2, <1>3, <1>4, <1>10 DEF RulingOf
  <2>2. CASE d # c
    <3>1. Stays(d) /\ ruled'[d] = ruled[d] /\ (d \in lenient' <=> d \in lenient) /\ RulingOf(d)
        BY <2>2, <1>3 DEF Ruling, Stays
    <3> QED
        BY <3>1, <1>2, <1>4 DEF RulingOf, Served, Unjudged, Stays
  <2> QED
      BY <2>1, <2>2
<1>13. Answering'
  <2> SUFFICES ASSUME NEW d \in Connection
               PROVE  (answers'[d] # "none" => busy'[d] = "write") /\ MayBeGiven(d, answers[d])'
      BY DEF Answering
  <2>1. CASE d = c
      BY <2>1, <1>3 DEF MayBeGiven
  <2>2. CASE d # c
    <3>1. Stays(d) /\ ruled'[d] = ruled[d] /\ (d \in lenient' <=> d \in lenient)
          /\ (answers[d] # "none" => busy[d] = "write") /\ MayBeGiven(d, answers[d])
        BY <2>2, <1>3 DEF Answering
    <3> QED
        BY <3>1, <1>4 DEF MayBeGiven, Served, Unjudged, Stays
  <2> QED
      BY <2>1, <2>2
<1> QED
    BY <1>5, <1>6, <1>8, <1>9, <1>11, <1>12, <1>13

LEMMA CloseKeepsInv ==
    ASSUME InspectionInv, NEW c \in Connection, CloseConnection(c)
    PROVE  InspectionInv'
<1> USE InspectionConstants DEF InspectionInv, ChannelInv
<1>1. /\ busy \in [Connection -> Phase] /\ number \in [Connection -> 0..MaxNumber]
      /\ ruled \in [Connection -> {"none", "clean", "continue", "refusal", "closed"}]
      /\ answers \in [Connection -> Given \cup {"none"}]
    BY DEF InspectionTypeOK
<1>2. /\ busy[c] \in {"read", "write"}
      /\ busy' = [busy EXCEPT ![c] = "none"] /\ number' = [number EXCEPT ![c] = 0]
      /\ ruled' = [ruled EXCEPT ![c] = "none"] /\ answers' = [answers EXCEPT ![c] = "none"]
      /\ lenient' = lenient \ {c}
      /\ UNCHANGED <<lastNumber, link, queue, inPython, verdicts, awaited, channelFaults>>
    BY DEF CloseConnection, channelVars
<1>3. /\ \A d \in Connection : d # c => Stays(d) /\ ruled'[d] = ruled[d] /\ (d \in lenient' <=> d \in lenient)
      /\ busy'[c] = "none" /\ number'[c] = 0 /\ answers'[c] = "none"
    BY <1>1, <1>2 DEF Stays
<1>4. Pending' = Pending
    BY <1>2 DEF Pending, InQueue
<1>5. InspectionTypeOK'
  <2>1. /\ busy' \in [Connection -> Phase] /\ number' \in [Connection -> 0..MaxNumber]
        /\ ruled' \in [Connection -> {"none", "clean", "continue", "refusal", "closed"}]
        /\ answers' \in [Connection -> Given \cup {"none"}]
      BY <1>1, <1>2 DEF Phase
  <2> QED
      BY <2>1, <1>2 DEF InspectionTypeOK
<1>6. EveryWaitIsKnown'
    BY <1>2, <1>3 DEF EveryWaitIsKnown, Questions, Stays
<1>7. Numbered'
  <2>1. \A d \in Connection : number'[d] <= lastNumber /\ (number'[d] = 0 <=> busy'[d] = "none")
    <3>1. 0 <= lastNumber
        BY DEF InspectionTypeOK
    <3> QED
        BY <3>1, <1>3 DEF Numbered, Stays
  <2>2. \A d, e \in Connection : number'[d] = number'[e] /\ number'[d] # 0 => d = e
      BY <1>3 DEF Numbered, Stays
  <2> QED
      BY <2>1, <2>2, <1>2, <1>4 DEF Numbered
<1>8. InspectedOnce'
    BY <1>2 DEF InspectedOnce, OnceIn
<1>9. NothingYet'
    BY <1>2, <1>3, <1>4 DEF NothingYet, Stays
<1>10. Ruling'
  <2> SUFFICES ASSUME NEW d \in Connection, number'[d] # 0
               PROVE  RulingOf(d)'
      BY DEF Ruling
  <2>1. Stays(d) /\ ruled'[d] = ruled[d] /\ (d \in lenient' <=> d \in lenient) /\ RulingOf(d)
      BY <1>3 DEF Ruling, Stays
  <2> QED
      BY <2>1, <1>2, <1>4 DEF RulingOf, Served, Unjudged, Stays
<1>11. Answering'
  <2> SUFFICES ASSUME NEW d \in Connection
               PROVE  (answers'[d] # "none" => busy'[d] = "write") /\ MayBeGiven(d, answers[d])'
      BY DEF Answering
  <2>1. CASE d = c
      BY <2>1, <1>3 DEF MayBeGiven
  <2>2. CASE d # c
    <3>1. Stays(d) /\ ruled'[d] = ruled[d] /\ (d \in lenient' <=> d \in lenient)
          /\ (answers[d] # "none" => busy[d] = "write") /\ MayBeGiven(d, answers[d])
        BY <2>2, <1>3 DEF Answering
    <3> QED
        BY <3>1, <1>4 DEF MayBeGiven, Served, Unjudged, Stays
  <2> QED
      BY <2>1, <2>2
<1> QED
    BY <1>5, <1>6, <1>7, <1>8, <1>9, <1>10, <1>11

\* What is still read has no frame and no verdict, and its wait is not in the table.
LEMMA StillRead ==
    ASSUME InspectionInv, NEW c \in Connection, busy[c] = "read"
    PROVE  /\ ~Unjudged(c) /\ \A v \in verdicts : v.number # number[c]
           /\ awaited = WaitsOf(Connection \ {c})
           /\ ChannelTypes /\ EveryWaitIsKnown /\ ChannelInv
<1>1. ChannelTypes /\ EveryWaitIsKnown /\ ChannelInv
    BY TypesHold DEF InspectionInv
<1>2. (\A f \in Pending : f.number # number[c]) /\ \A v \in verdicts : v.number # number[c]
    BY <1>1 DEF ChannelInv, NothingYet
<1>3. ~Unjudged(c)
    BY <1>2 DEF Unjudged, AsFrame
<1>4. awaited = WaitsOf(Connection \ {c})
    BY <1>1, NoOtherWaits DEF Questions
<1> QED
    BY <1>1, <1>2, <1>3, <1>4

LEMMA JudgeAloneHandled ==
    ASSUME InspectionInv, NEW c \in Connection, JudgeAlone(c)
    PROVE  Handled
<1>1. /\ busy[c] = "read" /\ ruled' = [ruled EXCEPT ![c] = "clean"]
      /\ HandleRequest(c, awaited, verdicts)
    BY DEF JudgeAlone
<1>2. /\ ~Unjudged(c) /\ \A v \in verdicts : v.number # number[c]
      /\ awaited = WaitsOf(Connection \ {c})
      /\ ChannelTypes /\ EveryWaitIsKnown /\ ChannelInv
    BY <1>1, StillRead
<1>3. ruled'[c] = "clean" /\ \A d \in Connection : ruled'[d] = ruled[d] \/ d = c
    BY <1>1 DEF InspectionInv, InspectionTypeOK
<1>4. Judged(c)
    BY <1>2, <1>3 DEF Judged
<1>5. verdicts \in SUBSET verdicts
    OBVIOUS
<1> QED
    BY <1>1, <1>2, <1>3, <1>4, <1>5, HandleRequestEffect

LEMMA InspectHandled ==
    ASSUME InspectionInv, NEW c \in Connection, Inspect(c)
    PROVE  Handled
<1>1. busy[c] = "read" /\ ruled' = ruled /\ StartInspection(c, "inspect", awaited, verdicts)
    BY DEF Inspect
<1>2. /\ awaited = WaitsOf(Connection \ {c})
      /\ ChannelTypes /\ EveryWaitIsKnown /\ ChannelInv
    BY <1>1, StillRead
<1>3. verdicts \in SUBSET verdicts /\ "inspect" \in Questions
    BY DEF Questions
<1> QED
    BY <1>1, <1>2, <1>3, StartInspectionEffect

\* The frames put in the queue go out in their order; those that Python does not judge are harmless.
LEMMA HandOffHandled ==
    ASSUME InspectionInv, NEW c \in Connection, HandOff(c)
    PROVE  Handled
<1> DEFINE frame == AsFrame(number[c], "handoff")
<1>1. busy[c] = "read" /\ ruled' = ruled
    BY DEF HandOff
<1>2. /\ awaited = WaitsOf(Connection \ {c})
      /\ ChannelTypes /\ EveryWaitIsKnown /\ ChannelInv
    BY <1>1, StillRead
<1>3. CASE AnswerOne(c, "503") /\ UNCHANGED <<channelVars, awaited>>
  <2>1. "503" \in Given /\ Given1(c, "503")
      BY DEF Given, Given1
  <2>2. UNCHANGED <<link, queue, inPython>> /\ verdicts' \subseteq verdicts /\ awaited' = WaitsOf(Connection \ {c})
      BY <1>2, <1>3 DEF channelVars
  <2>3. AnswerOne(c, "503")
      BY <1>3
  <2> QED
      BY <1>1, <1>2, <2>1, <2>2, <2>3, AnswerOneEffect DEF ChannelInv
<1>4. CASE /\ link = "open" /\ Len(queue) < MaxQueued
           /\ \E sent \in 0..(Len(queue) + 1) : SendOut(Append(queue, frame), sent)
           /\ AnswerOne(c, "handed")
           /\ UNCHANGED <<link, verdicts, awaited>>
  <2> DEFINE q     == Append(queue, frame)
             given == [d \in {c} |-> "handed"]
  <2>1. /\ queue \in Seq(Frame) /\ Len(queue) \in Nat /\ Len(queue) < MaxQueued
        /\ inPython \subseteq Frame
      BY <1>2, <1>4 DEF ChannelTypes
  <2>2. frame \in Frame /\ frame.number = number[c] /\ frame.kind = "handoff"
    <3>1. number[c] \in Number
        BY <1>1, <1>2, InspectionConstants DEF ChannelTypes, ChannelInv, Numbered, Number
    <3> QED
        BY <3>1 DEF AsFrame, Frame
  <2>3. /\ q \in Seq(Frame) /\ Len(q) = Len(queue) + 1 /\ DOMAIN queue = 1..Len(queue)
        /\ DOMAIN q = 1..(Len(queue) + 1) /\ q[Len(queue) + 1] = frame
        /\ \A i \in 1..Len(queue) : q[i] = queue[i]
    <3> HIDE DEF frame
    <3> QED
        BY <2>1, <2>2
  <2>4. given \in [{c} -> Given] /\ given[c] = "handed" /\ Answer(given) /\ {c} \in SUBSET Connection
      BY <1>4 DEF AnswerOne, Given
  <2>5. PICK sent \in 0..Len(q) : SendOut(q, sent)
      BY <1>4, <2>3 DEF q
  <2> HIDE DEF frame, q, given
  <2>6. OnceIn(q)
    <3> SUFFICES ASSUME NEW i \in DOMAIN q, q[i].kind = "inspect"
                 PROVE  q[i] \notin inPython /\ \A j \in DOMAIN q : q[j] = q[i] => i = j
        BY DEF OnceIn
    <3>1. i \in 1..Len(queue) /\ i \in DOMAIN queue /\ q[i] = queue[i]
        BY <2>1, <2>2, <2>3
    <3>2. queue[i] \notin inPython /\ \A j \in DOMAIN queue : queue[j] = queue[i] => i = j
        BY <3>1, <1>2 DEF ChannelInv, InspectedOnce, OnceIn
    <3>3. ASSUME NEW j \in DOMAIN q, q[j] = q[i]
          PROVE  j \in DOMAIN queue /\ queue[j] = queue[i]
        BY <3>1, <3>3, <2>1, <2>2, <2>3
    <3> QED
        BY <3>1, <3>2, <3>3
  <2>7. /\ queue' \in Seq(Frame) /\ Len(queue') = Len(q) - sent
        /\ inPython' \subseteq Frame
        /\ Pending' \subseteq inPython \cup InQueue(q)
        /\ InspectedOnce'
      BY <2>1, <2>3, <2>5, <2>6, SendOutEffect
  <2>8. Pending' \subseteq Pending \cup {frame}
      BY <2>1, <2>3, <2>7 DEF Pending, InQueue
  <2>9. /\ busy' \in [Connection -> Phase] /\ number' \in [Connection -> 0..MaxNumber]
        /\ answers' \in [Connection -> Given \cup {"none"}]
        /\ lenient' = lenient /\ lastNumber' = lastNumber
        /\ \A d \in Connection : d # c => Stays(d)
        /\ Clears(c)
        /\ WaitsOf(Connection)' = WaitsOf(Connection \ {c})
      BY <1>2, <2>4, AnswerEffect
  <2>10. Moves
    <3>1. \A f \in Pending' : f \in Pending \/ \E d \in Connection :
             busy[d] # "none" /\ busy'[d] # "read" /\ f.number = number[d] /\ f.kind = "handoff"
        BY <1>1, <2>2, <2>8, <2>9 DEF Clears
    <3> QED
        BY <1>1, <1>4, <3>1, <2>9 DEF Moves
  <2>11. EveryWaitIsKnown'
      BY <1>2, <1>4, <2>9 DEF EveryWaitIsKnown, WaitsOf
  <2>12. ChannelTypes'
    <3>1. Len(queue') <= MaxQueued
        BY <2>1, <2>3, <2>7, InspectionConstants
    <3> QED
        BY <1>2, <1>4, <2>7, <2>9, <3>1 DEF ChannelTypes
  <2> QED
      BY <2>7, <2>10, <2>11, <2>12 DEF Handled
<1>5. CASE LoseChannel(Asking(awaited), [d \in {c} |-> "handed"], "none")
  <2> DEFINE D      == {d \in Connection : busy[d] \in Questions}
             asking == Asking(awaited)
             given  == [d \in {c} |-> "handed"]
  <2>1. asking \in [D -> Questions] /\ D \in SUBSET Connection
      BY <1>2, AskingIsWaiting
  <2>2. given \in [{c} -> {"handed"}] /\ {c} \in SUBSET Connection
      OBVIOUS
  <2>3. LoseChannel(asking, given, "none")
      BY <1>5
  <2>4. /\ \A d \in D \cup {c} : busy[d] # "none"
        /\ \A d \in Connection : busy[d] \in Questions => d \in D \cup {c}
        /\ \A d \in Connection : ruled'[d] = ruled[d] \/ (busy[d] = "read" /\ d \in D \cup {c})
      BY <1>1 DEF Questions
  <2> HIDE DEF D, asking, given
  <2> QED
      BY <1>2, <2>1, <2>2, <2>3, <2>4, LoseChannelEffect
<1> QED
    BY <1>3, <1>4, <1>5 DEF HandOff, AsFrame

\* A step that touches no connection and adds nothing to the channel.
LEMMA QuietHandled ==
    ASSUME InspectionInv, UNCHANGED <<clientVars, ruled, answers, awaited>>,
           link' \in {"open", "dead"} \/ UNCHANGED link,
           queue' \in Seq(Frame), Len(queue') <= MaxQueued, inPython' \subseteq Frame,
           verdicts' \subseteq verdicts, Pending' \subseteq Pending, InspectedOnce'
    PROVE  Handled
<1>1. ChannelTypes /\ EveryWaitIsKnown
    BY TypesHold DEF InspectionInv
<1>2. \A c \in Connection : Stays(c)
    BY DEF Stays, clientVars
<1>3. Moves
    BY <1>2 DEF Moves, clientVars
<1>4. EveryWaitIsKnown'
    BY <1>1 DEF EveryWaitIsKnown, clientVars
<1>5. ChannelTypes'
    BY <1>1 DEF ChannelTypes, clientVars
<1> QED
    BY <1>3, <1>4, <1>5 DEF Handled

LEMMA FlushQueueHandled ==
    ASSUME InspectionInv, FlushQueue
    PROVE  Handled
<1>1. /\ queue \in Seq(Frame) /\ Len(queue) \in Nat /\ Len(queue) <= MaxQueued
      /\ inPython \subseteq Frame /\ OnceIn(queue)
    BY DEF InspectionInv, InspectionTypeOK, ChannelInv, InspectedOnce
<1>2. PICK sent \in 1..Len(queue) : SendOut(queue, sent)
    BY DEF FlushQueue
<1>3. sent \in 0..Len(queue)
    BY <1>1
<1>4. /\ queue' \in Seq(Frame) /\ Len(queue') = Len(queue) - sent /\ inPython' \subseteq Frame
      /\ Pending' \subseteq Pending
      /\ InspectedOnce'
    BY <1>1, <1>2, <1>3, SendOutEffect DEF Pending
<1>5. Len(queue') <= MaxQueued
    BY <1>1, <1>4, InspectionConstants
<1>6. UNCHANGED <<clientVars, ruled, answers, awaited, link, verdicts>>
    BY DEF FlushQueue
<1> QED
    BY <1>4, <1>5, <1>6, QuietHandled

LEMMA DeathHandled ==
    ASSUME InspectionInv, SecurityProcessDies
    PROVE  Handled
<1>1. /\ queue \in Seq(Frame) /\ Len(queue) <= MaxQueued /\ InspectedOnce
    BY DEF InspectionInv, InspectionTypeOK, ChannelInv
<1>2. link' = "dead" /\ inPython' = {} /\ UNCHANGED <<clientVars, queue, verdicts, awaited, ruled, answers>>
    BY DEF SecurityProcessDies
<1>3. Pending' \subseteq Pending /\ InspectedOnce'
    BY <1>1, <1>2 DEF Pending, InQueue, InspectedOnce, OnceIn
<1> QED
    BY <1>1, <1>2, <1>3, QuietHandled

LEMMA StutterHandled ==
    ASSUME InspectionInv, UNCHANGED inspectionVars
    PROVE  Handled
<1>1. /\ queue \in Seq(Frame) /\ Len(queue) <= MaxQueued /\ inPython \subseteq Frame /\ InspectedOnce
    BY DEF InspectionInv, InspectionTypeOK, ChannelInv
<1>2. UNCHANGED <<clientVars, link, queue, inPython, verdicts, awaited, ruled, answers>>
    BY DEF inspectionVars, channelVars
<1>3. Pending' \subseteq Pending /\ InspectedOnce'
    BY <1>1, <1>2 DEF Pending, InQueue, InspectedOnce, OnceIn
<1> QED
    BY <1>1, <1>2, <1>3, QuietHandled

\* A verdict has one connection, or none.
LEMMA ApplyVerdictHandled ==
    ASSUME InspectionInv, NEW v \in verdicts, ApplyVerdict(v)
    PROVE  Handled
<1> DEFINE waits == {w \in awaited : w[1] # v.number}
<1>1. ChannelTypes /\ EveryWaitIsKnown /\ ChannelInv
    BY TypesHold DEF InspectionInv
<1>2. ruled' = ruled
    BY DEF ApplyVerdict
<1>3. CASE /\ WaitsFor(v) = {}
           /\ verdicts' = verdicts \ {v} /\ awaited' = waits
           /\ UNCHANGED <<clientVars, link, queue, inPython, answers>>
  <2>1. awaited' = awaited
    <3>1. ASSUME NEW w \in awaited, w[1] = v.number PROVE FALSE
      <4>1. PICK c \in Connection : w = <<number[c], c>> /\ busy[c] \in Questions
          BY <1>1 DEF EveryWaitIsKnown
      <4>2. c \in WaitsFor(v)
          BY <3>1, <4>1 DEF WaitsFor
      <4> QED
          BY <4>2, <1>3
    <3> QED
        BY <3>1, <1>3
  <2>2. /\ queue' \in Seq(Frame) /\ Len(queue') <= MaxQueued /\ inPython' \subseteq Frame
        /\ verdicts' \subseteq verdicts
      BY <1>1, <1>3 DEF ChannelTypes
  <2>3. Pending' \subseteq Pending /\ InspectedOnce'
      BY <1>1, <1>3 DEF Pending, InQueue, ChannelInv, InspectedOnce, OnceIn
  <2>4. UNCHANGED <<clientVars, ruled, answers, awaited, link>>
      BY <1>2, <1>3, <2>1
  <2> QED
      BY <2>2, <2>3, <2>4, QuietHandled
<1>4. ASSUME NEW c \in WaitsFor(v)
      PROVE  /\ c \in Connection /\ busy[c] \in Questions /\ number[c] = v.number /\ number[c] # 0
             /\ waits = WaitsOf(Connection \ {c})
             /\ RulingOf(c)
             /\ \A d \in Connection : ruled'[d] = ruled[d] \/ (busy[d] = "read" /\ d = c)
  <2>1. c \in Connection /\ busy[c] \in Questions /\ number[c] = v.number
      BY DEF WaitsFor
  <2>2. number[c] # 0
      BY <1>1, <2>1 DEF ChannelInv, Numbered, Questions
  <2>3. \A d \in Connection : number[d] = number[c] => d = c
      BY <1>1, <2>1, <2>2 DEF ChannelInv, Numbered
  <2>4. waits = WaitsOf(Connection \ {c})
    <3>1. ASSUME NEW w \in waits PROVE w \in WaitsOf(Connection \ {c})
      <4>1. PICK d \in Connection : w = <<number[d], d>> /\ busy[d] \in Questions
          BY <1>1 DEF EveryWaitIsKnown
      <4>2. d # c
          BY <4>1, <2>1
      <4> QED
          BY <4>1, <4>2 DEF WaitsOf
    <3>2. ASSUME NEW w \in WaitsOf(Connection \ {c}) PROVE w \in waits
      <4>1. PICK d \in Connection \ {c} : w = <<number[d], d>> /\ busy[d] \in Questions
          BY DEF WaitsOf
      <4>2. w \in awaited /\ w[1] # v.number
          BY <4>1, <2>1, <2>3, <1>1 DEF EveryWaitIsKnown
      <4> QED
          BY <4>2
    <3> QED
        BY <3>1, <3>2
  <2> QED
      BY <2>1, <2>2, <2>4, <1>1, <1>2 DEF ChannelInv, Ruling
<1>5. ASSUME NEW c \in WaitsFor(v), v.says = "continue", busy[c] = "inspect",
             HandleRequest(c, waits, verdicts \ {v})
      PROVE  Handled
  <2> DEFINE left == verdicts \ {v}
  <2>1. ruled[c] = "continue" /\ ~Unjudged(c)
      BY <1>4, <1>5 DEF RulingOf
  <2>2. Judged(c)
      BY <2>1, <1>2 DEF Judged
  <2>3. \A u \in left : ~(u.number = number[c] /\ u.says = "continue")
    <3>1. ASSUME NEW u \in verdicts, u.number = v.number, u.says = v.says PROVE u = v
        BY <3>1, <1>1 DEF ChannelTypes, VerdictOf
    <3> QED
        BY <3>1, <1>4, <1>5
  <2>4. left \in SUBSET verdicts /\ HandleRequest(c, waits, left)
      BY <1>5
  <2> HIDE DEF left, waits
  <2> QED
      BY <1>1, <1>4, <1>5, <2>2, <2>3, <2>4, HandleRequestEffect
<1>6. ASSUME NEW c \in WaitsFor(v), v.says = "continue" => busy[c] = "delegate",
             AnswerOne(c, IF v.says = "continue" THEN "500" ELSE v.says),
             awaited' = waits, verdicts' = verdicts \ {v}, UNCHANGED <<link, queue, inPython>>
      PROVE  Handled
  <2> DEFINE a == IF v.says = "continue" THEN "500" ELSE v.says
  <2>1. v.says \in {"continue", "refusal", "closed", "delegated"}
      BY <1>1 DEF ChannelTypes, VerdictOf
  <2>2. a \in Given
      BY <2>1 DEF Given
  <2>3. Given1(c, a)
    <3>1. CASE v.says = "continue"
      <4>1. busy[c] = "delegate" /\ ruled[c] = "continue" /\ ~Unjudged(c) /\ c \in lenient
          BY <3>1, <1>4, <1>6 DEF RulingOf
      <4> QED
          BY <3>1, <4>1, <1>2 DEF Given1
    <3>2. CASE v.says = "refusal"
        BY <3>2, <1>2, <1>4 DEF RulingOf, Given1
    <3>3. CASE v.says = "delegated"
        BY <3>3, <1>2, <1>4 DEF RulingOf, Given1, Served, Judged
    <3>4. CASE v.says = "closed"
        BY <3>4 DEF Given1
    <3> QED
        BY <2>1, <3>1, <3>2, <3>3, <3>4
  <2>4. AnswerOne(c, a) /\ verdicts' \subseteq verdicts /\ awaited' = WaitsOf(Connection \ {c}) /\ busy[c] # "none"
      BY <1>4, <1>6 DEF Questions
  <2> HIDE DEF a, waits
  <2> QED
      BY <1>1, <1>4, <1>6, <2>2, <2>3, <2>4, AnswerOneEffect DEF ChannelInv
<1> QED
    BY <1>3, <1>5, <1>6 DEF ApplyVerdict

LEMMA DelayPassesHandled ==
    ASSUME InspectionInv, NEW c \in Connection, DelayPasses(c)
    PROVE  Handled
<1> DEFINE waits == {w \in awaited : w[2] # c}
<1>1. ChannelTypes /\ EveryWaitIsKnown /\ ChannelInv
    BY TypesHold DEF InspectionInv
<1>2. ruled' = ruled /\ busy[c] \in Questions /\ busy[c] # "none"
    BY DEF DelayPasses, Questions
<1>3. waits = WaitsOf(Connection \ {c})
    BY <1>1 DEF EveryWaitIsKnown, WaitsOf
<1>4. ASSUME NEW a \in {"503", "451"}, AnswerOne(c, a), awaited' = waits, UNCHANGED channelVars
      PROVE  Handled
  <2>1. a \in Given /\ Given1(c, a)
      BY DEF Given, Given1
  <2>2. UNCHANGED <<link, queue, inPython>> /\ verdicts' \subseteq verdicts /\ awaited' = WaitsOf(Connection \ {c})
      BY <1>3, <1>4 DEF channelVars
  <2> HIDE DEF waits
  <2> QED
      BY <1>1, <1>2, <1>4, <2>1, <2>2, AnswerOneEffect DEF ChannelInv
<1>5. CASE busy[c] = "inspect" /\ c \in lenient /\ HandleRequest(c, waits, verdicts)
  <2>1. Judged(c) /\ verdicts \in SUBSET verdicts
      BY <1>5 DEF Judged
  <2> HIDE DEF waits
  <2> QED
      BY <1>1, <1>2, <1>3, <1>5, <2>1, HandleRequestEffect
<1> QED
    BY <1>4, <1>5 DEF DelayPasses

\* The security process gives a verdict, or loses it.
LEMMA ReturnEffect ==
    ASSUME InspectionInv, NEW f \in inPython, NEW says \in {"continue", "refusal", "closed", "delegated"},
           Return(f, says)
    PROVE  /\ UNCHANGED <<clientVars, link, queue, awaited, answers>>
           /\ f \in Frame /\ f \in Pending
           /\ inPython' = inPython \ {f} /\ Pending' \subseteq Pending
           /\ f.kind = "inspect" => f \notin Pending'
           /\ \A v \in verdicts' : v \in verdicts \/ v = [number |-> f.number, says |-> says]
           /\ EveryWaitIsKnown' /\ Numbered' /\ InspectedOnce' /\ NothingYet'
           /\ ruled' \in [Connection -> {"none", "clean", "continue", "refusal", "closed"}] => InspectionTypeOK'
<1> DEFINE new == [number |-> f.number, says |-> says]
<1>1. /\ InspectionTypeOK /\ EveryWaitIsKnown /\ ChannelInv
      /\ UNCHANGED <<clientVars, link, queue, awaited, answers>> /\ inPython' = inPython \ {f}
      /\ verdicts' \subseteq verdicts \cup {new}
      /\ channelFaults' = channelFaults \/ (channelFaults < MaxChannelFaults /\ channelFaults' = channelFaults + 1)
    BY DEF InspectionInv, Return, ChannelFault
<1>2. f \in Frame /\ f \in Pending /\ f.number \in Number
    BY <1>1 DEF InspectionTypeOK, Pending, Frame
<1>3. new \in VerdictOf /\ new.number = f.number
    BY <1>2 DEF VerdictOf
<1> HIDE DEF new
<1>4. Pending' \subseteq Pending
    BY <1>1 DEF Pending, InQueue
<1>5. f.kind = "inspect" => f \notin Pending'
    BY <1>1 DEF Pending, InQueue, ChannelInv, InspectedOnce, OnceIn
<1>6. EveryWaitIsKnown'
    BY <1>1 DEF EveryWaitIsKnown, clientVars
<1>7. Numbered'
  <2>1. \A v \in verdicts' : v.number <= lastNumber
      BY <1>1, <1>2, <1>3 DEF ChannelInv, Numbered
  <2> QED
      BY <2>1, <1>1, <1>4 DEF ChannelInv, Numbered, clientVars
<1>8. InspectedOnce'
    BY <1>1 DEF ChannelInv, InspectedOnce, OnceIn
<1>9. NothingYet'
  <2> SUFFICES ASSUME NEW c \in Connection, busy[c] = "read"
               PROVE  /\ answers[c] = "none"
                      /\ \A g \in Pending' : g.number # number[c]
                      /\ \A v \in verdicts' : v.number # number[c]
      BY <1>1 DEF NothingYet, clientVars
  <2>1. /\ answers[c] = "none"
        /\ \A g \in Pending : g.number # number[c]
        /\ \A v \in verdicts : v.number # number[c]
      BY <1>1 DEF ChannelInv, NothingYet
  <2> QED
      BY <2>1, <1>1, <1>2, <1>3, <1>4
<1>10. ruled' \in [Connection -> {"none", "clean", "continue", "refusal", "closed"}] => InspectionTypeOK'
  <2>1. channelFaults' \in 0..MaxChannelFaults
      BY <1>1, InspectionConstants DEF InspectionTypeOK
  <2>2. verdicts' \subseteq VerdictOf /\ inPython' \subseteq Frame
      BY <1>1, <1>3 DEF InspectionTypeOK
  <2> QED
      BY <1>1, <2>1, <2>2 DEF InspectionTypeOK, clientVars
<1> QED
    BY <1>1, <1>2, <1>4, <1>5, <1>6, <1>7, <1>8, <1>9, <1>10 DEF new

LEMMA SecurityStageKeepsInv ==
    ASSUME InspectionInv, NEW f \in inPython, SecurityStage(f)
    PROVE  InspectionInv'
<1>1. PICK says \in {"continue", "refusal", "closed"} :
         Return(f, says) /\ ruled' = [c \in Connection |-> IF number[c] = f.number THEN says ELSE ruled[c]]
    BY DEF SecurityStage
<1>2. says \in {"continue", "refusal", "closed", "delegated"} /\ f.kind = "inspect"
    BY DEF SecurityStage
<1>3. /\ InspectionTypeOK /\ ChannelInv
      /\ ruled' \in [Connection -> {"none", "clean", "continue", "refusal", "closed"}]
    BY <1>1 DEF InspectionInv, InspectionTypeOK
<1>4. /\ UNCHANGED <<clientVars, link, queue, awaited, answers>>
      /\ f \in Frame /\ f \in Pending
      /\ inPython' = inPython \ {f} /\ Pending' \subseteq Pending /\ f \notin Pending'
      /\ \A v \in verdicts' : v \in verdicts \/ v = [number |-> f.number, says |-> says]
      /\ EveryWaitIsKnown' /\ Numbered' /\ InspectedOnce' /\ NothingYet' /\ InspectionTypeOK'
    BY <1>1, <1>2, <1>3, ReturnEffect
<1>5. busy' = busy /\ number' = number /\ lenient' = lenient
    BY <1>4 DEF clientVars
<1>6. ASSUME NEW c \in Connection, number[c] # 0
      PROVE  /\ number[c] # f.number => ruled'[c] = ruled[c] /\ (Unjudged(c)' => Unjudged(c))
             /\ number[c] = f.number => ruled'[c] = says /\ Unjudged(c) /\ ~Unjudged(c)'
             /\ RulingOf(c)
  <2>1. f = AsFrame(f.number, "inspect")
      BY <1>2, <1>4 DEF Frame, AsFrame
  <2>2. number[c] = f.number => Unjudged(c) /\ ~Unjudged(c)'
      BY <2>1, <1>4, <1>5 DEF Unjudged
  <2>3. Unjudged(c)' => Unjudged(c)
      BY <1>4, <1>5 DEF Unjudged
  <2> QED
      BY <2>2, <2>3, <1>1, <1>3, <1>6 DEF ChannelInv, Ruling
<1>7. Ruling'
  <2> SUFFICES ASSUME NEW c \in Connection, number[c] # 0
               PROVE  RulingOf(c)'
      BY <1>5 DEF Ruling
  <2>1. AsFrame(number[c], "delegate") \in Pending' => AsFrame(number[c], "delegate") \in Pending
      BY <1>4
  <2>2. CASE number[c] # f.number
    <3>1. ruled'[c] = ruled[c] /\ (Unjudged(c)' => Unjudged(c)) /\ RulingOf(c)
        BY <2>2, <1>6
    <3>2. \A v \in verdicts' : v.number = number[c] => v \in verdicts
        BY <2>2, <1>4
    <3> QED
        BY <3>1, <3>2, <2>1, <1>5 DEF RulingOf, Served
  <2>3. CASE number[c] = f.number
    <3>1. ruled'[c] = says /\ Unjudged(c) /\ ~Unjudged(c)' /\ RulingOf(c)
        BY <2>3, <1>6
    <3>2. \A v \in verdicts' : v.number = number[c] =>
             /\ v.says \in {"continue", "refusal"} => v.says = says
             /\ v.says = "delegated" => c \in lenient
        BY <3>1, <1>4 DEF RulingOf, Served
    <3>3. AsFrame(number[c], "delegate") \in Pending' \/ busy[c] = "delegate" => c \in lenient
        BY <3>1, <2>1 DEF RulingOf, Served
    <3> QED
        BY <3>1, <3>2, <3>3, <1>5 DEF RulingOf
  <2> QED
      BY <2>2, <2>3
<1>8. Answering'
  <2> SUFFICES ASSUME NEW c \in Connection
               PROVE  (answers[c] # "none" => busy[c] = "write") /\ MayBeGiven(c, answers[c])'
      BY <1>4, <1>5 DEF Answering
  <2>1. (answers[c] # "none" => busy[c] = "write") /\ MayBeGiven(c, answers[c])
      BY <1>3 DEF ChannelInv, Answering
  <2>2. CASE answers[c] = "none"
      BY <2>2, <1>4 DEF MayBeGiven
  <2>3. CASE answers[c] # "none"
    <3>1. number[c] # 0
        BY <2>1, <2>3, <1>3 DEF ChannelInv, Numbered
    <3>2. CASE number[c] # f.number
      <4>1. ruled'[c] = ruled[c] /\ (Unjudged(c)' => Unjudged(c))
          BY <3>1, <3>2, <1>6
      <4> QED
          BY <4>1, <2>1, <1>4, <1>5 DEF MayBeGiven, Served
    <3>3. CASE number[c] = f.number
      <4>1. Unjudged(c)
          BY <3>1, <3>3, <1>6
      <4> QED
          BY <4>1, <2>1, <1>4, <1>5 DEF MayBeGiven, Served
    <3> QED
        BY <3>2, <3>3
  <2> QED
      BY <2>2, <2>3, <2>1
<1> QED
    BY <1>4, <1>7, <1>8 DEF InspectionInv, ChannelInv

LEMMA RouteKeepsInv ==
    ASSUME InspectionInv, NEW f \in inPython, Route(f)
    PROVE  InspectionInv'
<1>1. PICK says \in {"delegated", "closed"} : Return(f, says)
    BY DEF Route
<1>2. says \in {"continue", "refusal", "closed", "delegated"} /\ f.kind = "delegate" /\ ruled' = ruled
    BY DEF Route
<1>3. InspectionTypeOK /\ ChannelInv /\ ruled' \in [Connection -> {"none", "clean", "continue", "refusal", "closed"}]
    BY <1>2 DEF InspectionInv, InspectionTypeOK
<1>4. /\ UNCHANGED <<clientVars, link, queue, awaited, answers>>
      /\ f \in Frame /\ f \in Pending
      /\ inPython' = inPython \ {f} /\ Pending' \subseteq Pending
      /\ \A v \in verdicts' : v \in verdicts \/ v = [number |-> f.number, says |-> says]
      /\ EveryWaitIsKnown' /\ Numbered' /\ InspectedOnce' /\ NothingYet' /\ InspectionTypeOK'
    BY <1>1, <1>2, <1>3, ReturnEffect
<1>5. busy' = busy /\ number' = number /\ lenient' = lenient
    BY <1>4 DEF clientVars
<1>6. \A c \in Connection : Unjudged(c)' => Unjudged(c)
    BY <1>4, <1>5 DEF Unjudged
<1>7. Ruling'
  <2> SUFFICES ASSUME NEW c \in Connection, number[c] # 0
               PROVE  RulingOf(c)'
      BY <1>5 DEF Ruling
  <2>1. RulingOf(c) /\ (Unjudged(c)' => Unjudged(c))
      BY <1>3, <1>6 DEF ChannelInv, Ruling
  <2>2. AsFrame(number[c], "delegate") \in Pending' => AsFrame(number[c], "delegate") \in Pending
      BY <1>4
  <2>3. \A v \in verdicts' : v \in verdicts \/ (v.number = f.number /\ v.says = says)
      BY <1>4
  <2>4. number[c] = f.number => Served(c) \/ c \in lenient
    <3>1. f = AsFrame(f.number, "delegate")
        BY <1>2, <1>4 DEF Frame, AsFrame
    <3> QED
        BY <3>1, <2>1, <1>4 DEF RulingOf
  <2>5. Served(c) => Served(c)'
      BY <2>1, <1>2 DEF Served
  <2>6. \A v \in verdicts' : v.number = number[c] =>
           /\ v.says = "continue" => ruled[c] = "continue" /\ ~Unjudged(c)
           /\ v.says = "refusal" => ruled[c] = "refusal" /\ ~Unjudged(c)
           /\ v.says = "delegated" => Served(c) \/ c \in lenient
    <3> TAKE v \in verdicts'
    <3>1. CASE v \in verdicts
        BY <3>1, <2>1 DEF RulingOf
    <3>2. CASE v.number = f.number /\ v.says = says
        BY <3>2, <2>4, <1>1
    <3> QED
        BY <3>1, <3>2, <2>3
  <2>7. AsFrame(number[c], "delegate") \in Pending' \/ busy[c] = "delegate" => Served(c) \/ c \in lenient
      BY <2>1, <2>2 DEF RulingOf
  <2>8. busy[c] = "delegate" /\ c \notin lenient => \A v \in verdicts' : ~(v.number = number[c] /\ v.says = "continue")
      BY <2>1, <2>3, <1>1 DEF RulingOf
  <2> QED
      BY <2>1, <2>5, <2>6, <2>7, <2>8, <1>2, <1>5 DEF RulingOf
<1>8. Answering'
    BY <1>2, <1>3, <1>4, <1>5, <1>6 DEF ChannelInv, Answering, MayBeGiven, Served
<1> QED
    BY <1>4, <1>7, <1>8 DEF InspectionInv, ChannelInv

LEMMA InspectionStep == InspectionInv /\ [InspectionNext]_inspectionVars => InspectionInv'
<1> SUFFICES ASSUME InspectionInv, [InspectionNext]_inspectionVars
             PROVE  InspectionInv'
    OBVIOUS
<1> DEFINE Kept == /\ ruled' \in [Connection -> {"none", "clean", "continue", "refusal", "closed"}]
                   /\ channelFaults' \in 0..MaxChannelFaults
<1>1. /\ ruled \in [Connection -> {"none", "clean", "continue", "refusal", "closed"}]
      /\ channelFaults \in 0..MaxChannelFaults /\ lenient \subseteq Connection
    BY DEF InspectionInv, InspectionTypeOK
<1>2. UNCHANGED <<ruled, channelFaults>> => Kept
    BY <1>1
<1>3. ASSUME NEW c \in Connection, AcceptClient(c) PROVE InspectionInv'
    BY <1>1, <1>3, ReadsKeepsInv DEF AcceptClient
<1>4. ASSUME NEW c \in Connection, KeepAlive(c) PROVE InspectionInv'
    BY <1>1, <1>4, ReadsKeepsInv DEF KeepAlive
<1>5. ASSUME NEW c \in Connection, CloseConnection(c) PROVE InspectionInv'
    BY <1>5, CloseKeepsInv
<1>6. ASSUME NEW c \in Connection, JudgeAlone(c) PROVE InspectionInv'
  <2>1. Kept
      BY <1>1, <1>6 DEF JudgeAlone
  <2> QED
      BY <2>1, <1>6, JudgeAloneHandled, HandledKeepsInv
<1>7. ASSUME NEW c \in Connection, Inspect(c) \/ HandOff(c) \/ DelayPasses(c) PROVE InspectionInv'
  <2>1. Kept
      BY <1>2, <1>7 DEF Inspect, HandOff, DelayPasses
  <2> QED
      BY <2>1, <1>7, InspectHandled, HandOffHandled, DelayPassesHandled, HandledKeepsInv
<1>8. CASE FlushQueue
  <2>1. Kept
      BY <1>2, <1>8 DEF FlushQueue
  <2> QED
      BY <2>1, <1>8, FlushQueueHandled, HandledKeepsInv
<1>9. CASE SeeTheEnd \/ AdoptChannel
  <2>1. Kept /\ UNCHANGED ruled
      BY <1>2, <1>9 DEF SeeTheEnd, AdoptChannel
  <2>2. LoseChannel(Asking(awaited), Nothing, "none") \/ LoseChannel(Asking(awaited), Nothing, "open")
      BY <1>9 DEF SeeTheEnd, AdoptChannel
  <2>3. Handled
      BY <2>1, <2>2, LoseEffect
  <2> QED
      BY <2>1, <2>3, HandledKeepsInv
<1>10. ASSUME NEW v \in verdicts, ApplyVerdict(v) PROVE InspectionInv'
  <2>1. Kept
      BY <1>2, <1>10 DEF ApplyVerdict
  <2> QED
      BY <2>1, <1>10, ApplyVerdictHandled, HandledKeepsInv
<1>11. ASSUME NEW f \in inPython, SecurityStage(f) \/ Route(f) PROVE InspectionInv'
    BY <1>11, SecurityStageKeepsInv, RouteKeepsInv
<1>12. CASE SecurityProcessDies
  <2>1. Kept
      BY <1>1, <1>12, InspectionConstants DEF SecurityProcessDies, ChannelFault
  <2> QED
      BY <2>1, <1>12, DeathHandled, HandledKeepsInv
<1>13. CASE UNCHANGED inspectionVars
  <2>1. Kept
      BY <1>2, <1>13 DEF inspectionVars
  <2> QED
      BY <2>1, <1>13, StutterHandled, HandledKeepsInv
<1> QED
    BY <1>3, <1>4, <1>5, <1>6, <1>7, <1>8, <1>9, <1>10, <1>11, <1>12, <1>13 DEF InspectionNext

LEMMA InspectionInvImplies == InspectionInv => VerdictsAreMatched
<1> SUFFICES ASSUME InspectionInv PROVE EveryWaitIsKnown /\ AnswersAreRuled
    BY DEF VerdictsAreMatched
<1>1. \A c \in Connection : MayBeGiven(c, answers[c])
    BY DEF InspectionInv, ChannelInv, Answering
<1> QED
    BY <1>1 DEF InspectionInv, AnswersAreRuled, MayBeGiven, Served

\* The variables of the channel of a thread keep their types.
THEOREM InspectionTypeCorrect == InspectionSpec => []InspectionTypeOK
<1>1. InspectionInv => InspectionTypeOK
    BY DEF InspectionInv
<1> QED
    BY <1>1, InspectionStart, InspectionStep, PTL DEF InspectionSpec

\* Whatever delays pass and whatever channels are lost, each wait has one entry and each answer its own verdict.
THEOREM VerdictsFindTheirRequests == InspectionSpec => []VerdictsAreMatched
    BY InspectionStart, InspectionStep, InspectionInvImplies, PTL DEF InspectionSpec
=============================================================================
