---------------------------- MODULE BoostSupervisor ----------------------------
(***************************************************************************)
(* The main process of the boost mode: it forks the workers, relays SIGHUP *)
(* and SIGTERM to them, relaunches those that die, stops the service when  *)
(* too many die within a minute, and drives the RIPOSTE process.  Its      *)
(* control signals are blocked and taken one per turn of its loop; two     *)
(* signals of one kind that are pending together are one.                  *)
(*                                                                         *)
(* There is one process per worker number at a time.  The deaths of more   *)
(* than a minute ago leave the count at any time.                          *)
(***************************************************************************)
EXTENDS Naturals, Sequences, FiniteSets

CONSTANTS
    WorkerIndex,
    MaxRestartsInWindow, \* _MAX_RESTARTS_IN_WINDOW
    MaxDeaths            \* bound: deaths nobody asked for

ASSUME BoostAssumption ==
    /\ IsFiniteSet(WorkerIndex) /\ WorkerIndex # {}
    /\ MaxRestartsInWindow \in Nat /\ MaxDeaths \in Nat

VARIABLES
    worker,     \* of each number: "none", "forked" (no handler yet), "ready", "draining", "zombie"
    hups, terms,\* the workers to which SIGHUP, SIGTERM has been sent and not yet delivered
    inbox,      \* the signals pending for the main process
    turn,       \* where it is: "starting", "waiting", "reaping", "handling", "ended"
    reaped,     \* workers reaped in this turn and not yet handled
    stopping,
    recent,     \* deaths counted in the window
    companion,  \* the RIPOSTE process: "up", "dead", "given_up", "stopped"
    deaths      \* for the bound

boostVars == <<worker, hups, terms, inbox, turn, reaped, stopping, recent, companion, deaths>>

Live     == {i \in WorkerIndex : worker[i] \in {"forked", "ready", "draining"}}
Zombies  == {i \in WorkerIndex : worker[i] = "zombie"}
Children == Live \cup Zombies

BoostInit ==
    /\ worker = [i \in WorkerIndex |-> "forked"]
    /\ hups = {} /\ terms = {} /\ inbox = {}
    /\ turn = "starting" /\ reaped = << >>
    /\ stopping = FALSE /\ recent = 0
    /\ companion = "dead"
    /\ deaths = 0

(***************************************************************************)
(* run_workers: a turn takes a signal or none, reaps, handles each worker  *)
(* reaped, drives RIPOSTE and kills what is left after the delay.          *)
(***************************************************************************)
\* The workers are forked; RIPOSTE starts after them, or cannot.
StartCompanion ==
    /\ turn = "starting" /\ turn' = "waiting"
    /\ companion' \in {"up", "given_up"}
    /\ UNCHANGED <<worker, hups, terms, inbox, reaped, stopping, recent, deaths>>

SignalAll == hups' = hups /\ terms' = terms \cup Live

TakeStop ==
    /\ turn = "waiting" /\ "TERM" \in inbox /\ inbox' = inbox \ {"TERM"}
    /\ stopping' = TRUE
    /\ IF stopping THEN UNCHANGED <<hups, terms>> ELSE SignalAll
    /\ turn' = "reaping"
    /\ UNCHANGED <<worker, reaped, recent, companion, deaths>>

\* A reload is relayed to the workers and to RIPOSTE, unless the service stops.
TakeReload ==
    /\ turn = "waiting" /\ "HUP" \in inbox /\ inbox' = inbox \ {"HUP"}
    /\ hups' = IF stopping THEN hups ELSE hups \cup Live
    /\ turn' = "reaping"
    /\ UNCHANGED <<worker, terms, reaped, stopping, recent, companion, deaths>>

\* SIGCHLD, or a second without a signal.
TakeNothing ==
    /\ turn = "waiting" /\ turn' = "reaping"
    /\ UNCHANGED <<worker, hups, terms, inbox, reaped, stopping, recent, companion, deaths>>

Orders(S) == {s \in [1..Cardinality(S) -> S] : \A i, j \in DOMAIN s : s[i] = s[j] => i = j}

Reap ==
    /\ turn = "reaping" /\ turn' = "handling"
    /\ reaped' \in Orders(Zombies)
    /\ worker' = [i \in WorkerIndex |-> IF i \in Zombies THEN "none" ELSE worker[i]]
    /\ UNCHANGED <<hups, terms, inbox, stopping, recent, companion, deaths>>

\* Mutant of IgnoresDeaths: a worker that ends during the stop is relaunched like any other.
IgnoresNoDeath == FALSE

\* During the stop the end of a worker is what was asked.
IgnoresDeaths == stopping

HandleReaped ==
    /\ turn = "handling" /\ reaped # << >> /\ reaped' = Tail(reaped)
    /\ \/ IgnoresDeaths /\ UNCHANGED <<worker, hups, terms, stopping, recent>>
       \/ /\ ~IgnoresDeaths
          /\ \E kept \in 0..recent : recent' = kept + 1
          /\ IF recent' > MaxRestartsInWindow
             THEN stopping' = TRUE /\ SignalAll /\ UNCHANGED worker
             ELSE worker' = [worker EXCEPT ![Head(reaped)] = "forked"] /\ UNCHANGED <<hups, terms, stopping>>
    /\ UNCHANGED <<inbox, turn, companion, deaths>>

\* RiposteChildSupervisor.tick: a dead RIPOSTE is relaunched, or given up.
DriveCompanion ==
    companion' \in IF ~stopping /\ companion = "dead" THEN {"up", "given_up"} ELSE {companion}

KillLate(killed) ==
    /\ worker' = [i \in WorkerIndex |-> IF i \in killed THEN "zombie" ELSE worker[i]]
    /\ hups' = hups \ killed /\ terms' = terms \ killed

\* The end of a turn; SIGKILL to all once the grace period of the stop and five seconds have passed.
EndTurn ==
    /\ turn = "handling" /\ reaped = << >> /\ Children # {}
    /\ turn' = "waiting"
    /\ DriveCompanion
    /\ \/ UNCHANGED <<worker, hups, terms>>
       \/ stopping /\ KillLate(Live)
    /\ UNCHANGED <<inbox, reaped, stopping, recent, deaths>>

\* No child is left: RIPOSTE is stopped and the service ends.
EndService ==
    /\ turn = "handling" /\ reaped = << >> /\ Children = {}
    /\ turn' = "ended"
    /\ companion' = IF companion = "given_up" THEN companion ELSE "stopped"
    /\ UNCHANGED <<worker, hups, terms, inbox, reaped, stopping, recent, deaths>>

(***************************************************************************)
(* The workers.  A signal that comes before the handlers are installed     *)
(* kills the worker.                                                       *)
(***************************************************************************)
Becomes(i, phase) ==
    /\ worker' = [worker EXCEPT ![i] = phase]
    /\ UNCHANGED <<inbox, turn, reaped, stopping, recent, companion>>

Gone(i) == hups' = hups \ {i} /\ terms' = terms \ {i}

BecomeReady(i) ==
    /\ worker[i] = "forked" /\ i \notin hups \cup terms
    /\ Becomes(i, "ready") /\ UNCHANGED <<hups, terms, deaths>>

KilledEarly(i) ==
    /\ worker[i] = "forked" /\ i \in hups \cup terms
    /\ Becomes(i, "zombie") /\ Gone(i) /\ UNCHANGED deaths

\* A reload, or its refusal: the worker goes on either way.
Reload(i) ==
    /\ worker[i] \in {"ready", "draining"} /\ i \in hups /\ hups' = hups \ {i}
    /\ UNCHANGED <<worker, terms, inbox, turn, reaped, stopping, recent, companion, deaths>>

\* _graceful_stop; a second SIGTERM changes nothing.
Drain(i) ==
    /\ worker[i] \in {"ready", "draining"} /\ i \in terms /\ terms' = terms \ {i}
    /\ Becomes(i, "draining") /\ UNCHANGED <<hups, deaths>>

Drained(i) ==
    /\ worker[i] = "draining"
    /\ Becomes(i, "zombie") /\ Gone(i) /\ UNCHANGED deaths

\* The worker fails to start, crashes or is killed.
WorkerDies(i) ==
    /\ i \in Live /\ deaths < MaxDeaths /\ deaths' = deaths + 1
    /\ Becomes(i, "zombie") /\ Gone(i)

CompanionDies ==
    /\ companion = "up" /\ deaths < MaxDeaths /\ deaths' = deaths + 1
    /\ companion' = "dead"
    /\ UNCHANGED <<worker, hups, terms, inbox, turn, reaped, stopping, recent>>

\* systemctl or the terminal; Ctrl-C and systemd reach the workers too.
AskMain(sig) ==
    /\ turn # "ended" /\ sig \notin inbox /\ inbox' = inbox \cup {sig}
    /\ \/ UNCHANGED terms
       \/ sig = "TERM" /\ terms' = terms \cup Live
    /\ UNCHANGED <<worker, hups, turn, reaped, stopping, recent, companion, deaths>>

BoostNext ==
    \/ StartCompanion \/ TakeStop \/ TakeReload \/ TakeNothing \/ Reap \/ HandleReaped \/ EndTurn \/ EndService
    \/ \E i \in WorkerIndex : \/ BecomeReady(i) \/ KilledEarly(i) \/ Reload(i) \/ Drain(i) \/ Drained(i)
                              \/ WorkerDies(i)
    \/ CompanionDies
    \/ \E sig \in {"HUP", "TERM"} : AskMain(sig)

BoostSpec == BoostInit /\ [][BoostNext]_boostVars
-----------------------------------------------------------------------------
BoostTypeOK ==
    /\ worker \in [WorkerIndex -> {"none", "forked", "ready", "draining", "zombie"}]
    /\ hups \subseteq WorkerIndex /\ terms \subseteq WorkerIndex
    /\ inbox \subseteq {"HUP", "TERM"}
    /\ turn \in {"starting", "waiting", "reaping", "handling", "ended"}
    /\ reaped \in Seq(WorkerIndex)
    /\ stopping \in BOOLEAN /\ recent \in 0..(MaxRestartsInWindow + 1)
    /\ companion \in {"up", "dead", "given_up", "stopped"}
    /\ deaths \in 0..MaxDeaths

\* The stop reaches every worker, also one relaunched a moment before it, in the same turn, or while
\* the service stops because too many died; and when the service has ended nothing it started runs.
StopReachesEveryWorker ==
    /\ stopping => \A i \in Live : worker[i] = "draining" \/ i \in terms
    /\ turn = "ended" => Children = {} /\ companion \in {"stopped", "given_up"}
=============================================================================
