--------------------------- MODULE NativeSupervisor ---------------------------
(***************************************************************************)
(* The supervisor of the native engine: it drives the engine by frames on  *)
(* a control channel (a configuration with its generation, its             *)
(* acknowledgement), keeps the processes that inspect the requests, and    *)
(* relaunches both.  On SIGHUP it loads the configuration, has the engine  *)
(* apply it, then sends SIGHUP to the security processes, which load the   *)
(* file themselves.                                                        *)
(*                                                                         *)
(* A configuration is the number of the edit of the file that made it.     *)
(***************************************************************************)
EXTENDS Naturals, Sequences

CONSTANTS
    Member,         \* the security processes
    MaxRestarts,    \* MAX_RESTARTS, of each kind
    MaxEdits,       \* bound: edits of the file
    MaxReloads,     \* bound: SIGHUP
    MaxNativeFaults \* bound: deaths, late acknowledgements

ASSUME NativeAssumption == {MaxRestarts, MaxEdits, MaxReloads, MaxNativeFaults} \subseteq Nat

VARIABLES
    edits,          \* the configuration in the file
    asked,          \* SIGHUP, SIGTERM received and not yet handled
    supervisor,     \* where its loop is: "pump", "reload", "awaiting", "engine", "security", "ended"
    config,         \* the configuration it holds to be active
    target,         \* the one it is loading
    generation,     \* of the engine, as it knows it
    engine,         \* the configuration of the engine, and whether it runs
    toEngine, toSupervisor, \* frames on the control channel
    channel,        \* as the supervisor knows it: "open", "closed", "none"
    security,       \* of each process: phase, configuration, SIGHUP pending, deaf to it while it starts
    engineDeaths, securityDeaths, \* counted in the window
    \* history variables and bounds
    late,           \* an acknowledgement came after the delay: since the last start of the engine
    why,            \* why a process may run another configuration than the supervisor's
    reloads, nativeFaults

control    == <<supervisor, config, target, generation>>
wire       == <<toEngine, toSupervisor, channel>>
counts     == <<engineDeaths, securityDeaths>>
nativeVars == <<edits, asked, control, engine, wire, security, counts, late, why, reloads, nativeFaults>>

Down     == [phase |-> "dead", config |-> 0, hup |-> FALSE, deaf |-> FALSE]
Started(c, deaf) == [phase |-> "starting", config |-> c, hup |-> FALSE, deaf |-> deaf]

\* start has succeeded; the handlers of run are installed after the first security processes forked.
NativeInit ==
    /\ edits = 0 /\ asked = {}
    /\ supervisor = "pump" /\ config = 0 /\ target = 0 /\ generation = 1
    /\ engine = [up |-> TRUE, config |-> 0]
    /\ toEngine = << >> /\ toSupervisor = << >> /\ channel = "open"
    /\ security = [m \in Member |-> Started(0, FALSE)]
    /\ engineDeaths = 0 /\ securityDeaths = 0
    /\ late = FALSE /\ why = [m \in Member |-> "none"]
    /\ reloads = 0 /\ nativeFaults = 0

NativeFault == nativeFaults < MaxNativeFaults /\ nativeFaults' = nativeFaults + 1

StopEverything ==
    /\ supervisor' = "ended"
    /\ engine' = [engine EXCEPT !.up = FALSE] /\ channel' = "none"
    /\ toEngine' = << >> /\ toSupervisor' = << >>
    /\ security' = [m \in Member |-> Down]

(***************************************************************************)
(* run: a turn reads what the engine sent, then handles a stop, a reload,  *)
(* the death of the engine and that of a security process.                 *)
(***************************************************************************)
\* pump reads every frame there is: an acknowledgement it reads is thrown away.
Pump ==
    /\ supervisor = "pump" /\ "TERM" \notin asked
    /\ supervisor' = IF "HUP" \in asked THEN "reload" ELSE "engine"
    /\ asked' = asked \ {"HUP"}
    /\ toSupervisor' = << >>
    /\ channel' = IF channel = "open" /\ ~engine.up THEN "closed" ELSE channel
    /\ UNCHANGED <<edits, config, target, generation, engine, toEngine, security, counts, late, why,
                   reloads, nativeFaults>>

\* SIGTERM ends the loop: the engine drains and stops, then the security processes.
Stop ==
    /\ supervisor = "pump" /\ "TERM" \in asked
    /\ StopEverything
    /\ UNCHANGED <<edits, asked, config, target, generation, counts, late, why, reloads, nativeFaults>>

\* The reload is refused, for a file that is not valid, what a reload cannot change, or an engine that
\* no longer listens.
Refuse ==
    /\ supervisor = "reload" /\ channel # "none"
    /\ supervisor' = "engine"
    /\ UNCHANGED <<edits, asked, config, target, generation, engine, wire, security, counts, late, why,
                   reloads, nativeFaults>>

\* After a relaunch that failed there is no channel: an assertion ends the loop, unless the reload is
\* refused before.
ReloadWithoutChannel ==
    /\ supervisor = "reload" /\ channel = "none"
    /\ \/ StopEverything
       \/ supervisor' = "engine" /\ UNCHANGED <<engine, wire, security>>
    /\ UNCHANGED <<edits, asked, config, target, generation, counts, late, why, reloads, nativeFaults>>

SendConfig ==
    /\ supervisor = "reload" /\ channel = "open" /\ engine.up
    /\ supervisor' = "awaiting" /\ target' = edits
    /\ toEngine' = Append(toEngine, [generation |-> generation + 1, config |-> edits])
    /\ UNCHANGED <<edits, asked, config, generation, engine, toSupervisor, channel, security, counts,
                   late, why, reloads, nativeFaults>>

\* SIGHUP to a security process that is starting: lost when it was forked with the handlers of the
\* supervisor, deadly when not.
Hup(process) ==
    IF process.phase = "up" THEN [process EXCEPT !.hup = TRUE]
    ELSE IF process.phase = "starting" /\ ~process.deaf THEN Down
    ELSE process

\* Mutant of Accept: the configuration of a relaunch stays the one of the start.
AcceptUnkept ==
    /\ supervisor = "awaiting" /\ toSupervisor # << >>
    /\ Head(toSupervisor).ok /\ Head(toSupervisor).generation = generation + 1
    /\ toSupervisor' = Tail(toSupervisor)
    /\ generation' = generation + 1
    /\ security' = [m \in Member |-> Hup(security[m])]
    /\ why' = [m \in Member |-> IF security[m].phase = "starting" /\ security[m].deaf THEN "lost" ELSE why[m]]
    /\ supervisor' = "engine"
    /\ UNCHANGED <<edits, asked, config, target, engine, toEngine, channel, counts, late, reloads, nativeFaults>>

\* The generation awaited is acknowledged.
Accept ==
    /\ supervisor = "awaiting" /\ toSupervisor # << >>
    /\ Head(toSupervisor).ok /\ Head(toSupervisor).generation = generation + 1
    /\ toSupervisor' = Tail(toSupervisor)
    /\ generation' = generation + 1 /\ config' = target
    /\ security' = [m \in Member |-> Hup(security[m])]
    /\ why' = [m \in Member |-> IF security[m].phase = "starting" /\ security[m].deaf THEN "lost" ELSE why[m]]
    /\ supervisor' = "engine"
    /\ UNCHANGED <<edits, asked, target, engine, toEngine, channel, counts, late, reloads, nativeFaults>>

\* A refusal, or the acknowledgement of another generation.
Refused ==
    /\ supervisor = "awaiting" /\ toSupervisor # << >>
    /\ ~(Head(toSupervisor).ok /\ Head(toSupervisor).generation = generation + 1)
    /\ toSupervisor' = Tail(toSupervisor)
    /\ supervisor' = "engine"
    /\ UNCHANGED <<edits, asked, config, target, generation, engine, toEngine, channel, security, counts,
                   late, why, reloads, nativeFaults>>

\* Nothing in the delay, or the engine has died: the former configuration is held to be active.
NoAnswer ==
    /\ supervisor = "awaiting" /\ toSupervisor = << >>
    /\ \/ ~engine.up /\ channel' = "closed" /\ UNCHANGED <<late, nativeFaults>>
       \/ engine.up /\ NativeFault /\ late' = TRUE /\ UNCHANGED channel
    /\ supervisor' = "engine"
    /\ UNCHANGED <<edits, asked, config, target, generation, engine, toEngine, toSupervisor, security,
                   counts, why, reloads>>

OneMore(n) == {kept + 1 : kept \in 0..n}

EngineAlive ==
    /\ supervisor = "engine" /\ engine.up /\ supervisor' = "security"
    /\ UNCHANGED <<edits, asked, config, target, generation, engine, wire, security, counts, late, why,
                   reloads, nativeFaults>>

\* The engine has died: it is relaunched with new security processes, or the service ends.
RelaunchEngine ==
    /\ supervisor = "engine" /\ ~engine.up
    /\ engineDeaths' \in OneMore(engineDeaths)
    /\ \/ /\ engineDeaths' > MaxRestarts
          /\ StopEverything /\ UNCHANGED <<generation, late, why>>
       \/ /\ engineDeaths' <= MaxRestarts
          /\ supervisor' = "security"
          /\ engine' = [up |-> TRUE, config |-> config] /\ generation' = generation + 1
          /\ toEngine' = << >> /\ toSupervisor' = << >> /\ channel' = "open"
          /\ security' = [m \in Member |-> Started(config, TRUE)]
          /\ late' = FALSE /\ why' = [m \in Member |-> "none"]
       \/ /\ engineDeaths' <= MaxRestarts
          /\ supervisor' = "security"
          /\ channel' = "none" /\ toEngine' = << >> /\ toSupervisor' = << >>
          /\ security' = [m \in Member |-> Down]
          /\ UNCHANGED <<engine, generation, late, why>>
    /\ UNCHANGED <<edits, asked, config, target, securityDeaths, reloads, nativeFaults>>

Dead == {m \in Member : security[m].phase = "dead"}

\* A security process has died while the engine runs: the dead ones are relaunched.
RelaunchSecurity ==
    /\ supervisor = "security" /\ engine.up /\ Dead # {}
    /\ securityDeaths' \in OneMore(securityDeaths)
    /\ IF securityDeaths' > MaxRestarts
       THEN StopEverything /\ UNCHANGED why
       ELSE /\ supervisor' = "pump"
            /\ security' = [m \in Member |-> IF m \in Dead THEN Started(config, TRUE) ELSE security[m]]
            /\ why' = [m \in Member |-> IF m \in Dead THEN "none" ELSE why[m]]
            /\ UNCHANGED <<engine, wire>>
    /\ UNCHANGED <<edits, asked, config, target, generation, engineDeaths, late, reloads, nativeFaults>>

EndOfTurn ==
    /\ supervisor = "security" /\ (Dead = {} \/ ~engine.up) /\ supervisor' = "pump"
    /\ UNCHANGED <<edits, asked, config, target, generation, engine, wire, security, counts, late, why,
                   reloads, nativeFaults>>

(***************************************************************************)
(* The engine: it installs a configuration, then acknowledges it.          *)
(***************************************************************************)
HandleConfig ==
    /\ engine.up /\ toEngine # << >> /\ toEngine' = Tail(toEngine)
    /\ \E ok \in BOOLEAN :
          /\ engine' = IF ok THEN [engine EXCEPT !.config = Head(toEngine).config] ELSE engine
          /\ toSupervisor' = Append(toSupervisor, [generation |-> Head(toEngine).generation, ok |-> ok])
    /\ UNCHANGED <<edits, asked, control, channel, security, counts, late, why, reloads, nativeFaults>>

EngineDies ==
    /\ engine.up /\ NativeFault
    /\ engine' = [engine EXCEPT !.up = FALSE] /\ toEngine' = << >>
    /\ UNCHANGED <<edits, asked, control, toSupervisor, channel, security, counts, late, why, reloads>>

(***************************************************************************)
(* The security processes.                                                 *)
(***************************************************************************)
SecurityReady(m) ==
    /\ security[m].phase = "starting" /\ security' = [security EXCEPT ![m].phase = "up"]
    /\ UNCHANGED <<edits, asked, control, engine, wire, counts, late, why, reloads, nativeFaults>>

\* The file as it is now, or the rules of before when it is refused.
SecurityReloads(m) ==
    /\ security[m].phase = "up" /\ security[m].hup
    /\ \/ /\ security' = [security EXCEPT ![m].hup = FALSE, ![m].config = edits]
          /\ why' = [why EXCEPT ![m] = IF edits = config THEN "none" ELSE "edited"]
       \/ /\ security' = [security EXCEPT ![m].hup = FALSE]
          /\ why' = [why EXCEPT ![m] = "refused"]
    /\ UNCHANGED <<edits, asked, control, engine, wire, counts, late, reloads, nativeFaults>>

\* It crashes, or its channels close with the engine.
SecurityEnds(m) ==
    /\ security[m].phase # "dead" /\ security' = [security EXCEPT ![m] = Down]
    /\ \/ ~engine.up /\ UNCHANGED nativeFaults
       \/ engine.up /\ NativeFault
    /\ UNCHANGED <<edits, asked, control, engine, wire, counts, late, why, reloads>>

(***************************************************************************)
(* The operator.                                                           *)
(***************************************************************************)
Edit ==
    /\ supervisor # "ended" /\ edits < MaxEdits /\ edits' = edits + 1
    /\ UNCHANGED <<asked, control, engine, wire, security, counts, late, why, reloads, nativeFaults>>

AskReload ==
    /\ supervisor # "ended" /\ reloads < MaxReloads /\ reloads' = reloads + 1
    /\ asked' = asked \cup {"HUP"}
    /\ UNCHANGED <<edits, control, engine, wire, security, counts, late, why, nativeFaults>>

AskStop ==
    /\ supervisor # "ended" /\ asked' = asked \cup {"TERM"}
    /\ UNCHANGED <<edits, control, engine, wire, security, counts, late, why, reloads, nativeFaults>>

NativeNext ==
    \/ Pump \/ Stop
    \/ Refuse \/ ReloadWithoutChannel \/ SendConfig \/ Accept \/ Refused \/ NoAnswer
    \/ EngineAlive \/ RelaunchEngine \/ RelaunchSecurity \/ EndOfTurn
    \/ HandleConfig \/ EngineDies
    \/ \E m \in Member : SecurityReady(m) \/ SecurityReloads(m) \/ SecurityEnds(m)
    \/ Edit \/ AskReload \/ AskStop

NativeSpec == NativeInit /\ [][NativeNext]_nativeVars
-----------------------------------------------------------------------------
NativeTypeOK ==
    /\ edits \in 0..MaxEdits /\ asked \subseteq {"HUP", "TERM"}
    /\ supervisor \in {"pump", "reload", "awaiting", "engine", "security", "ended"}
    /\ config \in 0..edits /\ target \in 0..edits /\ generation \in Nat
    /\ engine \in [up : BOOLEAN, config : 0..edits]
    /\ toEngine \in Seq([generation : Nat, config : 0..edits])
    /\ toSupervisor \in Seq([generation : Nat, ok : BOOLEAN])
    /\ channel \in {"open", "closed", "none"}
    /\ security \in [Member -> [phase : {"dead", "starting", "up"}, config : 0..edits,
                                hup : BOOLEAN, deaf : BOOLEAN]]
    /\ engineDeaths \in 0..(MaxRestarts + 1) /\ securityDeaths \in 0..(MaxRestarts + 1)
    /\ late \in BOOLEAN /\ why \in [Member -> {"none", "lost", "edited", "refused"}]
    /\ reloads \in 0..MaxReloads /\ nativeFaults \in 0..MaxNativeFaults

\* When the supervisor is not waiting for the engine, the engine runs the configuration the supervisor
\* holds to be active, unless an acknowledgement came late; and so does each security process that has
\* no reload to do, unless it lost its SIGHUP while it started, refused the file, or found it edited.
MixedHasACause ==
    supervisor # "awaiting" /\ engine.up /\ ~late =>
        /\ engine.config = config
        /\ \A m \in Member :
              security[m].phase # "dead" /\ ~security[m].hup /\ why[m] = "none" => security[m].config = config
=============================================================================
