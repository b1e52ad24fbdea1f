------------------------------ MODULE Incidents ------------------------------
(***************************************************************************)
(* The incidents of Active Defense: the server processes that open and     *)
(* feed them from their writer threads, the maintenance that closes those  *)
(* whose threat has gone, and the same sweep by an operator's tool.  All   *)
(* work on one SQLite database without a lock of their own: the connection *)
(* begins a transaction at its first write, so that a look which comes     *)
(* before it sees the committed base and holds nothing.                    *)
(*                                                                         *)
(* A score is a choice: it depends on requests, on a decay and on which    *)
(* process saved last.  One that calls for an incident makes the level of  *)
(* its subject raised, as the validation of the thresholds requires.       *)
(* Module WriteBehind has the queue, the buffer and the replays in full.   *)
(***************************************************************************)
EXTENDS Integers, Sequences

CONSTANTS
    Server,           \* the server processes, each with its writer thread
    NoServer,         \* no holder of the write lock
    Subject, NoSubject,
    Flush,            \* the job that writes the buffered states of a process
    Ttl,              \* state_ttl_seconds: life of a state, and silence before a closure
    LastInstant,      \* bound: the last tick
    MaxObservations,  \* bound
    MaxJobs,          \* bound: jobs waiting in a queue
    MaxSweeps,        \* bound: sweeps and closures by an operator
    MaxBaseFaults     \* bound: transactions undone, deaths

ASSUME IncidentsAssumption ==
    /\ NoServer \notin Server /\ NoSubject \notin Subject /\ Flush \notin Subject
    /\ {Ttl, LastInstant, MaxObservations, MaxJobs, MaxSweeps, MaxBaseFaults} \subseteq Nat /\ Ttl > 0

VARIABLES
    instant,
    base,      \* what is committed: the state of each subject, the incidents
    txn,       \* what the transaction in progress has made of it; the same without one
    holder,    \* the process whose transaction holds the write lock
    buffer,    \* states of each process that no job has taken
    jobs,      \* the queue of its thread
    batch,     \* the jobs of its transaction ...
    ran,       \* ... how many of them have run
    taken,     \* ... and the states its flush job has taken
    look,      \* the incident a job found before its transaction began
    sweep,     \* the operator's sweep: its step, the incidents it still has to look at, the one to close
    \* history variable and bounds
    raced,     \* the subjects that changed between a look without the lock and the write that relied on it
    observations, sweeps, baseFaults

incidentsVars == <<instant, base, txn, holder, buffer, jobs, batch, ran, taken, look, sweep, raced,
                   observations, sweeps, baseFaults>>

Id         == 1..MaxObservations
NoState    == [level |-> "normal", saved |-> 0]
NoStates   == [s \in Subject |-> NoState]
Untaken    == [s \in Subject |-> [level |-> "raised", saved |-> 0]]
NoIncident == [subject |-> NoSubject, last |-> 0, closed |-> 0]
NotLooked  == -1
NoSweep    == [step |-> "none", todo |-> {}, chosen |-> 0]

IncidentsInit ==
    /\ instant = 1
    /\ base = [state |-> NoStates, incident |-> [i \in Id |-> NoIncident]]
    /\ txn = base /\ holder = NoServer
    /\ buffer = [w \in Server |-> NoStates]
    /\ jobs = [w \in Server |-> <<>>] /\ batch = [w \in Server |-> <<>>]
    /\ ran = [w \in Server |-> 0] /\ taken = [w \in Server |-> Untaken]
    /\ look = [w \in Server |-> NotLooked]
    /\ sweep = NoSweep
    /\ raced = {} /\ observations = 0 /\ sweeps = 0 /\ baseFaults = 0

IsOpen(view, i)  == view.incident[i].subject # NoSubject /\ view.incident[i].closed = 0
OpenOf(view, s)  == {i \in Id : IsOpen(view, i) /\ view.incident[i].subject = s}
MayWrite(w)      == holder \in {NoServer, w}
HasJob(w)        == ran[w] < Len(batch[w])
Job(w)           == batch[w][ran[w] + 1]

(***************************************************************************)
(* The loop: the state goes into the buffer, with a flush job if none      *)
(* waits, then a job for the incident when the score calls for one.        *)
(***************************************************************************)
Waits(w) ==
    \/ \E j \in DOMAIN jobs[w] : jobs[w][j] = Flush
    \/ taken[w] = Untaken /\ \E j \in DOMAIN batch[w] : batch[w][j] = Flush

Observe(w, s) ==
    /\ observations < MaxObservations /\ observations' = observations + 1
    /\ \E level \in {"normal", "raised"}, calls \in BOOLEAN :
        /\ calls => level = "raised"
        /\ buffer' = [buffer EXCEPT ![w][s] = [level |-> level, saved |-> instant]]
        /\ jobs' = [jobs EXCEPT ![w] = @ \o (IF Waits(w) THEN <<>> ELSE <<Flush>>)
                                         \o (IF calls THEN <<s>> ELSE <<>>)]
    /\ Len(jobs'[w]) <= MaxJobs
    /\ UNCHANGED <<instant, base, txn, holder, batch, ran, taken, look, sweep, raced, sweeps, baseFaults>>

(***************************************************************************)
(* The writer thread.                                                      *)
(***************************************************************************)
TakeBatch(w) ==
    /\ batch[w] = <<>> /\ jobs[w] # <<>>
    /\ \E n \in 1..Len(jobs[w]) :
        /\ batch' = [batch EXCEPT ![w] = SubSeq(jobs[w], 1, n)]
        /\ jobs' = [jobs EXCEPT ![w] = SubSeq(@, n + 1, Len(@))]
    /\ UNCHANGED <<instant, base, txn, holder, buffer, ran, taken, look, sweep, raced, observations, sweeps,
                   baseFaults>>

\* The first write of a batch begins its transaction.
Writes(w, view) == MayWrite(w) /\ holder' = w /\ txn' = view /\ ran' = [ran EXCEPT ![w] = @ + 1]

\* A flush job that runs again writes what it took the first time; the last to save wins.
RunFlush(w) ==
    LET states == IF taken[w] = Untaken THEN buffer[w] ELSE taken[w] IN
    /\ HasJob(w) /\ Job(w) = Flush
    /\ Writes(w, [txn EXCEPT !.state = [s \in Subject |-> IF states[s] # NoState THEN states[s] ELSE @[s]]])
    /\ taken' = [taken EXCEPT ![w] = states]
    /\ buffer' = IF taken[w] = Untaken THEN [buffer EXCEPT ![w] = NoStates] ELSE buffer
    /\ UNCHANGED <<instant, base, jobs, batch, look, sweep, raced, observations, sweeps, baseFaults>>

\* find_open_id_for: one of the open incidents of the subject, 0 when there is none.
Seek(view, s) == IF OpenOf(view, s) = {} THEN {0} ELSE OpenOf(view, s)

\* The job of an incident looks before its transaction has begun.
Look(w) ==
    /\ HasJob(w) /\ Job(w) # Flush /\ holder # w /\ look[w] = NotLooked
    /\ \E i \in Seek(base, Job(w)) : look' = [look EXCEPT ![w] = i]
    /\ UNCHANGED <<instant, base, txn, holder, buffer, jobs, batch, ran, taken, sweep, raced, observations,
                   sweeps, baseFaults>>

\* Mutant of Sought: the look of a transaction is made on the connection of the readers.
SoughtCommitted(w) == IF holder = w THEN Seek(base, Job(w)) ELSE {look[w]} \ {NotLooked}

\* What the job knows: inside the transaction it sees what the transaction wrote.
Sought(w) == IF holder = w THEN Seek(txn, Job(w)) ELSE {look[w]} \ {NotLooked}

\* create_or_update_incident: a new incident, or one more event in the one it found.
Unused(view) == CHOOSE i \in Id : view.incident[i] = NoIncident
WithEvent(view, found, s) ==
    IF found = 0
    THEN [view EXCEPT !.incident[Unused(view)] = [subject |-> s, last |-> instant, closed |-> 0]]
    ELSE [view EXCEPT !.incident[found].last = instant]

RecordIncident(w) ==
    /\ HasJob(w) /\ Job(w) # Flush
    /\ \E found \in Sought(w) : Writes(w, WithEvent(txn, found, Job(w)))
    /\ \E i \in Id : txn.incident[i] = NoIncident  \* always: one for each observation
    /\ look' = [look EXCEPT ![w] = NotLooked]
    /\ UNCHANGED <<instant, base, buffer, jobs, batch, taken, sweep, raced, observations, sweeps, baseFaults>>

\* The subjects that a new base changes under a job or a sweep that has looked at them.
Differs(view, s) ==
    \/ base.state[s] # view.state[s]
    \/ \E i \in Id : base.incident[i] # view.incident[i] /\ view.incident[i].subject = s
LookedAt(s) ==
    \/ \E w \in Server : look[w] # NotLooked /\ Job(w) = s
    \/ \E i \in sweep.todo \cup {sweep.chosen} : i # 0 /\ base.incident[i].subject = s
CommitsAs(view) ==
    /\ base' = view /\ txn' = view
    /\ raced' = raced \cup {s \in Subject : Differs(view, s) /\ LookedAt(s)}

\* What the thread keeps of a batch that has ended.
NoBatch(w) ==
    /\ batch' = [batch EXCEPT ![w] = <<>>] /\ ran' = [ran EXCEPT ![w] = 0]
    /\ taken' = [taken EXCEPT ![w] = Untaken]

CommitBatch(w) ==
    /\ batch[w] # <<>> /\ ~HasJob(w)
    /\ CommitsAs(txn) /\ holder' = NoServer
    /\ NoBatch(w)
    /\ UNCHANGED <<instant, buffer, jobs, look, sweep, observations, sweeps, baseFaults>>

BaseFault == baseFaults < MaxBaseFaults /\ baseFaults' = baseFaults + 1
Releases(w) == holder' = (IF holder = w THEN NoServer ELSE holder) /\ txn' = IF holder = w THEN base ELSE txn

\* An error of the base: the lock was held for too long, a write or the commit failed.  All the jobs
\* of the batch will run again.
UndoBatch(w) ==
    /\ batch[w] # <<>> /\ BaseFault /\ Releases(w)
    /\ ran' = [ran EXCEPT ![w] = 0] /\ look' = [look EXCEPT ![w] = NotLooked]
    /\ UNCHANGED <<instant, base, buffer, jobs, batch, taken, sweep, raced, observations, sweeps>>

ServerDies(w) ==
    /\ BaseFault /\ Releases(w) /\ NoBatch(w)
    /\ buffer' = [buffer EXCEPT ![w] = NoStates] /\ jobs' = [jobs EXCEPT ![w] = <<>>]
    /\ look' = [look EXCEPT ![w] = NotLooked]
    /\ UNCHANGED <<instant, base, sweep, raced, observations, sweeps>>

(***************************************************************************)
(* Closures.  A state that has not been saved for its life is deleted,     *)
(* which is worth the normal level.                                        *)
(***************************************************************************)
Expired(view) ==
    [view EXCEPT !.state = [s \in Subject |-> IF @[s].saved + Ttl < instant THEN NoState ELSE @[s]]]

Silent(view, i)  == view.incident[i].last + Ttl <= instant
Cleared(view, i) == view.state[view.incident[i].subject].level = "normal"

\* Mutant of MayClose: time alone closes an incident.
MayCloseBySilence(view, i) == IsOpen(view, i) /\ Silent(view, i)

MayClose(view, i) == IsOpen(view, i) /\ Silent(view, i) /\ Cleared(view, i)

Closed(view, ids) ==
    [view EXCEPT !.incident = [i \in Id |-> IF i \in ids THEN [@[i] EXCEPT !.closed = instant] ELSE @[i]]]

\* The purge of a thread is a batch of its own, whose first statement is a write.
Maintain(w) ==
    /\ batch[w] = <<>> /\ holder = NoServer
    /\ LET swept == Expired(base) IN CommitsAs(Closed(swept, {i \in Id : MayClose(swept, i)}))
    /\ UNCHANGED <<instant, holder, buffer, jobs, batch, ran, taken, look, sweep, observations, sweeps,
                   baseFaults>>

(***************************************************************************)
(* The operator: `active-defense purge`, or the screen of the incidents.   *)
(* Every statement is committed alone: the deletion of the states, the     *)
(* list, then for each incident a look at its level and its closure.       *)
(***************************************************************************)
ByOperator == sweeps < MaxSweeps /\ sweeps' = sweeps + 1

SweepStates ==
    /\ sweep.step = "none" /\ ByOperator /\ holder = NoServer
    /\ CommitsAs(Expired(base)) /\ sweep' = [sweep EXCEPT !.step = "listing"]
    /\ UNCHANGED <<instant, holder, buffer, jobs, batch, ran, taken, look, observations, baseFaults>>

SweepList ==
    /\ sweep.step = "listing"
    /\ sweep' = [step |-> "closing", todo |-> {i \in Id : IsOpen(base, i) /\ Silent(base, i)}, chosen |-> 0]
    /\ UNCHANGED <<instant, base, txn, holder, buffer, jobs, batch, ran, taken, look, raced, observations,
                   sweeps, baseFaults>>

SweepLook(i) ==
    /\ sweep.chosen = 0 /\ i \in sweep.todo
    /\ sweep' = [sweep EXCEPT !.todo = @ \ {i}, !.chosen = IF Cleared(base, i) THEN i ELSE 0]
    /\ UNCHANGED <<instant, base, txn, holder, buffer, jobs, batch, ran, taken, look, raced, observations,
                   sweeps, baseFaults>>

SweepClose ==
    /\ sweep.chosen # 0 /\ holder = NoServer
    /\ CommitsAs(Closed(base, {i \in {sweep.chosen} : IsOpen(base, i)}))
    /\ sweep' = [sweep EXCEPT !.chosen = 0]
    /\ UNCHANGED <<instant, holder, buffer, jobs, batch, ran, taken, look, observations, sweeps, baseFaults>>

\* The sweep ends, or an error or the operator stops it.
SweepEnds ==
    /\ sweep.step # "none" /\ sweep' = NoSweep
    /\ UNCHANGED <<instant, base, txn, holder, buffer, jobs, batch, ran, taken, look, raced, observations,
                   sweeps, baseFaults>>

CloseByHand(i) ==
    /\ IsOpen(base, i) /\ ByOperator /\ holder = NoServer
    /\ CommitsAs(Closed(base, {i}))
    /\ UNCHANGED <<instant, holder, buffer, jobs, batch, ran, taken, look, sweep, observations, baseFaults>>

InstantPasses ==
    /\ instant < LastInstant /\ instant' = instant + 1
    /\ UNCHANGED <<base, txn, holder, buffer, jobs, batch, ran, taken, look, sweep, raced, observations,
                   sweeps, baseFaults>>

Thread(w) ==
    \/ TakeBatch(w) \/ RunFlush(w) \/ Look(w) \/ RecordIncident(w)
    \/ CommitBatch(w) \/ UndoBatch(w) \/ Maintain(w)

Operator ==
    \/ SweepStates \/ SweepList \/ SweepClose \/ SweepEnds
    \/ \E i \in Id : SweepLook(i) \/ CloseByHand(i)

IncidentsNext ==
    \/ \E w \in Server : Thread(w) \/ ServerDies(w) \/ \E s \in Subject : Observe(w, s)
    \/ Operator \/ InstantPasses

IncidentsSpec == IncidentsInit /\ [][IncidentsNext]_incidentsVars
-----------------------------------------------------------------------------
States == [Subject -> [level : {"normal", "raised"}, saved : 0..instant]]
Bases  == [state : States,
           incident : [Id -> [subject : Subject \cup {NoSubject}, last : 0..instant, closed : 0..instant]]]

IncidentsTypeOK ==
    /\ instant \in Nat
    /\ base \in Bases /\ txn \in Bases /\ holder \in Server \cup {NoServer}
    /\ buffer \in [Server -> States] /\ taken \in [Server -> States]
    /\ jobs \in [Server -> Seq(Subject \cup {Flush})] /\ batch \in [Server -> Seq(Subject \cup {Flush})]
    /\ ran \in [Server -> Nat] /\ \A w \in Server : ran[w] <= Len(batch[w])
    /\ look \in [Server -> Id \cup {0, NotLooked}]
    /\ sweep \in [step : {"none", "listing", "closing"}, todo : SUBSET Id, chosen : Id \cup {0}]
    /\ raced \subseteq Subject

\* A subject has one open incident at most, however many processes see it, batches are undone and
\* incidents are closed, and nothing is added to an incident that is closed, unless the base changed
\* between a look that held nothing and the write that relied on it.
OneIncidentAtATime ==
    \A s \in Subject \ raced :
        /\ \A i, j \in OpenOf(base, s) : i = j
        /\ \A i \in Id : base.incident[i].subject = s /\ ~IsOpen(base, i) => base.incident[i].last <= base.incident[i].closed

\* An incident is closed only by hand, or when its subject is back to normal and has been silent for
\* long enough, unless an observation arrived between the look of an operator's sweep and its write.
ClosedWhenQuiet ==
    [][\A i \in Id :
          IsOpen(base, i) /\ base'.incident[i].closed # 0 =>
              \/ CloseByHand(i)
              \/ Silent(base, i) /\ Cleared(Expired(base), i)
              \/ base.incident[i].subject \in raced]_incidentsVars
=============================================================================
