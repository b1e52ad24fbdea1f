------------------------------ MODULE WriteBehind ------------------------------
(***************************************************************************)
(* The deferred writes of Active Defense: the request loop saves threat    *)
(* states into a buffer of its process and never waits for the database;   *)
(* one writer thread takes them, in batches, each batch one transaction    *)
(* that is rolled back and replayed after an error of the database.        *)
(*                                                                         *)
(* A threat state is its subject and a stamp: the order in which the loop  *)
(* saved it, which is the order of its updated_at.  0 is "no state".       *)
(* The other jobs of the queue (incidents, deception assignments) write    *)
(* other tables; here they take a place in the queue and in a batch.       *)
(***************************************************************************)
EXTENDS Naturals, Sequences, FiniteSets

CONSTANTS
    Subject,      \* the observed sources
    Capacity,     \* bound of the queue, and of the buffer of states
    BatchSize,    \* jobs written in one transaction
    MaxStamp,     \* bound: states the loop saves
    MaxOther,     \* bound: jobs of the other repositories
    MaxDropped    \* bound: value of the counter of abandoned jobs

ASSUME CapacityAssumption ==
    /\ Capacity \in Nat \ {0}
    /\ BatchSize \in Nat \ {0}
    /\ MaxStamp \in Nat
    /\ MaxOther \in Nat
    /\ MaxDropped \in Nat

VARIABLES
    \* the repository of threat states, shared by the loop and the thread
    pending,         \* the latest state saved and not yet forgotten, per subject
    unsaved,         \* the buffer the next flush job takes
    flushSubmitted,  \* a flush job that has not taken the buffer was deposited
    saver,           \* where the loop is in save_many
    \* the writer
    queue, stopping, dropped,
    thread,          \* where the writer thread is
    batch,           \* the jobs of the running transaction
    position,        \* the job of the batch that runs next
    afterCommit,     \* the jobs of the batch whose callback waits for the commit
    tx,              \* the table as the open transaction sees it
    db,              \* the table as committed
    \* history: what the properties compare the program with
    clock,           \* the last stamp given
    others,          \* jobs of the other repositories deposited so far
    accepted,        \* the states the loop accepted in this process
    lost,            \* the accepted states this process has given up
    written,         \* the newest stamp ever committed, per subject
    hidden,          \* subjects whose newest state was refused by the queue
    flushed          \* the call of flush(): what it waits for, whether it returned

repository == <<pending, unsaved, flushSubmitted, saver>>
writer     == <<queue, stopping, dropped>>
run        == <<thread, batch, position, afterCommit, tx>>
history    == <<clock, others, accepted, lost, written, hidden, flushed>>
vars       == <<repository, writer, run, db, history>>

State == [subject : Subject, stamp : Nat]

\* "flush" takes the buffer when it first runs and keeps it for a replay;
\* "signal" is the job of flush(); "other" writes other tables.
Job == [kind : {"flush", "signal", "other", "purge"}, took : BOOLEAN, taken : SUBSET State]

JobOf(kind) == [kind |-> kind, took |-> FALSE, taken |-> {}]

\* _newest_state: of the pending and the stored state, the newest.
_Newest(m, n) == IF m >= n THEN m ELSE n

\* What the loop reads for subject s when the database can be read.
Get(s) == _Newest(pending[s], db[s])

\* save_many: the rows of S overwrite the table, the last of a subject wins.
Overlay(table, S) ==
    [s \in Subject |->
        IF \E x \in S : x.subject = s
        THEN (CHOOSE x \in S : x.subject = s /\ \A y \in S : y.subject = s => y.stamp <= x.stamp).stamp
        ELSE table[s]]

\* Mutant of Forget: the entry of the subject leaves, newer or not.
ForgetWhatever(S) ==
    [s \in Subject |-> IF \E x \in S : x.subject = s THEN 0 ELSE pending[s]]

\* _forget_all: an entry leaves only when it still is one of the states of S.
Forget(S) ==
    [s \in Subject |-> IF [subject |-> s, stamp |-> pending[s]] \in S THEN 0 ELSE pending[s]]

Empty == [s \in Subject |-> 0]

Init ==
    /\ pending = Empty /\ unsaved = {} /\ flushSubmitted = FALSE /\ saver = "ready"
    /\ queue = <<>> /\ stopping = FALSE /\ dropped = 0
    /\ thread = "opening" /\ batch = <<>> /\ position = 1 /\ afterCommit = {} /\ tx = Empty
    /\ db = Empty
    /\ clock = 0 /\ others = 0 /\ accepted = {} /\ lost = {} /\ written = Empty /\ hidden = {}
    /\ flushed = [called |-> FALSE, covers |-> {}, done |-> FALSE]

-----------------------------------------------------------------------------
(* The request loop.                                                        *)

\* submit: refused once stopping, or when the queue is full (then counted).
Accepts == ~stopping /\ Len(queue) < Capacity

Submit(job) == Accepts /\ queue' = Append(queue, job) /\ UNCHANGED <<stopping, dropped>>

Refused ==
    /\ ~Accepts
    /\ stopping \/ dropped < MaxDropped
    /\ dropped' = IF stopping THEN dropped ELSE dropped + 1
    /\ UNCHANGED <<queue, stopping>>

\* save_many under the lock: the state becomes pending and joins the buffer;
\* the first of a buffer has to deposit the flush job.
SaveAccepted(s) ==
    LET state == [subject |-> s, stamp |-> clock + 1] IN
    /\ saver = "ready" /\ clock < MaxStamp
    /\ Cardinality(unsaved) < Capacity
    /\ clock' = clock + 1
    /\ pending' = [pending EXCEPT ![s] = state.stamp]
    /\ unsaved' = unsaved \cup {state}
    /\ saver' = IF flushSubmitted THEN "ready" ELSE "submitting"
    /\ flushSubmitted' = TRUE
    /\ accepted' = accepted \cup {state}
    /\ hidden' = hidden \ {s}
    /\ UNCHANGED <<writer, run, db, others, lost, written, flushed>>

\* save_many with no room in the buffer: the state is refused and counted.
SaveRefused ==
    /\ saver = "ready" /\ clock < MaxStamp
    /\ Cardinality(unsaved) >= Capacity
    /\ dropped < MaxDropped
    /\ clock' = clock + 1
    /\ dropped' = dropped + 1
    /\ UNCHANGED <<repository, queue, stopping, run, db, others, accepted, lost, written, hidden, flushed>>

SubmitFlushJob ==
    /\ saver = "submitting"
    /\ Submit(JobOf("flush"))
    /\ saver' = "ready"
    /\ UNCHANGED <<pending, unsaved, flushSubmitted, run, db, history>>

\* The queue refused the flush job: the whole buffer is given up.
DropBuffer ==
    /\ saver = "submitting"
    /\ Refused
    /\ pending' = Forget(unsaved)
    /\ unsaved' = {} /\ flushSubmitted' = FALSE /\ saver' = "ready"
    /\ lost' = lost \cup unsaved
    /\ hidden' = hidden \cup {s \in Subject : pending'[s] # pending[s]}
    /\ UNCHANGED <<run, db, clock, others, accepted, written, flushed>>

\* A job of the incident or the deception repository.
SubmitOther ==
    /\ saver = "ready" /\ others < MaxOther
    /\ others' = others + 1
    /\ Submit(JobOf("other")) \/ Refused
    /\ UNCHANGED <<repository, run, db, clock, accepted, lost, written, hidden, flushed>>

\* flush(): a job that signals once its batch is committed.
CallFlush ==
    /\ saver = "ready" /\ ~flushed.called
    /\ Submit(JobOf("signal"))
    /\ flushed' = [called |-> TRUE, covers |-> accepted, done |-> FALSE]
    /\ UNCHANGED <<repository, run, db, clock, others, accepted, lost, written, hidden>>

\* stop(): called by the server when it closes.
Stop ==
    /\ ~stopping
    /\ stopping' = TRUE
    /\ UNCHANGED <<repository, queue, dropped, run, db, history>>

-----------------------------------------------------------------------------
(* The writer thread.                                                       *)

OpenConnection ==
    /\ thread = "opening"
    /\ thread' = "idle"
    /\ UNCHANGED <<repository, writer, batch, position, afterCommit, tx, db, history>>

\* The base cannot be opened: tried again until the writer stops.
GiveUpOpening ==
    /\ thread = "opening" /\ stopping
    /\ thread' = "stopped"
    /\ UNCHANGED <<repository, writer, batch, position, afterCommit, tx, db, history>>

\* The wait of half a second ends with nothing to do.
EmptyGet ==
    /\ thread = "idle" /\ queue = <<>>
    /\ thread' = "empty"
    /\ UNCHANGED <<repository, writer, batch, position, afterCommit, tx, db, history>>

GetFirst ==
    /\ thread = "idle" /\ queue # <<>>
    /\ batch' = <<Head(queue)>> /\ queue' = Tail(queue)
    /\ thread' = "collecting"
    /\ UNCHANGED <<repository, stopping, dropped, position, afterCommit, tx, db, history>>

\* The window after the first job: more jobs join the batch.
Collect ==
    /\ thread = "collecting" /\ ~stopping
    /\ Len(batch) < BatchSize /\ queue # <<>>
    /\ batch' = Append(batch, Head(queue)) /\ queue' = Tail(queue)
    /\ UNCHANGED <<repository, stopping, dropped, thread, position, afterCommit, tx, db, history>>

\* The head of the retry loop: nothing of an earlier try is left.
BeginTry ==
    /\ thread' = "running" /\ position' = 1 /\ afterCommit' = {} /\ tx' = db

Execute ==
    /\ thread = "collecting"
    /\ BeginTry
    /\ UNCHANGED <<repository, writer, batch, db, history>>

\* Between two gets: the purge is due, or is not.
StartPurge ==
    /\ thread = "timing"
    /\ batch' = <<JobOf("purge")>>
    /\ BeginTry
    /\ UNCHANGED <<repository, writer, db, history>>

PurgeNotDue ==
    /\ thread = "timing"
    /\ thread' = "idle"
    /\ UNCHANGED <<repository, writer, batch, position, afterCommit, tx, db, history>>

\* It then looks at the stop, and not at the queue again.
CarryOn ==
    /\ thread = "empty" /\ ~stopping
    /\ thread' = "timing"
    /\ UNCHANGED <<repository, writer, batch, position, afterCommit, tx, db, history>>

ExitWhenEmpty ==
    /\ thread = "empty" /\ stopping
    /\ thread' = "stopped"
    /\ UNCHANGED <<repository, writer, batch, position, afterCommit, tx, db, history>>

Running(kind) == thread = "running" /\ position <= Len(batch) /\ batch[position].kind = kind

\* Mutant of Take: a replay takes the buffer again.
TakeAgain ==
    /\ batch' = [batch EXCEPT ![position] = [kind |-> "flush", took |-> TRUE, taken |-> unsaved]]
    /\ unsaved' = {} /\ flushSubmitted' = FALSE

\* Mutant of Take: the mark of the deposited job is not reset.
TakeKeepsMark ==
    IF batch[position].took
    THEN UNCHANGED <<batch, unsaved, flushSubmitted>>
    ELSE /\ batch' = [batch EXCEPT ![position] = [kind |-> "flush", took |-> TRUE, taken |-> unsaved]]
         /\ unsaved' = {} /\ UNCHANGED flushSubmitted

\* A flush job takes the buffer when it runs for the first time only.
Take ==
    IF batch[position].took
    THEN UNCHANGED <<batch, unsaved, flushSubmitted>>
    ELSE /\ batch' = [batch EXCEPT ![position] = [kind |-> "flush", took |-> TRUE, taken |-> unsaved]]
         /\ unsaved' = {} /\ flushSubmitted' = FALSE

\* Mutant of RunFlushJob: the states are forgotten before the commit.
RunFlushJobForgets ==
    /\ Running("flush")
    /\ Take
    /\ tx' = Overlay(tx, batch'[position].taken)
    /\ pending' = Forget(batch'[position].taken)
    /\ position' = position + 1
    /\ UNCHANGED <<saver, writer, thread, afterCommit, db, history>>

RunFlushJob ==
    /\ Running("flush")
    /\ Take
    /\ tx' = Overlay(tx, batch'[position].taken)
    /\ afterCommit' = afterCommit \cup {position}
    /\ position' = position + 1
    /\ UNCHANGED <<pending, saver, writer, thread, db, history>>

\* Mutant of RunSignal: flush() returns before the commit.
RunSignalAtOnce ==
    /\ Running("signal")
    /\ flushed' = [flushed EXCEPT !.done = TRUE]
    /\ position' = position + 1
    /\ UNCHANGED <<repository, writer, thread, batch, afterCommit, tx, db,
                   clock, others, accepted, lost, written, hidden>>

RunSignal ==
    /\ Running("signal")
    /\ afterCommit' = afterCommit \cup {position}
    /\ position' = position + 1
    /\ UNCHANGED <<repository, writer, thread, batch, tx, db, history>>

RunOther ==
    /\ Running("other")
    /\ position' = position + 1
    /\ UNCHANGED <<repository, writer, thread, batch, afterCommit, tx, db, history>>

\* expire_before and cap_tracked_subjects remove rows.
RunPurge ==
    /\ Running("purge")
    /\ \E S \in SUBSET Subject : tx' = [s \in Subject |-> IF s \in S THEN 0 ELSE tx[s]]
    /\ position' = position + 1
    /\ UNCHANGED <<repository, writer, thread, batch, afterCommit, db, history>>

\* A job raises something else than an error of the database: it is given up
\* alone.  A flush job has taken its states by then.
DefectiveJob ==
    /\ thread = "running" /\ position <= Len(batch)
    /\ dropped < MaxDropped
    /\ dropped' = dropped + 1
    /\ IF batch[position].kind = "flush" THEN Take ELSE UNCHANGED <<batch, unsaved, flushSubmitted>>
    /\ position' = position + 1
    /\ UNCHANGED <<pending, saver, queue, stopping, thread, afterCommit, tx, db, history>>

TakenBy(jobs) == UNION {batch[i].taken : i \in jobs}

\* commit(): the states of the jobs given up alone are gone.
Commit ==
    /\ thread = "running" /\ position > Len(batch)
    /\ db' = tx
    /\ written' = [s \in Subject |-> _Newest(written[s], tx[s])]
    /\ lost' = lost \cup TakenBy(DOMAIN batch \ afterCommit)
    /\ thread' = "calling"
    /\ UNCHANGED <<repository, writer, batch, position, afterCommit, tx, clock, others, accepted, hidden, flushed>>

\* The first callback left: _forget_all of a flush job, or the signal.
RunCallback ==
    /\ thread = "calling"
    /\ \E i \in afterCommit :
        /\ \A j \in afterCommit : i <= j
        /\ afterCommit' = afterCommit \ {i}
        /\ pending' = Forget(batch[i].taken)
        /\ flushed' = IF batch[i].kind = "signal" THEN [flushed EXCEPT !.done = TRUE] ELSE flushed
    /\ UNCHANGED <<unsaved, flushSubmitted, saver, writer, thread, batch, position, tx, db,
                   clock, others, accepted, lost, written, hidden>>

\* The purge ends the turn of the loop, a batch of jobs comes before it.
AfterBatch == IF batch = <<JobOf("purge")>> THEN "idle" ELSE "timing"

\* Mutant of FinishBatch: callbacks may be left behind.
FinishBatchEarly ==
    /\ thread = "calling"
    /\ thread' = AfterBatch /\ batch' = <<>> /\ position' = 1
    /\ UNCHANGED <<repository, writer, afterCommit, tx, db, history>>

FinishBatch ==
    /\ thread = "calling" /\ afterCommit = {}
    /\ thread' = AfterBatch /\ batch' = <<>> /\ position' = 1
    /\ UNCHANGED <<repository, writer, afterCommit, tx, db, history>>

\* Mutant of RollBack: the failed jobs go back to the end of the queue.
RollBackRequeues ==
    /\ thread = "running"
    /\ queue' = queue \o batch /\ batch' = <<>>
    /\ thread' = "timing" /\ tx' = db /\ position' = 1 /\ afterCommit' = {}
    /\ UNCHANGED <<repository, stopping, dropped, db, history>>

\* An error of the database, in a job or in the commit: all is rolled back.
RollBack ==
    /\ thread = "running"
    /\ thread' = "pausing" /\ tx' = db /\ position' = 1 /\ afterCommit' = {}
    /\ UNCHANGED <<repository, writer, batch, db, history>>

\* Mutant of Retry: the pause does not look at the stop.
RetryAlways ==
    /\ thread = "pausing"
    /\ BeginTry
    /\ UNCHANGED <<repository, writer, batch, db, history>>

Retry ==
    /\ thread = "pausing" /\ ~stopping
    /\ BeginTry
    /\ UNCHANGED <<repository, writer, batch, db, history>>

\* The writer stops during the pause: the batch is given up and counted.
AbandonBatch ==
    /\ thread = "pausing" /\ stopping
    /\ dropped' = dropped + Len(batch)
    /\ lost' = lost \cup TakenBy(DOMAIN batch)
    /\ thread' = AfterBatch /\ batch' = <<>>
    /\ UNCHANGED <<repository, queue, stopping, position, afterCommit, tx, db, clock, others, accepted, written, hidden, flushed>>

-----------------------------------------------------------------------------
(* The process ends, at any moment: it is killed, or stop() has waited      *)
(* long enough and the daemon thread dies with the interpreter.  The next   *)
(* process finds the committed table.                                       *)
EndOfProcess ==
    /\ pending' = Empty /\ unsaved' = {} /\ flushSubmitted' = FALSE /\ saver' = "ready"
    /\ queue' = <<>> /\ stopping' = FALSE /\ dropped' = 0
    /\ thread' = "opening" /\ batch' = <<>> /\ position' = 1 /\ afterCommit' = {} /\ tx' = db
    /\ accepted' = {} /\ lost' = {} /\ hidden' = {}
    /\ flushed' = [called |-> FALSE, covers |-> {}, done |-> FALSE]
    /\ UNCHANGED <<db, clock, others, written>>

Loop ==
    \/ \E s \in Subject : SaveAccepted(s)
    \/ SaveRefused \/ SubmitFlushJob \/ DropBuffer \/ SubmitOther \/ CallFlush

Execution ==
    \/ RunFlushJob \/ RunSignal \/ RunOther \/ RunPurge \/ DefectiveJob
    \/ Commit \/ RunCallback \/ FinishBatch
    \/ RollBack \/ Retry \/ AbandonBatch

Thread ==
    \/ OpenConnection \/ GiveUpOpening \/ EmptyGet \/ GetFirst \/ Collect \/ Execute
    \/ CarryOn \/ ExitWhenEmpty \/ StartPurge \/ PurgeNotDue
    \/ Execution

Next == Loop \/ Stop \/ Thread \/ EndOfProcess

Spec == Init /\ [][Next]_vars

\* The loop and the thread never stop by themselves; a try ends, well or badly.
Fairness ==
    /\ WF_vars(SubmitFlushJob \/ DropBuffer)
    /\ WF_vars(OpenConnection \/ GiveUpOpening)
    /\ WF_vars(EmptyGet \/ GetFirst) /\ WF_vars(CarryOn \/ ExitWhenEmpty)
    /\ WF_vars(Execute) /\ WF_vars(StartPurge \/ PurgeNotDue)
    /\ WF_vars(RunFlushJob \/ RunSignal \/ RunOther \/ RunPurge \/ DefectiveJob \/ Commit \/ RollBack)
    /\ WF_vars(RunCallback \/ FinishBatch)
    /\ WF_vars(Retry \/ AbandonBatch)

FairSpec == Spec /\ Fairness

\* The base is not locked for ever: what is tried for ever succeeds once.
BaseRecovers ==
    /\ WF_vars(OpenConnection)
    /\ SF_vars(RunFlushJob) /\ SF_vars(RunSignal) /\ SF_vars(RunOther) /\ SF_vars(RunPurge) /\ SF_vars(Commit)

-----------------------------------------------------------------------------
(* Properties.                                                              *)

TypeOK ==
    /\ pending \in [Subject -> Nat] /\ unsaved \in SUBSET State
    /\ flushSubmitted \in BOOLEAN /\ saver \in {"ready", "submitting"}
    /\ queue \in Seq(Job) /\ stopping \in BOOLEAN /\ dropped \in Nat
    /\ thread \in {"opening", "idle", "empty", "timing", "collecting", "running", "calling", "pausing", "stopped"}
    /\ batch \in Seq(Job) /\ position \in Nat \ {0} /\ afterCommit \subseteq DOMAIN batch
    /\ tx \in [Subject -> Nat] /\ db \in [Subject -> Nat]
    /\ clock \in Nat /\ others \in Nat
    /\ accepted \in SUBSET State /\ lost \in SUBSET State
    /\ written \in [Subject -> Nat] /\ hidden \in SUBSET Subject
    /\ flushed \in [called : BOOLEAN, covers : SUBSET State, done : BOOLEAN]

\* The states on their way to the base: the buffer, and what the flush jobs of
\* the batch have taken.
InFlight == unsaved \cup TakenBy(DOMAIN batch)

Settled(x) == written[x.subject] >= x.stamp \/ x \in lost

\* The loop reads its own writes: what get returns for a subject is at least as
\* new as every state of it still on its way to the base, whatever the thread is
\* doing, unless its newest state was refused by a full queue.
ReadYourWrites ==
    \A x \in InFlight : x.subject \notin hidden => Get(x.subject) >= x.stamp

\* The same without the exception, as the module's documentation says it.
EveryPendingWriteIsVisible ==
    ~stopping => \A x \in InFlight : Get(x.subject) >= x.stamp

\* An accepted state is committed, or replaced by a newer committed one, or on
\* its way, or was given up by one of the paths that give up; and these are
\* counted: a writer that runs and has counted no abandoned job has lost nothing,
\* however many batches the base has refused.
NothingLostSilently ==
    /\ \A x \in accepted : Settled(x) \/ x \in InFlight
    /\ dropped = 0 /\ ~stopping => lost = {}

\* The table holds the newest state ever committed for a subject or, after a
\* purge, none: no replay and no later batch brings an older state back.
DatabaseNeverGoesBack == \A s \in Subject : db[s] \in {0, written[s]}

\* When flush() returns, all that was saved before its call is in the base or
\* was given up, as the comment in flush says.
FlushMeansStored == flushed.done => \A x \in flushed.covers : Settled(x)

\* The same for a writer that has not been told to stop.
FlushMeansStoredWhileRunning == ~stopping => FlushMeansStored

\* Once the thread has nothing left to do, no state is pending but those it has
\* given up: the memory of the process does not grow with the sources seen.
PendingDrains ==
    thread = "idle" /\ queue = <<>> /\ unsaved = {} =>
        \A s \in Subject : pending[s] # 0 => [subject |-> s, stamp |-> pending[s]] \in lost

\* Every accepted state reaches the base or is given up, while the writer runs
\* and the base comes back.
EveryStateSettles ==
    BaseRecovers => \A s \in Subject, n \in 1..MaxStamp :
        LET x == [subject |-> s, stamp |-> n] IN
        x \in accepted ~> (Settled(x) \/ stopping \/ x \notin accepted)

\* stop() ends the thread even when every transaction fails.
StopEndsTheThread == stopping ~> (thread = "stopped" \/ ~stopping)

\* The deferred writes implement the store of StateStore: no step of the thread
\* (take, commit, rollback, replay, callback) changes what the loop reads.
Store == INSTANCE StateStore WITH visible <- [s \in Subject |-> Get(s)], durable <- db, weak <- hidden

ImplementsStore == Store!Spec
=============================================================================
