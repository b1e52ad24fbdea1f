--------------------------- MODULE WriteBehindProofs ---------------------------
(***************************************************************************)
(* Proofs about the deferred writes of WriteBehind, for every set of       *)
(* subjects, every capacity and every size of a batch.                     *)
(***************************************************************************)
EXTENDS WriteBehind, FiniteSetTheorems, TLAPS

-----------------------------------------------------------------------------
(* The inductive invariant, one conjunct per idea.                          *)

\* What a job of the queue and of the batch can be.
JobsInv ==
    /\ \A i \in DOMAIN queue :
        queue[i].kind # "purge" /\ ~queue[i].took /\ queue[i].taken = {}
    /\ \A i \in DOMAIN batch :
        /\ batch[i].took => batch[i].kind = "flush"
        /\ ~batch[i].took => batch[i].taken = {}
        /\ batch[i].kind = "purge" => Len(batch) = 1

\* What the thread's place says of the batch and of the transaction.
PhaseInv ==
    /\ thread \in {"opening", "idle", "empty", "timing", "stopped"} => batch = <<>>
    /\ thread = "collecting" => \A i \in DOMAIN batch : batch[i].kind # "purge"
    /\ position \in 1..(Len(batch) + 1)
    /\ thread # "running" => tx = db
    /\ thread \notin {"running", "calling"} => position = 1 /\ afterCommit = {}
    /\ thread = "running" => \A i \in afterCommit : i < position
    /\ thread = "running" =>
        \A i \in DOMAIN batch : i < position /\ batch[i].kind = "flush" => batch[i].took
    /\ thread = "calling" =>
        \A i \in DOMAIN batch : batch[i].kind = "flush" => batch[i].took

\* The jobs of the batch take the buffer in the order of the batch, so what a
\* job has taken is older than what the next ones take and than the buffer.
OrderInv ==
    /\ \A i, j \in DOMAIN batch :
        i < j /\ batch[j].took /\ batch[i].kind = "flush" => batch[i].took
    /\ \A i, j \in DOMAIN batch :
        i < j => \A x \in batch[i].taken, y \in batch[j].taken : x.stamp < y.stamp
    /\ \A i \in DOMAIN batch : \A x \in batch[i].taken, y \in unsaved : x.stamp < y.stamp

\* No stamp is ahead of the clock.
ClockInv ==
    /\ \A x \in unsaved : x.stamp \in 1..clock
    /\ \A i \in DOMAIN batch : \A x \in batch[i].taken : x.stamp \in 1..clock
    /\ \A s \in Subject : pending[s] <= clock /\ written[s] <= clock

\* What is on its way is newer than what was ever committed.
NewerInv ==
    /\ \A x \in unsaved : written[x.subject] < x.stamp
    /\ thread # "calling" =>
        \A i \in DOMAIN batch : \A x \in batch[i].taken : written[x.subject] < x.stamp

\* Where the rows of the committed and of the open table come from.
TableInv ==
    /\ \A s \in Subject : db[s] \in {0, written[s]}
    /\ \A s \in Subject :
        \/ tx[s] \in {0, db[s]}
        \/ \E i \in DOMAIN batch : [subject |-> s, stamp |-> tx[s]] \in batch[i].taken
    /\ (\A i \in DOMAIN batch : batch[i].kind # "purge") => \A s \in Subject : tx[s] >= db[s]
    /\ \A i \in afterCommit : \A x \in batch[i].taken : tx[x.subject] >= x.stamp

\* A pending entry is the newest state of its subject; it is there as long as a
\* state of the subject is on its way, but for the hidden subjects.
PendingInv ==
    /\ \A s \in Subject : pending[s] # 0 => written[s] <= pending[s]
    /\ \A x \in unsaved : pending[x.subject] # 0 => x.stamp <= pending[x.subject]
    /\ \A x \in unsaved : x.subject \notin hidden => x.stamp <= pending[x.subject]
    /\ \A i \in DOMAIN batch : \A x \in batch[i].taken :
        pending[x.subject] # 0 => x.stamp <= pending[x.subject]
    /\ \A i \in DOMAIN batch : \A x \in batch[i].taken :
        x.subject \notin hidden =>
            IF thread = "calling" THEN x.stamp <= Get(x.subject) ELSE x.stamp <= pending[x.subject]

\* An accepted state is settled or on its way, and a committed batch is settled.
SettleInv ==
    /\ \A x \in accepted :
        Settled(x) \/ x \in unsaved \/ \E i \in DOMAIN batch : x \in batch[i].taken
    /\ thread = "calling" => \A i \in DOMAIN batch : \A x \in batch[i].taken : Settled(x)

IInv ==
    /\ TypeOK /\ JobsInv /\ PhaseInv /\ OrderInv /\ ClockInv
    /\ NewerInv /\ TableInv /\ PendingInv /\ SettleInv

\* A non-empty set of bounded naturals has a greatest element.
LEMMA MaxExists ==
    ASSUME NEW m \in Nat, NEW T \in SUBSET (0..m), T # {}
    PROVE  \E x \in T : \A y \in T : y <= x
<1> DEFINE I == 0..m
           Above(x) == {t \in T : t > x}
           U == {Above(x) : x \in T}
<1>1. U \subseteq SUBSET I /\ U # {}
  OBVIOUS
<1>2. IsWellFoundedOn(StrictSubsetOrdering(I), SUBSET I)
  <2>1. IsFiniteSet(I)
    BY FS_Interval
  <2> HIDE DEF I
  <2>2. FiniteSubsetsOf(I) = SUBSET I
    BY <2>1, FS_FiniteSubsetsOfFinite
  <2>3. IsWellFoundedOn(StrictSubsetOrdering(I), FiniteSubsetsOf(I))
    BY FS_StrictSubsetOrderingWellFounded
  <2> QED BY <2>2, <2>3
<1>3. \E a \in U : \A b \in U : ~ (<<b, a>> \in StrictSubsetOrdering(I))
  <2> HIDE DEF U, I
  <2> QED BY <1>1, <1>2, WFMin
<1>4. PICK x \in T : \A y \in T : ~ (<<Above(y), Above(x)>> \in StrictSubsetOrdering(I))
  BY <1>3
<1>5. ASSUME NEW y \in T, y > x PROVE FALSE
  <2>1. y \in Above(x) /\ y \notin Above(y)
    BY <1>5
  <2>2. Above(y) \subseteq Above(x)
    <3>1. \A t \in T : t \in Int /\ x \in Int /\ y \in Int
      OBVIOUS
    <3>2. \A t \in T : t > y => t > x
      BY <1>5, <3>1
    <3> QED BY <3>2
  <2>3. Above(y) \in SUBSET I /\ Above(x) \in SUBSET I
    OBVIOUS
  <2> HIDE DEF Above, I
  <2>4. <<Above(y), Above(x)>> \in StrictSubsetOrdering(I)
    BY <2>1, <2>2, <2>3 DEF StrictSubsetOrdering
  <2> QED BY <2>4, <1>4
<1> QED BY <1>5

\* save_many writes, for each subject it has states of, the newest of them.
LEMMA OverlayFacts ==
    ASSUME NEW table \in [Subject -> Nat], NEW S \in SUBSET State, NEW m \in Nat,
           \A x \in S : x.stamp \in 1..m
    PROVE  /\ Overlay(table, S) \in [Subject -> Nat]
           /\ \A s \in Subject :
                \/ \E x \in S : /\ x.subject = s /\ x.stamp = Overlay(table, S)[s]
                                /\ \A y \in S : y.subject = s => y.stamp <= x.stamp
                \/ /\ \A x \in S : x.subject # s
                   /\ Overlay(table, S)[s] = table[s]
<1> DEFINE Newest(s, x) == x.subject = s /\ \A y \in S : y.subject = s => y.stamp <= x.stamp
<1>1. ASSUME NEW s \in Subject, \E x \in S : x.subject = s
      PROVE  \E x \in S : Newest(s, x)
  <2> DEFINE T == {y.stamp : y \in {z \in S : z.subject = s}}
  <2>1. T \in SUBSET (0..m) /\ T # {}
    BY <1>1
  <2> HIDE DEF T
  <2>2. PICK n \in T : \A k \in T : k <= n
    BY <2>1, MaxExists
  <2> USE DEF T
  <2>3. PICK x \in S : x.subject = s /\ x.stamp = n
    OBVIOUS
  <2> QED BY <2>2, <2>3
<1>2. ASSUME NEW s \in Subject, \E x \in S : x.subject = s
      PROVE  \E x \in S : Newest(s, x) /\ x.stamp = Overlay(table, S)[s]
  <2> DEFINE c == CHOOSE x \in S : Newest(s, x)
  <2>1. c \in S /\ Newest(s, c)
    BY <1>1, <1>2
  <2>2. Overlay(table, S)[s] = c.stamp
    BY <1>2 DEF Overlay
  <2> HIDE DEF c
  <2> QED BY <2>1, <2>2
<1>3. ASSUME NEW s \in Subject, ~ \E x \in S : x.subject = s
      PROVE  Overlay(table, S)[s] = table[s]
  BY <1>3 DEF Overlay
<1>4. \A s \in Subject : Overlay(table, S)[s] \in Nat
  BY <1>2, <1>3 DEF State
<1>5. Overlay(table, S) = [s \in Subject |-> Overlay(table, S)[s]]
  BY DEF Overlay
<1>6. Overlay(table, S) \in [Subject -> Nat]
  BY <1>4, <1>5
<1> QED BY <1>2, <1>3, <1>6

\* What the conjuncts of the invariant say of one job of the batch.
LEMMA BatchTypes ==
    ASSUME TypeOK, NEW i \in DOMAIN batch
    PROVE  /\ i \in Nat /\ i >= 1 /\ i <= Len(batch)
           /\ batch[i] \in Job /\ batch[i].taken \subseteq State
           /\ \A x \in batch[i].taken : x.subject \in Subject /\ x.stamp \in Nat
           /\ \A x \in batch[i].taken : x = [subject |-> x.subject, stamp |-> x.stamp]
<1>1. batch \in Seq(Job)
  BY DEF TypeOK
<1>2. i \in 1..Len(batch) /\ batch[i] \in Job
  BY <1>1
<1>3. batch[i].taken \subseteq State
  BY <1>2 DEF Job
<1> QED BY <1>1, <1>2, <1>3 DEF State


\* A job that joins the batch has taken nothing.
LEMMA CollectingInv ==
    ASSUME IInv, GetFirst \/ Collect
    PROVE  IInv'
<1> DEFINE last == Len(batch) + 1
<1>1. /\ queue \in Seq(Job) /\ queue # <<>> /\ batch \in Seq(Job)
      /\ thread \in {"idle", "collecting"} /\ position = 1 /\ afterCommit = {}
      /\ thread' = "collecting"
      /\ UNCHANGED <<pending, unsaved, flushSubmitted, saver, stopping, dropped, position, afterCommit,
                     tx, db, clock, others, accepted, lost, written, hidden, flushed>>
  BY DEF IInv, TypeOK, PhaseInv, GetFirst, Collect, repository, history
<1>2. batch' = Append(batch, Head(queue)) /\ queue' = Tail(queue)
  <2>1. CASE GetFirst
    <3>1. batch = <<>>
      BY <2>1 DEF IInv, PhaseInv, GetFirst
    <3>2. Append(<<>>, Head(queue)) = <<Head(queue)>>
      BY <1>1
    <3> QED BY <2>1, <3>1, <3>2 DEF GetFirst
  <2>2. CASE Collect
    BY <2>2 DEF Collect
  <2> QED BY <2>1, <2>2
<1>3. Head(queue) \in Job /\ queue' \in Seq(Job) /\ batch' \in Seq(Job)
  <2>1. Head(queue) \in Job /\ Tail(queue) \in Seq(Job)
    BY <1>1
  <2> QED BY <1>1, <1>2, <2>1
<1>4. Head(queue).kind # "purge" /\ ~Head(queue).took /\ Head(queue).taken = {}
  <2>1. Head(queue) = queue[1] /\ 1 \in DOMAIN queue
    BY <1>1
  <2> QED BY <2>1 DEF IInv, JobsInv
<1>5. /\ Len(batch') = last /\ DOMAIN batch' = DOMAIN batch \cup {last}
      /\ \A i \in DOMAIN batch : batch'[i] = batch[i] /\ i # last /\ i < last
      /\ batch'[last] = Head(queue) /\ last \in Nat
  BY <1>1, <1>2
<1>6. \A i \in DOMAIN queue' : i + 1 \in DOMAIN queue /\ queue'[i] = queue[i + 1]
  BY <1>1, <1>2
<1>7. batch'[last].kind # "purge" /\ ~batch'[last].took /\ batch'[last].taken = {}
  BY <1>4, <1>5
<1> HIDE DEF last
<1>10. TypeOK'
  <2>1. afterCommit' \subseteq DOMAIN batch'
    BY <1>1
  <2> QED BY <1>1, <1>3, <2>1 DEF IInv, TypeOK
<1>11. JobsInv'
  <2>1. \A i \in DOMAIN batch : batch[i].kind # "purge"
    BY <1>1, <1>2 DEF IInv, PhaseInv
  <2> QED BY <1>5, <1>6, <1>7, <2>1 DEF IInv, JobsInv
<1>12. PhaseInv'
  <2>1. \A i \in DOMAIN batch : batch[i].kind # "purge"
    BY <1>1, <1>2 DEF IInv, PhaseInv
  <2>2. position' \in 1..(Len(batch') + 1)
    BY <1>1, <1>5
  <2>3. tx' = db'
    BY <1>1 DEF IInv, PhaseInv
  <2>4. \A i \in DOMAIN batch' : batch'[i].kind # "purge"
    BY <2>1, <1>5, <1>7
  <2> QED BY <1>1, <2>2, <2>3, <2>4 DEF PhaseInv
<1>13. OrderInv'
  BY <1>1, <1>5, <1>7 DEF IInv, OrderInv
<1>14. ClockInv'
  BY <1>1, <1>5, <1>7 DEF IInv, ClockInv
<1>15. NewerInv'
  BY <1>1, <1>5, <1>7 DEF IInv, NewerInv
<1>16. TableInv'
  <2>1. tx' = db' /\ tx = db /\ db' \in [Subject -> Nat]
    BY <1>1 DEF IInv, PhaseInv, TypeOK
  <2> QED BY <1>1, <2>1 DEF IInv, TableInv
<1>17. PendingInv'
  BY <1>1, <1>5, <1>7 DEF IInv, PendingInv
<1>18. SettleInv'
  BY <1>1, <1>5, <1>7 DEF IInv, SettleInv, Settled
<1> QED BY <1>10, <1>11, <1>12, <1>13, <1>14, <1>15, <1>16, <1>17, <1>18 DEF IInv

\* What taking the buffer changes: the job that runs has taken all of it.
LEMMA TakeFacts ==
    ASSUME IInv, thread = "running", position \in DOMAIN batch, batch[position].kind = "flush", Take
    PROVE  /\ batch' \in Seq(Job) /\ unsaved' \in SUBSET State /\ flushSubmitted' \in BOOLEAN
           /\ Len(batch') = Len(batch) /\ DOMAIN batch' = DOMAIN batch
           /\ \A i \in DOMAIN batch : batch'[i].kind = batch[i].kind
           /\ \A i \in DOMAIN batch : i # position => batch'[i] = batch[i]
           /\ batch'[position].took
           /\ \/ batch'[position] = batch[position] /\ batch[position].took /\ unsaved' = unsaved
              \/ /\ batch'[position].taken = unsaved /\ unsaved' = {}
                 /\ ~batch[position].took /\ batch[position].taken = {}
                 /\ \A i \in DOMAIN batch : i > position => ~batch[i].took /\ batch[i].taken = {}
<1>1. batch \in Seq(Job) /\ unsaved \in SUBSET State /\ flushSubmitted \in BOOLEAN /\ position \in Nat
  BY DEF IInv, TypeOK
<1>2. CASE batch[position].took
  <2>1. batch' = batch /\ unsaved' = unsaved /\ flushSubmitted' = flushSubmitted
    BY <1>2 DEF Take
  <2> QED BY <1>1, <1>2, <2>1
<1>3. CASE ~batch[position].took
  <2> DEFINE job == [kind |-> "flush", took |-> TRUE, taken |-> unsaved]
  <2>1. batch' = [batch EXCEPT ![position] = job] /\ unsaved' = {} /\ flushSubmitted' = FALSE
    BY <1>3 DEF Take
  <2>2. job \in Job
    BY <1>1 DEF Job
  <2>3. job.kind = "flush" /\ job.took /\ job.taken = unsaved
    OBVIOUS
  <2> HIDE DEF job
  <2>4. /\ batch' \in Seq(Job) /\ Len(batch') = Len(batch) /\ DOMAIN batch' = DOMAIN batch
        /\ \A i \in DOMAIN batch : i # position => batch'[i] = batch[i]
        /\ batch'[position] = job
    BY <1>1, <2>1, <2>2
  <2>5. \A i \in DOMAIN batch : ~batch[i].took => batch[i].taken = {}
    BY DEF IInv, JobsInv
  <2>6. \A i \in DOMAIN batch : i > position => ~batch[i].took
    BY <1>1, <1>3 DEF IInv, OrderInv
  <2> QED BY <1>1, <1>3, <2>1, <2>3, <2>4, <2>5, <2>6
<1> QED BY <1>2, <1>3

\* Taking the buffer moves its states, in order, from the buffer to the batch.
LEMMA TakeKeeps ==
    ASSUME IInv, thread = "running", position \in DOMAIN batch, batch[position].kind = "flush", Take,
           UNCHANGED <<pending, queue, thread, db, clock, accepted, lost, written, hidden>>
    PROVE  JobsInv' /\ OrderInv' /\ ClockInv' /\ NewerInv' /\ PendingInv' /\ SettleInv'
<1>1. /\ batch \in Seq(Job) /\ position \in Nat
      /\ \A i \in DOMAIN batch : i < position /\ batch[i].kind = "flush" => batch[i].took
  BY DEF IInv, TypeOK, PhaseInv
<1> DEFINE Moved == /\ batch'[position].taken = unsaved /\ unsaved' = {}
                    /\ ~batch[position].took /\ batch[position].taken = {}
                    /\ \A i \in DOMAIN batch : i > position => ~batch[i].took /\ batch[i].taken = {}
           Same == batch'[position] = batch[position] /\ batch[position].took /\ unsaved' = unsaved
<1>2. /\ Len(batch') = Len(batch) /\ DOMAIN batch' = DOMAIN batch
      /\ \A i \in DOMAIN batch : batch'[i].kind = batch[i].kind
      /\ \A i \in DOMAIN batch : i # position => batch'[i] = batch[i]
      /\ batch'[position].took
  BY TakeFacts
<1>3. Same \/ Moved
  BY TakeFacts
<1>4. CASE Same
  <2>1. unsaved' = unsaved /\ \A i \in DOMAIN batch : batch'[i] = batch[i]
    BY <1>2, <1>4
  <2>2. JobsInv'
    BY <1>2, <2>1 DEF IInv, JobsInv
  <2>3. OrderInv'
    BY <1>2, <2>1 DEF IInv, OrderInv
  <2>4. ClockInv'
    BY <1>2, <2>1 DEF IInv, ClockInv
  <2>5. NewerInv'
    BY <1>2, <2>1 DEF IInv, NewerInv
  <2>6. PendingInv'
    BY <1>2, <2>1 DEF IInv, PendingInv
  <2>7. SettleInv'
    BY <1>2, <2>1 DEF IInv, SettleInv, Settled
  <2> QED BY <2>2, <2>3, <2>4, <2>5, <2>6, <2>7
<1>5. CASE Moved
  <2>1. JobsInv'
    BY <1>2, <1>5 DEF IInv, JobsInv
  <2>2. OrderInv'
    <3>1. \A i, j \in DOMAIN batch' :
              i < j /\ batch'[j].took /\ batch'[i].kind = "flush" => batch'[i].took
      BY <1>1, <1>2, <1>5 DEF IInv, OrderInv
    <3>2. \A i, j \in DOMAIN batch' :
              i < j => \A x \in batch'[i].taken, y \in batch'[j].taken : x.stamp < y.stamp
      BY <1>1, <1>2, <1>5 DEF IInv, OrderInv
    <3> QED BY <1>5, <3>1, <3>2 DEF OrderInv
  <2>3. ClockInv'
    BY <1>2, <1>5 DEF IInv, ClockInv
  <2>4. NewerInv'
    BY <1>2, <1>5 DEF IInv, NewerInv
  <2>5. PendingInv'
    BY <1>2, <1>5 DEF IInv, PendingInv
  <2>6. SettleInv'
    BY <1>2, <1>5 DEF IInv, SettleInv, Settled
  <2> QED BY <2>1, <2>2, <2>3, <2>4, <2>5, <2>6
<1> QED BY <1>3, <1>4, <1>5

\* A flush job that runs overwrites rows with newer states only.
LEMMA RunFlushJobInv ==
    ASSUME IInv, RunFlushJob
    PROVE  IInv'
<1> DEFINE S == batch'[position].taken
<1>1. /\ thread = "running" /\ position \in DOMAIN batch /\ batch[position].kind = "flush" /\ Take
      /\ position \in Nat /\ batch \in Seq(Job) /\ afterCommit \subseteq DOMAIN batch
      /\ UNCHANGED <<pending, saver, queue, stopping, dropped, thread, db,
                     clock, others, accepted, lost, written, hidden, flushed>>
      /\ tx' = Overlay(tx, S) /\ afterCommit' = afterCommit \cup {position} /\ position' = position + 1
  BY DEF IInv, TypeOK, RunFlushJob, Running, writer, history
<1>2. /\ batch' \in Seq(Job) /\ unsaved' \in SUBSET State /\ flushSubmitted' \in BOOLEAN
      /\ Len(batch') = Len(batch) /\ DOMAIN batch' = DOMAIN batch
      /\ \A i \in DOMAIN batch : batch'[i].kind = batch[i].kind
      /\ \A i \in DOMAIN batch : i # position => batch'[i] = batch[i]
      /\ batch'[position].took
      /\ \/ batch'[position] = batch[position] /\ batch[position].took /\ unsaved' = unsaved
         \/ batch'[position].taken = unsaved /\ unsaved' = {} /\ batch[position].taken = {}
  BY <1>1, TakeFacts
<1>3. JobsInv' /\ OrderInv' /\ ClockInv' /\ NewerInv' /\ PendingInv' /\ SettleInv'
  BY <1>1, TakeKeeps
<1>4. /\ tx \in [Subject -> Nat] /\ db \in [Subject -> Nat] /\ written \in [Subject -> Nat] /\ clock \in Nat
      /\ S \in SUBSET State /\ \A x \in S : x.stamp \in 1..clock
  <2>1. batch'[position] \in Job
    BY <1>1, <1>2
  <2>2. S \in SUBSET State
    BY <2>1 DEF Job
  <2>3. \A x \in S : x.stamp \in 1..clock'
    BY <1>1, <1>2, <1>3 DEF ClockInv
  <2> QED BY <1>1, <2>2, <2>3 DEF IInv, TypeOK
<1>5. /\ tx' \in [Subject -> Nat]
      /\ \A s \in Subject :
            \/ \E x \in S : /\ x.subject = s /\ x.stamp = tx'[s]
                            /\ \A y \in S : y.subject = s => y.stamp <= x.stamp
            \/ (\A x \in S : x.subject # s) /\ tx'[s] = tx[s]
  <2> HIDE DEF S
  <2>1. /\ Overlay(tx, S) \in [Subject -> Nat]
        /\ \A s \in Subject :
              \/ \E x \in S : /\ x.subject = s /\ x.stamp = Overlay(tx, S)[s]
                              /\ \A y \in S : y.subject = s => y.stamp <= x.stamp
              \/ (\A x \in S : x.subject # s) /\ Overlay(tx, S)[s] = tx[s]
    BY <1>4, OverlayFacts
  <2> QED BY <1>1, <2>1
<1> HIDE DEF S
<1>6. TypeOK'
  <2>1. afterCommit' \subseteq DOMAIN batch' /\ position' \in Nat \ {0}
    BY <1>1, <1>2
  <2> QED BY <1>1, <1>2, <1>5, <2>1 DEF IInv, TypeOK
<1>7. PhaseInv'
  <2>1. position' \in 1..(Len(batch') + 1)
    BY <1>1, <1>2
  <2>2. \A i \in afterCommit' : i < position'
    BY <1>1 DEF IInv, PhaseInv
  <2>3. \A i \in DOMAIN batch' : i < position' /\ batch'[i].kind = "flush" => batch'[i].took
    BY <1>1, <1>2 DEF IInv, PhaseInv
  <2> QED BY <1>1, <2>1, <2>2, <2>3 DEF PhaseInv
<1>8. TableInv'
  <2>1. \A i \in DOMAIN batch : batch[i].taken \subseteq batch'[i].taken
    BY <1>2 DEF S
  <2>2. \A s \in Subject : db'[s] \in {0, written'[s]}
    BY <1>1 DEF IInv, TableInv
  <2>3. ASSUME NEW s \in Subject
        PROVE  \/ tx'[s] \in {0, db'[s]}
               \/ \E i \in DOMAIN batch' : [subject |-> s, stamp |-> tx'[s]] \in batch'[i].taken
    <3>1. CASE \E x \in S : x.subject = s /\ x.stamp = tx'[s]
      <4>1. PICK x \in S : x.subject = s /\ x.stamp = tx'[s]
        BY <3>1
      <4>2. x = [subject |-> s, stamp |-> tx'[s]]
        BY <1>4, <4>1 DEF State
      <4> QED BY <1>1, <1>2, <4>2 DEF S
    <3>2. CASE tx'[s] = tx[s]
      BY <1>1, <1>2, <2>1, <3>2 DEF IInv, TableInv
    <3> QED BY <1>5, <3>1, <3>2
  <2>4. ASSUME \A i \in DOMAIN batch' : batch'[i].kind # "purge", NEW s \in Subject
        PROVE  tx'[s] >= db'[s]
    <3>1. tx[s] >= db[s]
      BY <1>2, <2>4 DEF IInv, TableInv
    <3>2. \A x \in S : written[x.subject] < x.stamp
      BY <1>1, <1>2 DEF IInv, NewerInv, S
    <3>3. db[s] <= written[s]
      BY <1>4 DEF IInv, TableInv
    <3>4. CASE \E x \in S : x.subject = s /\ x.stamp = tx'[s]
      <4>1. PICK x \in S : x.subject = s /\ x.stamp = tx'[s]
        BY <3>4
      <4>2. written[s] < tx'[s]
        BY <3>2, <4>1
      <4> QED BY <1>1, <1>4, <1>5, <3>3, <4>2
    <3>5. CASE tx'[s] = tx[s]
      BY <1>1, <3>1, <3>5
    <3> QED BY <1>5, <3>4, <3>5
  <2>5. ASSUME NEW i \in afterCommit', NEW x \in batch'[i].taken
        PROVE  tx'[x.subject] >= x.stamp
    <3>1. i \in DOMAIN batch' /\ batch'[i] \in Job /\ x \in State /\ x.subject \in Subject /\ x.stamp \in Nat
      <4>1. i \in DOMAIN batch'
        BY <1>1, <1>2
      <4>2. batch'[i] \in Job
        BY <1>2, <4>1
      <4> QED BY <4>1, <4>2 DEF Job, State
    <3>2. CASE i = position
      BY <1>4, <1>5, <3>1, <3>2 DEF S, State
    <3>3. CASE i # position
      <4>1. i \in afterCommit /\ i < position /\ batch'[i] = batch[i]
        BY <1>1, <1>2, <3>1, <3>3 DEF IInv, PhaseInv
      <4>2. tx[x.subject] >= x.stamp
        BY <4>1 DEF IInv, TableInv
      <4>3. \A y \in S : x.stamp < y.stamp
        BY <1>1, <1>2, <1>3, <3>1, <4>1 DEF OrderInv, S
      <4> QED BY <1>4, <1>5, <3>1, <4>2, <4>3 DEF State
    <3> QED BY <3>2, <3>3
  <2> QED BY <2>2, <2>3, <2>4, <2>5 DEF TableInv
<1> QED BY <1>3, <1>6, <1>7, <1>8 DEF IInv

\* A defective flush job has taken the buffer and writes nothing.
LEMMA DefectiveJobInv ==
    ASSUME IInv, DefectiveJob
    PROVE  IInv'
<1>1. /\ thread = "running" /\ position \in DOMAIN batch /\ position \in Nat /\ batch \in Seq(Job)
      /\ afterCommit \subseteq DOMAIN batch
      /\ UNCHANGED <<pending, saver, queue, stopping, thread, afterCommit, tx, db,
                     clock, others, accepted, lost, written, hidden, flushed>>
      /\ dropped' = dropped + 1 /\ position' = position + 1
  BY DEF IInv, TypeOK, DefectiveJob, history
<1>2. CASE batch[position].kind = "flush"
  <2>1. Take
    BY <1>2 DEF DefectiveJob
  <2>2. /\ batch' \in Seq(Job) /\ unsaved' \in SUBSET State /\ flushSubmitted' \in BOOLEAN
        /\ Len(batch') = Len(batch) /\ DOMAIN batch' = DOMAIN batch
        /\ \A i \in DOMAIN batch : batch'[i].kind = batch[i].kind
        /\ \A i \in DOMAIN batch : i # position => batch'[i] = batch[i]
        /\ batch'[position].took
    BY <1>1, <1>2, <2>1, TakeFacts
  <2>3. \A i \in DOMAIN batch : batch[i].taken \subseteq batch'[i].taken
    BY <1>1, <1>2, <2>1, TakeFacts
  <2>4. \A i \in afterCommit : i # position /\ i < position
    BY <1>1 DEF IInv, PhaseInv
  <2>5. JobsInv' /\ OrderInv' /\ ClockInv' /\ NewerInv' /\ PendingInv' /\ SettleInv'
    BY <1>1, <1>2, <2>1, TakeKeeps
  <2>6. TypeOK'
    <3>1. afterCommit' \subseteq DOMAIN batch' /\ position' \in Nat \ {0}
      BY <1>1, <2>2
    <3> QED BY <1>1, <2>2, <3>1 DEF IInv, TypeOK
  <2>7. PhaseInv'
    <3>1. position' \in 1..(Len(batch') + 1)
      BY <1>1, <2>2
    <3>2. \A i \in afterCommit' : i < position'
      BY <1>1, <2>4
    <3>3. \A i \in DOMAIN batch' : i < position' /\ batch'[i].kind = "flush" => batch'[i].took
      BY <1>1, <2>2 DEF IInv, PhaseInv
    <3> QED BY <1>1, <3>1, <3>2, <3>3 DEF PhaseInv
  <2>8. TableInv'
    BY <1>1, <2>2, <2>3, <2>4 DEF IInv, TableInv
  <2> QED BY <2>5, <2>6, <2>7, <2>8 DEF IInv
<1>3. CASE batch[position].kind # "flush"
  <2>1. UNCHANGED <<batch, unsaved, flushSubmitted>>
    BY <1>3 DEF DefectiveJob
  <2>2. TypeOK'
    BY <1>1, <2>1 DEF IInv, TypeOK
  <2>3. JobsInv'
    BY <1>1, <2>1 DEF IInv, JobsInv
  <2>4. PhaseInv'
    BY <1>1, <1>3, <2>1 DEF IInv, PhaseInv
  <2>5. OrderInv' /\ ClockInv' /\ NewerInv' /\ TableInv'
    BY <1>1, <2>1 DEF IInv, OrderInv, ClockInv, NewerInv, TableInv
  <2>6. PendingInv'
    BY <1>1, <2>1 DEF IInv, PendingInv, Get
  <2>7. SettleInv'
    BY <1>1, <2>1 DEF IInv, SettleInv, Settled
  <2> QED BY <2>2, <2>3, <2>4, <2>5, <2>6, <2>7 DEF IInv
<1> QED BY <1>2, <1>3

\* The commit: the newest stamp ever committed follows the table.
LEMMA CommitInv ==
    ASSUME IInv, Commit
    PROVE  IInv'
<1>1. /\ thread = "running" /\ position > Len(batch) /\ thread' = "calling" /\ db' = tx
      /\ written' = [s \in Subject |-> _Newest(written[s], tx[s])]
      /\ lost' = lost \cup TakenBy(DOMAIN batch \ afterCommit)
      /\ UNCHANGED <<pending, unsaved, flushSubmitted, saver, queue, stopping, dropped, batch, position,
                     afterCommit, tx, clock, others, accepted, hidden, flushed>>
      /\ tx \in [Subject -> Nat] /\ db \in [Subject -> Nat] /\ written \in [Subject -> Nat]
      /\ clock \in Nat /\ pending \in [Subject -> Nat] /\ unsaved \in SUBSET State
      /\ batch \in Seq(Job) /\ position \in Nat
  BY DEF IInv, TypeOK, Commit, repository, writer
<1>2. \A i \in DOMAIN batch : \A x \in batch[i].taken :
          x \in State /\ x.subject \in Subject /\ x.stamp \in Nat
  BY BatchTypes DEF IInv
<1>3. /\ written' \in [Subject -> Nat] /\ db' \in [Subject -> Nat]
      /\ \A s \in Subject : written'[s] = _Newest(written[s], db'[s])
  BY <1>1 DEF _Newest
<1>4. \A s \in Subject :
         /\ written'[s] >= written[s] /\ written'[s] >= tx[s]
         /\ written'[s] \in {written[s], tx[s]}
  BY <1>1, <1>3 DEF _Newest
<1>5. ASSUME NEW s \in Subject
      PROVE  \/ tx[s] <= written[s]
             \/ \E i \in DOMAIN batch : \E x \in batch[i].taken : x.subject = s /\ x.stamp = tx[s]
  <2>1. CASE tx[s] \in {0, db[s]}
    BY <1>1, <2>1 DEF IInv, TableInv
  <2>2. CASE \E i \in DOMAIN batch : [subject |-> s, stamp |-> tx[s]] \in batch[i].taken
    BY <2>2
  <2> QED BY <2>1, <2>2 DEF IInv, TableInv
<1>6. TypeOK'
  <2>1. TakenBy(DOMAIN batch \ afterCommit) \subseteq State
    BY <1>2 DEF TakenBy
  <2>2. lost' \in SUBSET State
    BY <1>1, <2>1 DEF IInv, TypeOK
  <2> QED BY <1>1, <1>3, <2>2 DEF IInv, TypeOK
<1>7. JobsInv'
  BY <1>1 DEF IInv, JobsInv
<1>8. PhaseInv'
  BY <1>1 DEF IInv, PhaseInv
<1>9. OrderInv'
  BY <1>1 DEF IInv, OrderInv
<1>10. ClockInv'
  <2>1. ASSUME NEW s \in Subject
        PROVE  tx[s] <= clock
    <3>1. CASE tx[s] <= written[s]
      <4>1. written[s] <= clock
        BY DEF IInv, ClockInv
      <4> QED BY <1>1, <3>1, <4>1
    <3>2. CASE \E i \in DOMAIN batch : \E x \in batch[i].taken : x.subject = s /\ x.stamp = tx[s]
      BY <1>1, <3>2 DEF IInv, ClockInv
    <3> QED BY <1>5, <3>1, <3>2
  <2>2. \A s \in Subject : written'[s] <= clock
    BY <2>1, <1>4 DEF IInv, ClockInv
  <2> QED BY <1>1, <2>2 DEF IInv, ClockInv
<1>11. NewerInv'
  <2>1. ASSUME NEW x \in unsaved
        PROVE  written'[x.subject] < x.stamp
    <3>1. x.subject \in Subject /\ x.stamp \in Nat
      BY <1>1 DEF State
    <3>2. written[x.subject] < x.stamp
      BY DEF IInv, NewerInv
    <3>3. tx[x.subject] < x.stamp
      <4>1. CASE tx[x.subject] <= written[x.subject]
        BY <1>1, <3>1, <3>2, <4>1
      <4>2. CASE \E i \in DOMAIN batch : \E y \in batch[i].taken : y.subject = x.subject /\ y.stamp = tx[x.subject]
        BY <4>2 DEF IInv, OrderInv
      <4> QED BY <1>5, <3>1, <4>1, <4>2
    <3> QED BY <1>4, <3>1, <3>2, <3>3
  <2> QED BY <1>1, <2>1 DEF NewerInv
<1>12. TableInv'
  <2>1. ASSUME NEW s \in Subject
        PROVE  tx[s] \in {0, written'[s]}
    <3>1. CASE tx[s] \in {0, db[s]}
      <4>1. db[s] \in {0, written[s]}
        BY DEF IInv, TableInv
      <4> QED BY <1>1, <1>4, <3>1, <4>1
    <3>2. CASE \E i \in DOMAIN batch : [subject |-> s, stamp |-> tx[s]] \in batch[i].taken
      <4>1. written[s] < tx[s]
        BY <1>1, <3>2 DEF IInv, NewerInv
      <4> QED BY <1>1, <1>4, <4>1
    <3> QED BY <3>1, <3>2 DEF IInv, TableInv
  <2>2. \A s \in Subject : tx'[s] >= db'[s]
    BY <1>1
  <2>3. \A i \in afterCommit : \A x \in batch[i].taken : tx[x.subject] >= x.stamp
    BY DEF IInv, TableInv
  <2> QED BY <1>1, <2>1, <2>2, <2>3 DEF TableInv
<1>13. PendingInv'
  <2>1. ASSUME NEW s \in Subject, pending[s] # 0
        PROVE  tx[s] <= pending[s]
    <3>1. CASE tx[s] <= written[s]
      <4>1. written[s] <= pending[s]
        BY <2>1 DEF IInv, PendingInv
      <4> QED BY <1>1, <3>1, <4>1
    <3>2. CASE \E i \in DOMAIN batch : \E x \in batch[i].taken : x.subject = s /\ x.stamp = tx[s]
      BY <2>1, <3>2 DEF IInv, PendingInv
    <3> QED BY <1>5, <3>1, <3>2
  <2>2. \A s \in Subject : pending[s] # 0 => written'[s] <= pending[s]
    BY <1>1, <1>4, <2>1 DEF IInv, PendingInv
  <2>3. ASSUME NEW i \in DOMAIN batch, NEW x \in batch[i].taken, x.subject \notin hidden
        PROVE  x.stamp <= Get(x.subject)'
    <3>1. x.stamp <= pending[x.subject]
      BY <1>1, <2>3 DEF IInv, PendingInv
    <3> QED BY <1>1, <1>2, <3>1 DEF Get, _Newest
  <2> QED BY <1>1, <2>2, <2>3 DEF IInv, PendingInv
<1>14. SettleInv'
  <2>1. ASSUME NEW x \in State, Settled(x)
        PROVE  Settled(x)'
    <3>1. x.subject \in Subject /\ x.stamp \in Nat
      BY DEF State
    <3> QED BY <1>1, <1>3, <1>4, <2>1, <3>1 DEF Settled
  <2>2. ASSUME NEW i \in DOMAIN batch, NEW x \in batch[i].taken
        PROVE  Settled(x)'
    <3>1. CASE i \in afterCommit
      <4>1. tx[x.subject] >= x.stamp
        BY <3>1 DEF IInv, TableInv
      <4> QED BY <1>1, <1>2, <1>3, <1>4, <4>1 DEF Settled
    <3>2. CASE i \notin afterCommit
      BY <1>1, <3>2 DEF Settled, TakenBy
    <3> QED BY <3>1, <3>2
  <2>3. accepted \in SUBSET State
    BY DEF IInv, TypeOK
  <2> QED BY <1>1, <2>1, <2>2, <2>3 DEF IInv, SettleInv
<1> QED BY <1>6, <1>7, <1>8, <1>9, <1>10, <1>11, <1>12, <1>13, <1>14 DEF IInv

\* A callback forgets states the committed table holds, or newer ones of it.
LEMMA RunCallbackInv ==
    ASSUME IInv, RunCallback
    PROVE  IInv'
<1>1. PICK i \in afterCommit :
          /\ afterCommit' = afterCommit \ {i}
          /\ pending' = Forget(batch[i].taken)
          /\ flushed' = IF batch[i].kind = "signal" THEN [flushed EXCEPT !.done = TRUE] ELSE flushed
  BY DEF RunCallback
<1>2. /\ thread = "calling" /\ tx = db
      /\ UNCHANGED <<unsaved, flushSubmitted, saver, queue, stopping, dropped, thread, batch, position, tx, db,
                     clock, others, accepted, lost, written, hidden>>
      /\ db \in [Subject -> Nat] /\ pending \in [Subject -> Nat] /\ afterCommit \subseteq DOMAIN batch
      /\ unsaved \in SUBSET State /\ written \in [Subject -> Nat] /\ clock \in Nat
  BY DEF IInv, TypeOK, PhaseInv, RunCallback, writer
<1> DEFINE Forgotten(s) == [subject |-> s, stamp |-> pending[s]] \in batch[i].taken
<1>3. /\ pending' \in [Subject -> Nat]
      /\ \A s \in Subject : pending'[s] = IF Forgotten(s) THEN 0 ELSE pending[s]
  BY <1>1, <1>2 DEF Forget
<1> HIDE DEF Forgotten
<1>4. \A j \in DOMAIN batch : \A x \in batch[j].taken :
          x \in State /\ x.subject \in Subject /\ x.stamp \in Nat
  BY BatchTypes DEF IInv
<1>5. ASSUME NEW s \in Subject
      PROVE  pending'[s] = pending[s] \/ (pending'[s] = 0 /\ db[s] >= pending[s])
  <2>1. CASE Forgotten(s)
    <3> DEFINE y == [subject |-> s, stamp |-> pending[s]]
    <3>1. y \in batch[i].taken /\ y.subject = s /\ y.stamp = pending[s]
      BY <2>1 DEF Forgotten
    <3> HIDE DEF y
    <3>2. tx[y.subject] >= y.stamp
      BY <3>1 DEF IInv, TableInv
    <3>3. db[s] >= pending[s]
      BY <1>2, <3>1, <3>2
    <3> QED BY <1>3, <2>1, <3>3
  <2>2. CASE ~Forgotten(s)
    BY <1>3, <2>2
  <2> QED BY <2>1, <2>2
<1>6. TypeOK'
  <2>1. flushed' \in [called : BOOLEAN, covers : SUBSET State, done : BOOLEAN]
    BY <1>1 DEF IInv, TypeOK
  <2>2. afterCommit' \subseteq DOMAIN batch'
    BY <1>1, <1>2
  <2> QED BY <1>2, <1>3, <2>1, <2>2 DEF IInv, TypeOK
<1>7. JobsInv' /\ PhaseInv'
  BY <1>1, <1>2 DEF IInv, JobsInv, PhaseInv
<1>8. OrderInv' /\ NewerInv'
  BY <1>2 DEF IInv, OrderInv, NewerInv
<1>9. ClockInv'
  <2>1. ASSUME NEW s \in Subject
        PROVE  pending'[s] <= clock /\ written[s] <= clock
    <3>1. pending[s] <= clock /\ written[s] <= clock
      BY DEF IInv, ClockInv
    <3> QED BY <1>2, <1>3, <3>1
  <2> QED BY <1>2, <2>1 DEF IInv, ClockInv
<1>10. TableInv'
  BY <1>1, <1>2 DEF IInv, TableInv
<1>11. PendingInv'
  <2>1. \A s \in Subject : pending'[s] # 0 => pending'[s] = pending[s]
    BY <1>3
  <2>2. ASSUME NEW x \in unsaved, x.subject \notin hidden
        PROVE  x.stamp <= pending'[x.subject]
    <3>1. x.subject \in Subject /\ x.stamp \in Nat /\ x.stamp <= pending[x.subject]
      BY <1>2, <2>2 DEF State, IInv, PendingInv
    <3>2. ~Forgotten(x.subject)
      <4> SUFFICES ASSUME Forgotten(x.subject)
                   PROVE  FALSE
        OBVIOUS
      <4>1. pending[x.subject] < x.stamp
        BY <1>2 DEF IInv, OrderInv, Forgotten
      <4> QED BY <1>2, <3>1, <4>1
    <3> QED BY <1>3, <3>1, <3>2
  <2>3. ASSUME NEW j \in DOMAIN batch, NEW x \in batch[j].taken, x.subject \notin hidden
        PROVE  x.stamp <= Get(x.subject)'
    <3>1. x.stamp <= Get(x.subject)
      BY <1>2, <2>3 DEF IInv, PendingInv
    <3>2. Get(x.subject)' >= Get(x.subject)
      BY <1>2, <1>3, <1>4, <1>5 DEF Get, _Newest
    <3> QED BY <1>2, <1>3, <1>4, <3>1, <3>2 DEF Get, _Newest
  <2>4. \A s \in Subject : pending'[s] # 0 => written'[s] <= pending'[s]
    BY <1>2, <2>1 DEF IInv, PendingInv
  <2>5. \A x \in unsaved : pending'[x.subject] # 0 => x.stamp <= pending'[x.subject]
    BY <1>2, <2>1 DEF IInv, PendingInv, State
  <2>6. \A j \in DOMAIN batch : \A x \in batch[j].taken :
            pending'[x.subject] # 0 => x.stamp <= pending'[x.subject]
    BY <1>4, <2>1 DEF IInv, PendingInv
  <2> QED BY <1>2, <2>2, <2>3, <2>4, <2>5, <2>6 DEF PendingInv
<1>12. SettleInv'
  BY <1>2 DEF IInv, SettleInv, Settled
<1> QED BY <1>6, <1>7, <1>8, <1>9, <1>10, <1>11, <1>12 DEF IInv

\* The whole buffer is given up: what it held is lost, its subjects are hidden.
LEMMA DropBufferInv ==
    ASSUME IInv, DropBuffer
    PROVE  IInv'
<1>1. /\ pending' = Forget(unsaved) /\ unsaved' = {} /\ flushSubmitted' = FALSE /\ saver' = "ready"
      /\ lost' = lost \cup unsaved
      /\ hidden' = hidden \cup {s \in Subject : pending'[s] # pending[s]}
      /\ UNCHANGED <<queue, stopping, thread, batch, position, afterCommit, tx, db,
                     clock, others, accepted, written, flushed>>
      /\ pending \in [Subject -> Nat] /\ unsaved \in SUBSET State /\ lost \in SUBSET State
      /\ hidden \in SUBSET Subject /\ dropped' \in Nat /\ clock \in Nat /\ db \in [Subject -> Nat]
      /\ written \in [Subject -> Nat]
  BY DEF IInv, TypeOK, DropBuffer, Refused, run
<1>2. pending' \in [Subject -> Nat] /\ \A s \in Subject : pending'[s] \in {0, pending[s]}
  BY <1>1 DEF Forget
<1>3. \A i \in DOMAIN batch : \A x \in batch[i].taken :
          x \in State /\ x.subject \in Subject /\ x.stamp \in Nat
  BY BatchTypes DEF IInv
<1>4. TypeOK'
  BY <1>1, <1>2 DEF IInv, TypeOK
<1>5. JobsInv' /\ PhaseInv'
  BY <1>1 DEF IInv, JobsInv, PhaseInv
<1>6. OrderInv' /\ NewerInv' /\ TableInv'
  BY <1>1 DEF IInv, OrderInv, NewerInv, TableInv
<1>7. ClockInv'
  <2>1. ASSUME NEW s \in Subject
        PROVE  pending'[s] <= clock /\ written[s] <= clock
    <3>1. pending[s] <= clock /\ written[s] <= clock
      BY DEF IInv, ClockInv
    <3> QED BY <1>1, <1>2, <3>1
  <2> QED BY <1>1, <2>1 DEF IInv, ClockInv
<1>8. PendingInv'
  <2>1. \A s \in Subject : pending'[s] # 0 => pending'[s] = pending[s]
    BY <1>2
  <2>2. \A s \in Subject : s \notin hidden' => s \notin hidden /\ pending'[s] = pending[s]
    BY <1>1
  <2>3. \A s \in Subject : s \notin hidden' => Get(s)' = Get(s)
    BY <1>1, <2>2 DEF Get
  <2>4. \A i \in DOMAIN batch : \A x \in batch[i].taken :
            x.subject \notin hidden' =>
                IF thread = "calling" THEN x.stamp <= Get(x.subject)' ELSE x.stamp <= pending'[x.subject]
    BY <1>3, <2>2, <2>3 DEF IInv, PendingInv
  <2>5. \A i \in DOMAIN batch : \A x \in batch[i].taken :
            pending'[x.subject] # 0 => x.stamp <= pending'[x.subject]
    BY <1>3, <2>1 DEF IInv, PendingInv
  <2>6. \A s \in Subject : pending'[s] # 0 => written'[s] <= pending'[s]
    BY <1>1, <2>1 DEF IInv, PendingInv
  <2> QED BY <1>1, <2>4, <2>5, <2>6 DEF PendingInv
<1>9. SettleInv'
  BY <1>1 DEF IInv, SettleInv, Settled
<1> QED BY <1>4, <1>5, <1>6, <1>7, <1>8, <1>9 DEF IInv

\* A state the loop saves is the newest of all.
LEMMA SaveAcceptedInv ==
    ASSUME IInv, NEW s \in Subject, SaveAccepted(s)
    PROVE  IInv'
<1> DEFINE state == [subject |-> s, stamp |-> clock + 1]
<1>1. /\ clock' = clock + 1 /\ pending' = [pending EXCEPT ![s] = clock + 1]
      /\ unsaved' = unsaved \cup {state} /\ accepted' = accepted \cup {state} /\ hidden' = hidden \ {s}
      /\ flushSubmitted' = TRUE /\ saver' \in {"ready", "submitting"}
      /\ UNCHANGED <<queue, stopping, dropped, thread, batch, position, afterCommit, tx, db,
                     others, lost, written, flushed>>
      /\ pending \in [Subject -> Nat] /\ unsaved \in SUBSET State /\ accepted \in SUBSET State
      /\ hidden \in SUBSET Subject /\ clock \in Nat /\ db \in [Subject -> Nat] /\ written \in [Subject -> Nat]
  BY DEF IInv, TypeOK, SaveAccepted, writer, run
<1>2. state \in State /\ state.subject = s /\ state.stamp = clock + 1
  BY <1>1 DEF State
<1> HIDE DEF state
<1>3. /\ pending' \in [Subject -> Nat] /\ pending'[s] = clock + 1
      /\ \A t \in Subject : t # s => pending'[t] = pending[t]
  BY <1>1
<1>4. \A i \in DOMAIN batch : \A x \in batch[i].taken :
          x \in State /\ x.subject \in Subject /\ x.stamp \in Nat /\ x.stamp <= clock
  BY BatchTypes, <1>1 DEF IInv, ClockInv
<1>5. \A x \in unsaved : x.subject \in Subject /\ x.stamp \in Nat /\ x.stamp <= clock
  BY <1>1 DEF IInv, ClockInv, State
<1>6. \A t \in Subject : written[t] <= clock /\ pending[t] <= clock
  BY DEF IInv, ClockInv
<1>7. TypeOK'
  BY <1>1, <1>2, <1>3 DEF IInv, TypeOK
<1>8. JobsInv' /\ PhaseInv' /\ TableInv'
  BY <1>1 DEF IInv, JobsInv, PhaseInv, TableInv
<1>9. OrderInv'
  <2>1. ASSUME NEW i \in DOMAIN batch, NEW x \in batch[i].taken, NEW y \in unsaved'
        PROVE  x.stamp < y.stamp
    <3>1. CASE y \in unsaved
      BY <3>1 DEF IInv, OrderInv
    <3>2. CASE y = state
      BY <1>1, <1>2, <1>4, <3>2
    <3> QED BY <1>1, <3>1, <3>2
  <2> QED BY <1>1, <2>1 DEF IInv, OrderInv
<1>10. ClockInv'
  <2>1. \A x \in unsaved' : x.stamp \in 1..clock'
    BY <1>1, <1>2 DEF IInv, ClockInv
  <2>2. \A i \in DOMAIN batch : \A x \in batch[i].taken : x.stamp \in 1..clock'
    BY <1>1 DEF IInv, ClockInv
  <2>3. \A t \in Subject : pending'[t] <= clock' /\ written'[t] <= clock'
    BY <1>1, <1>3, <1>6
  <2> QED BY <1>1, <2>1, <2>2, <2>3 DEF ClockInv
<1>11. NewerInv'
  <2>1. written[s] < clock + 1
    BY <1>1, <1>6
  <2> QED BY <1>1, <1>2, <2>1 DEF IInv, NewerInv
<1>12. PendingInv'
  <2>1. \A t \in Subject : pending'[t] # 0 => written'[t] <= pending'[t]
    BY <1>1, <1>3, <1>6 DEF IInv, PendingInv
  <2>2. ASSUME NEW x \in unsaved'
        PROVE  /\ pending'[x.subject] # 0 => x.stamp <= pending'[x.subject]
               /\ x.subject \notin hidden' => x.stamp <= pending'[x.subject]
    <3>1. CASE x = state
      BY <1>1, <1>2, <1>3, <3>1
    <3>2. CASE x \in unsaved /\ x.subject = s
      BY <1>1, <1>3, <1>5, <3>2
    <3>3. CASE x \in unsaved /\ x.subject # s
      BY <1>1, <1>3, <1>5, <3>3 DEF IInv, PendingInv
    <3> QED BY <1>1, <3>1, <3>2, <3>3
  <2>3. ASSUME NEW i \in DOMAIN batch, NEW x \in batch[i].taken
        PROVE  /\ pending'[x.subject] # 0 => x.stamp <= pending'[x.subject]
               /\ x.subject \notin hidden' =>
                    IF thread = "calling" THEN x.stamp <= Get(x.subject)' ELSE x.stamp <= pending'[x.subject]
    <3>1. CASE x.subject = s
      <4>1. x.stamp <= pending'[x.subject]
        BY <1>1, <1>3, <1>4, <3>1
      <4>2. x.stamp <= Get(x.subject)'
        BY <1>1, <1>3, <1>4, <3>1, <4>1 DEF Get, _Newest
      <4> QED BY <4>1, <4>2
    <3>2. CASE x.subject # s
      <4>1. pending'[x.subject] = pending[x.subject] /\ Get(x.subject)' = Get(x.subject)
        BY <1>1, <1>3, <1>4, <3>2 DEF Get
      <4> QED BY <1>1, <1>4, <3>2, <4>1 DEF IInv, PendingInv
    <3> QED BY <3>1, <3>2
  <2> QED BY <1>1, <2>1, <2>2, <2>3 DEF PendingInv
<1>13. SettleInv'
  BY <1>1 DEF IInv, SettleInv, Settled
<1> QED BY <1>7, <1>8, <1>9, <1>10, <1>11, <1>12, <1>13 DEF IInv

\* Steps that change the place of the thread, and no batch.
LEMMA PlaceInv ==
    ASSUME IInv,
           \/ OpenConnection \/ GiveUpOpening \/ EmptyGet \/ CarryOn \/ ExitWhenEmpty \/ PurgeNotDue
           \/ Stop \/ UNCHANGED vars
    PROVE  IInv'
<1> USE DEF OpenConnection, GiveUpOpening, EmptyGet, CarryOn, ExitWhenEmpty, PurgeNotDue, Stop,
            vars, repository, writer, run, history
<1>1. TypeOK'
  BY DEF IInv, TypeOK
<1>2. JobsInv'
  BY DEF IInv, JobsInv
<1>3. PhaseInv'
  BY DEF IInv, PhaseInv
<1>4. OrderInv'
  BY DEF IInv, OrderInv
<1>5. ClockInv'
  BY DEF IInv, ClockInv
<1>6. NewerInv'
  BY DEF IInv, NewerInv
<1>7. TableInv'
  BY DEF IInv, TableInv
<1>8. PendingInv'
  BY DEF IInv, PendingInv, Get
<1>9. SettleInv'
  BY DEF IInv, SettleInv, Settled
<1> QED BY <1>1, <1>2, <1>3, <1>4, <1>5, <1>6, <1>7, <1>8, <1>9 DEF IInv

\* Every try starts with nothing left of the one before.
LEMMA NewTryInv ==
    ASSUME IInv, Execute \/ Retry \/ StartPurge \/ RollBack
    PROVE  IInv'
<1>1. /\ UNCHANGED <<pending, unsaved, flushSubmitted, saver, queue, stopping, dropped, db,
                     clock, others, accepted, lost, written, hidden, flushed>>
      /\ tx' = db /\ position' = 1 /\ afterCommit' = {}
      /\ thread # "calling" /\ thread' \in {"running", "pausing"}
      /\ batch \in Seq(Job) /\ db \in [Subject -> Nat]
  BY DEF IInv, TypeOK, Execute, Retry, StartPurge, RollBack, BeginTry, repository, writer, history
<1>2. \/ batch' = batch
      \/ batch = <<>> /\ batch' = <<JobOf("purge")>>
  BY DEF IInv, PhaseInv, Execute, Retry, StartPurge, RollBack
<1>3. /\ batch' \in Seq(Job)
      /\ \A i \in DOMAIN batch' :
            \/ i \in DOMAIN batch /\ batch'[i] = batch[i] /\ Len(batch') = Len(batch)
            \/ /\ i = 1 /\ Len(batch') = 1 /\ ~batch'[i].took /\ batch'[i].taken = {}
               /\ batch'[i].kind = "purge"
  <2>1. CASE batch' = batch
    BY <1>1, <2>1
  <2>2. CASE batch' = <<JobOf("purge")>>
    <3>1. JobOf("purge") \in Job
      BY DEF JobOf, Job
    <3>2. DOMAIN batch' = {1} /\ Len(batch') = 1 /\ batch'[1] = JobOf("purge")
      BY <2>2
    <3> QED BY <2>2, <3>1, <3>2 DEF JobOf
  <2> QED BY <1>2, <2>1, <2>2
<1>4. TypeOK'
  BY <1>1, <1>3 DEF IInv, TypeOK
<1>5. JobsInv'
  BY <1>1, <1>3 DEF IInv, JobsInv
<1>6. PhaseInv'
  <2>1. position' \in 1..(Len(batch') + 1)
    BY <1>1, <1>3
  <2>2. \A i \in DOMAIN batch' : ~(i < position')
    BY <1>1, <1>3
  <2> QED BY <1>1, <2>1, <2>2 DEF PhaseInv
<1>7. OrderInv'
  <2>1. CASE batch' = batch
    BY <1>1, <2>1 DEF IInv, OrderInv
  <2>2. CASE batch' = <<JobOf("purge")>>
    <3>1. \A i, j \in DOMAIN batch' : ~(i < j)
      BY <2>2
    <3>2. \A i \in DOMAIN batch' : batch'[i].taken = {}
      BY <2>2 DEF JobOf
    <3> QED BY <3>1, <3>2 DEF OrderInv
  <2> QED BY <1>2, <2>1, <2>2
<1>8. ClockInv'
  BY <1>1, <1>3 DEF IInv, ClockInv
<1>9. NewerInv'
  BY <1>1, <1>3 DEF IInv, NewerInv
<1>10. TableInv'
  BY <1>1 DEF IInv, TableInv
<1>11. PendingInv'
  BY <1>1, <1>3 DEF IInv, PendingInv
<1>12. SettleInv'
  <2>1. \A i \in DOMAIN batch : batch' = batch
    BY <1>2
  <2>2. \A x \in accepted : Settled(x)' = Settled(x)
    BY <1>1 DEF Settled
  <2>3. \A x \in accepted :
            Settled(x) \/ x \in unsaved \/ \E i \in DOMAIN batch : x \in batch[i].taken
    BY DEF IInv, SettleInv
  <2>4. thread' # "calling"
    BY <1>1
  <2> QED BY <1>1, <2>1, <2>2, <2>3, <2>4 DEF SettleInv
<1> QED BY <1>4, <1>5, <1>6, <1>7, <1>8, <1>9, <1>10, <1>11, <1>12 DEF IInv

\* Deposits in the queue, accepted or refused.
LEMMA DepositInv ==
    ASSUME IInv, SaveRefused \/ SubmitFlushJob \/ SubmitOther \/ CallFlush
    PROVE  IInv'
<1>1. /\ UNCHANGED <<pending, unsaved, flushSubmitted, stopping, thread, batch, position, afterCommit, tx, db,
                     accepted, lost, written, hidden>>
      /\ clock' \in {clock, clock + 1} /\ others' \in {others, others + 1} /\ dropped' \in {dropped, dropped + 1}
      /\ saver' \in {saver, "ready"}
      /\ flushed' \in {flushed, [called |-> TRUE, covers |-> accepted, done |-> FALSE]}
  BY DEF SaveRefused, SubmitFlushJob, SubmitOther, CallFlush, Submit, Refused,
         repository, writer, run, history
<1>2. \/ queue' = queue
      \/ \E kind \in {"flush", "other", "signal"} : queue' = Append(queue, JobOf(kind))
  BY DEF SaveRefused, SubmitFlushJob, SubmitOther, CallFlush, Submit, Refused
<1>3. queue \in Seq(Job) /\ clock \in Nat /\ others \in Nat /\ dropped \in Nat
  BY DEF IInv, TypeOK
<1> DEFINE Fresh(job) == job.kind # "purge" /\ ~job.took /\ job.taken = {}
<1>4. queue' \in Seq(Job) /\ \A i \in DOMAIN queue' : Fresh(queue'[i])
  <2>1. CASE queue' = queue
    BY <1>3, <2>1 DEF IInv, JobsInv
  <2>2. ASSUME NEW kind \in {"flush", "other", "signal"}, queue' = Append(queue, JobOf(kind))
        PROVE  queue' \in Seq(Job) /\ \A i \in DOMAIN queue' : Fresh(queue'[i])
    <3>1. JobOf(kind) \in Job /\ Fresh(JobOf(kind))
      BY DEF JobOf, Job
    <3>2. queue' \in Seq(Job)
      BY <1>3, <2>2, <3>1
    <3>3. \A i \in DOMAIN queue' : (i \in DOMAIN queue /\ queue'[i] = queue[i]) \/ queue'[i] = JobOf(kind)
      BY <1>3, <2>2
    <3> QED BY <3>1, <3>2, <3>3 DEF IInv, JobsInv
  <2> QED BY <1>2, <2>1, <2>2
<1>5. TypeOK'
  <2>1. flushed' \in [called : BOOLEAN, covers : SUBSET State, done : BOOLEAN]
    <3>1. /\ flushed \in [called : BOOLEAN, covers : SUBSET State, done : BOOLEAN]
          /\ accepted \in SUBSET State
      BY DEF IInv, TypeOK
    <3>2. [called |-> TRUE, covers |-> accepted, done |-> FALSE]
              \in [called : BOOLEAN, covers : SUBSET State, done : BOOLEAN]
      BY <3>1
    <3> QED BY <1>1, <3>1, <3>2
  <2>2. clock' \in Nat /\ others' \in Nat /\ dropped' \in Nat
    BY <1>1, <1>3
  <2> QED BY <1>1, <1>4, <2>1, <2>2 DEF IInv, TypeOK
<1>6. JobsInv'
  BY <1>1, <1>4 DEF IInv, JobsInv
<1>7. PhaseInv' /\ OrderInv' /\ NewerInv' /\ TableInv'
  BY <1>1 DEF IInv, PhaseInv, OrderInv, NewerInv, TableInv
<1>8. ClockInv'
  <2>1. \A s \in Subject : pending[s] \in Nat /\ written[s] \in Nat
    BY DEF IInv, TypeOK
  <2>2. \A k \in Nat : k <= clock => k <= clock'
    BY <1>1, <1>3
  <2>3. \A k \in 1..clock : k \in 1..clock'
    BY <1>1, <1>3
  <2> QED BY <1>1, <2>1, <2>2, <2>3 DEF IInv, ClockInv
<1>9. PendingInv'
  BY <1>1 DEF IInv, PendingInv, Get
<1>10. SettleInv'
  BY <1>1 DEF IInv, SettleInv, Settled
<1> QED BY <1>5, <1>6, <1>7, <1>8, <1>9, <1>10 DEF IInv

\* The other jobs: a signal, a write to another table, the purge.
LEMMA RunOthersInv ==
    ASSUME IInv, RunSignal \/ RunOther \/ RunPurge
    PROVE  IInv'
<1>1. /\ thread = "running" /\ position \in DOMAIN batch /\ position \in Nat /\ batch \in Seq(Job)
      /\ afterCommit \subseteq DOMAIN batch /\ tx \in [Subject -> Nat] /\ db \in [Subject -> Nat]
      /\ batch[position].kind \in {"signal", "other", "purge"}
      /\ UNCHANGED <<pending, unsaved, flushSubmitted, saver, queue, stopping, dropped, thread, batch, db,
                     clock, others, accepted, lost, written, hidden, flushed>>
      /\ position' = position + 1
      /\ afterCommit' = afterCommit \/ (batch[position].kind = "signal" /\ afterCommit' = afterCommit \cup {position})
  BY DEF IInv, TypeOK, RunSignal, RunOther, RunPurge, Running, repository, writer, history
<1>2. batch[position].taken = {}
  BY <1>1 DEF IInv, JobsInv
<1>3. \A i \in afterCommit' : i \in DOMAIN batch /\ (i \in afterCommit \/ i = position)
  BY <1>1
<1>4. /\ tx' \in [Subject -> Nat] /\ \A s \in Subject : tx'[s] \in {0, tx[s]}
      /\ batch[position].kind # "purge" => tx' = tx
  <2>1. CASE RunPurge
    <3>1. PICK S \in SUBSET Subject : tx' = [s \in Subject |-> IF s \in S THEN 0 ELSE tx[s]]
      BY <2>1 DEF RunPurge
    <3> QED BY <1>1, <2>1, <3>1 DEF RunPurge, Running
  <2>2. CASE RunSignal \/ RunOther
    BY <1>1, <2>2 DEF RunSignal, RunOther
  <2> QED BY <2>1, <2>2
<1>5. batch[position].kind = "purge" => \A i \in DOMAIN batch : i = position
  BY <1>1 DEF IInv, JobsInv
<1>6. TypeOK'
  BY <1>1, <1>3, <1>4 DEF IInv, TypeOK
<1>7. JobsInv'
  BY <1>1 DEF IInv, JobsInv
<1>8. PhaseInv'
  <2>1. \A i \in afterCommit' : i < position'
    BY <1>1, <1>3 DEF IInv, PhaseInv
  <2>2. \A i \in DOMAIN batch : i < position' /\ batch[i].kind = "flush" => batch[i].took
    BY <1>1 DEF IInv, PhaseInv
  <2>3. position' \in 1..(Len(batch) + 1)
    BY <1>1
  <2> QED BY <1>1, <2>1, <2>2, <2>3 DEF PhaseInv
<1>9. OrderInv' /\ ClockInv' /\ NewerInv'
  BY <1>1 DEF IInv, OrderInv, ClockInv, NewerInv
<1>10. TableInv'
  <2>1. CASE batch[position].kind # "purge"
    BY <1>1, <1>2, <1>3, <1>4, <2>1 DEF IInv, TableInv
  <2>2. CASE batch[position].kind = "purge"
    <3>1. \A i \in DOMAIN batch : batch[i].taken = {}
      BY <1>2, <1>5, <2>2
    <3>2. \A s \in Subject : tx[s] \in {0, db[s]}
      BY <3>1 DEF IInv, TableInv
    <3>3. \A s \in Subject : tx'[s] \in {0, db'[s]}
      BY <1>1, <1>4, <3>2
    <3> QED BY <1>1, <1>3, <2>2, <3>1, <3>3 DEF IInv, TableInv
  <2> QED BY <2>1, <2>2
<1>11. PendingInv'
  BY <1>1 DEF IInv, PendingInv, Get
<1>12. SettleInv'
  BY <1>1 DEF IInv, SettleInv, Settled
<1> QED BY <1>6, <1>7, <1>8, <1>9, <1>10, <1>11, <1>12 DEF IInv

\* The batch is committed, or given up.
LEMMA EndBatchInv ==
    ASSUME IInv, FinishBatch \/ AbandonBatch
    PROVE  IInv'
<1>1. /\ UNCHANGED <<pending, unsaved, flushSubmitted, saver, queue, stopping, afterCommit, tx, db,
                     clock, others, accepted, written, hidden, flushed>>
      /\ afterCommit = {} /\ position' = 1 /\ batch' = <<>> /\ thread' \in {"idle", "timing"} /\ tx = db
      /\ batch \in Seq(Job) /\ dropped \in Nat /\ lost \in SUBSET State
  BY DEF IInv, TypeOK, PhaseInv, FinishBatch, AbandonBatch, AfterBatch, repository, writer, history
<1>2. \A i \in DOMAIN batch : \A x \in batch[i].taken : x \in State
  BY BatchTypes DEF IInv
<1>3. /\ lost' \in SUBSET State /\ lost \subseteq lost' /\ dropped' \in Nat
      /\ \A i \in DOMAIN batch : \A x \in batch[i].taken : Settled(x)'
  <2>1. CASE FinishBatch
    <3>1. lost' = lost /\ dropped' = dropped /\ written' = written /\ thread = "calling"
      BY <2>1 DEF FinishBatch, writer, history
    <3> QED BY <1>1, <3>1 DEF IInv, SettleInv, Settled
  <2>2. CASE AbandonBatch
    <3>1. dropped' = dropped + Len(batch) /\ lost' = lost \cup TakenBy(DOMAIN batch)
      BY <2>2 DEF AbandonBatch
    <3>2. TakenBy(DOMAIN batch) \subseteq State
      BY <1>2 DEF TakenBy
    <3>3. dropped' \in Nat
      <4>1. Len(batch) \in Nat
        BY <1>1
      <4> QED BY <1>1, <3>1, <4>1
    <3>4. \A i \in DOMAIN batch : \A x \in batch[i].taken : x \in lost'
      BY <3>1 DEF TakenBy
    <3> QED BY <1>1, <3>1, <3>2, <3>3, <3>4 DEF Settled
  <2> QED BY <2>1, <2>2
<1>4. DOMAIN batch' = {} /\ Len(batch') = 0 /\ batch' \in Seq(Job)
  BY <1>1
<1>5. TypeOK'
  BY <1>1, <1>3, <1>4 DEF IInv, TypeOK
<1>6. JobsInv'
  BY <1>1, <1>4 DEF IInv, JobsInv
<1>7. PhaseInv'
  BY <1>1, <1>4 DEF IInv, PhaseInv
<1>8. OrderInv' /\ ClockInv' /\ NewerInv'
  BY <1>1, <1>4 DEF IInv, OrderInv, ClockInv, NewerInv
<1>9. TableInv'
  BY <1>1, <1>4 DEF IInv, TableInv, TypeOK
<1>10. PendingInv'
  BY <1>1, <1>4 DEF IInv, PendingInv
<1>11. SettleInv'
  BY <1>1, <1>3, <1>4 DEF IInv, SettleInv, Settled
<1> QED BY <1>5, <1>6, <1>7, <1>8, <1>9, <1>10, <1>11 DEF IInv

\* The next process starts from the committed table.
LEMMA EndOfProcessInv ==
    ASSUME IInv, EndOfProcess
    PROVE  IInv'
<1>1. /\ pending' = Empty /\ unsaved' = {} /\ flushSubmitted' = FALSE /\ saver' = "ready"
      /\ queue' = <<>> /\ stopping' = FALSE /\ dropped' = 0
      /\ thread' = "opening" /\ batch' = <<>> /\ position' = 1 /\ afterCommit' = {} /\ tx' = db
      /\ accepted' = {} /\ lost' = {} /\ hidden' = {}
      /\ flushed' = [called |-> FALSE, covers |-> {}, done |-> FALSE]
      /\ UNCHANGED <<db, clock, others, written>>
  BY DEF EndOfProcess
<1>2. /\ db \in [Subject -> Nat] /\ written \in [Subject -> Nat] /\ clock \in Nat /\ others \in Nat
  BY DEF IInv, TypeOK
<1>3. pending' \in [Subject -> Nat] /\ \A s \in Subject : pending'[s] = 0
  BY <1>1 DEF Empty
<1>4. /\ DOMAIN batch' = {} /\ Len(batch') = 0 /\ batch' \in Seq(Job)
      /\ DOMAIN queue' = {} /\ queue' \in Seq(Job)
  BY <1>1
<1>5. TypeOK'
  <2>1. flushed' \in [called : BOOLEAN, covers : SUBSET State, done : BOOLEAN]
    BY <1>1
  <2>2. /\ unsaved' \in SUBSET State /\ accepted' \in SUBSET State /\ lost' \in SUBSET State
        /\ hidden' \in SUBSET Subject /\ afterCommit' \subseteq DOMAIN batch'
    BY <1>1
  <2>3. flushSubmitted' \in BOOLEAN /\ stopping' \in BOOLEAN /\ saver' \in {"ready", "submitting"}
    BY <1>1, Zenon
  <2>4. dropped' \in Nat /\ position' \in Nat \ {0}
    BY <1>1
  <2> QED BY <1>1, <1>2, <1>3, <1>4, <2>1, <2>2, <2>3, <2>4 DEF TypeOK
<1>6. JobsInv' /\ PhaseInv'
  BY <1>1, <1>4 DEF JobsInv, PhaseInv
<1>7. OrderInv' /\ NewerInv' /\ SettleInv'
  BY <1>1, <1>4 DEF OrderInv, NewerInv, SettleInv
<1>8. ClockInv'
  BY <1>1, <1>2, <1>3, <1>4 DEF IInv, ClockInv
<1>9. TableInv'
  BY <1>1, <1>2, <1>4 DEF IInv, TableInv
<1>10. PendingInv'
  BY <1>1, <1>3, <1>4 DEF PendingInv
<1> QED BY <1>5, <1>6, <1>7, <1>8, <1>9, <1>10 DEF IInv

\* A process that starts on an empty base.
LEMMA InitInv == Init => IInv
<1> SUFFICES ASSUME Init PROVE IInv
  OBVIOUS
<1>1. Empty \in [Subject -> Nat] /\ \A s \in Subject : Empty[s] = 0
  BY DEF Empty
<1>2. /\ queue = <<>> /\ batch = <<>> /\ DOMAIN queue = {} /\ DOMAIN batch = {} /\ Len(batch) = 0
      /\ queue \in Seq(Job) /\ batch \in Seq(Job)
  BY DEF Init
<1>3. flushed \in [called : BOOLEAN, covers : SUBSET State, done : BOOLEAN]
  BY DEF Init
<1>4. TypeOK
  <2>1. /\ unsaved \in SUBSET State /\ accepted \in SUBSET State /\ lost \in SUBSET State
        /\ hidden \in SUBSET Subject /\ afterCommit \subseteq DOMAIN batch
    BY DEF Init
  <2>2. flushSubmitted \in BOOLEAN /\ stopping \in BOOLEAN /\ saver \in {"ready", "submitting"}
    BY Zenon DEF Init
  <2>4. dropped \in Nat /\ clock \in Nat /\ others \in Nat /\ position \in Nat \ {0}
    BY DEF Init
  <2>3. /\ pending \in [Subject -> Nat] /\ tx \in [Subject -> Nat] /\ db \in [Subject -> Nat]
        /\ written \in [Subject -> Nat] /\ thread = "opening"
    BY <1>1 DEF Init
  <2> QED BY <1>2, <1>3, <2>1, <2>2, <2>3, <2>4 DEF TypeOK
<1>5. JobsInv /\ PhaseInv /\ OrderInv
  BY <1>2 DEF Init, JobsInv, PhaseInv, OrderInv
<1>6. ClockInv /\ NewerInv /\ TableInv
  BY <1>1, <1>2 DEF Init, ClockInv, NewerInv, TableInv
<1>7. PendingInv /\ SettleInv
  BY <1>1, <1>2 DEF Init, PendingInv, SettleInv
<1> QED BY <1>4, <1>5, <1>6, <1>7 DEF IInv

\* Every step of the program, by the lemmas above, keeps the invariant.
LEMMA NextInv == IInv /\ [Next]_vars => IInv'
<1> SUFFICES ASSUME IInv, [Next]_vars PROVE IInv'
  OBVIOUS
<1>1. CASE Loop
  BY <1>1, SaveAcceptedInv, DepositInv, DropBufferInv DEF Loop
<1>2. CASE Execution
  BY <1>2, RunFlushJobInv, RunOthersInv, DefectiveJobInv, CommitInv, RunCallbackInv, EndBatchInv, NewTryInv
     DEF Execution
<1>3. CASE Thread
  BY <1>2, <1>3, PlaceInv, CollectingInv, NewTryInv DEF Thread
<1>4. CASE Stop \/ UNCHANGED vars
  BY <1>4, PlaceInv
<1>5. CASE EndOfProcess
  BY <1>5, EndOfProcessInv
<1> QED BY <1>1, <1>3, <1>4, <1>5 DEF Next

-----------------------------------------------------------------------------
(* The theorems.                                                            *)

\* The inductive invariant holds in every reachable state.
THEOREM Invariance == Spec => []IInv
<1>1. Init => IInv
  BY InitInv
<1>2. IInv /\ [Next]_vars => IInv'
  BY NextInv
<1> QED BY <1>1, <1>2, PTL DEF Spec

\* Every variable keeps its type, whatever the number of subjects and of jobs.
THEOREM TypeCorrect == Spec => []TypeOK
<1>1. IInv => TypeOK
  BY DEF IInv
<1> QED BY <1>1, Invariance, PTL

\* The loop reads its own writes while the thread takes, writes, fails, replays,
\* commits and forgets: WriteBehindThreatStateRepository.get against _flush_job.
THEOREM LoopReadsItsWrites == Spec => []ReadYourWrites
<1>1. IInv => ReadYourWrites
  <2> SUFFICES ASSUME IInv, NEW x \in InFlight, x.subject \notin hidden
               PROVE  Get(x.subject) >= x.stamp
    BY DEF ReadYourWrites
  <2>1. /\ pending \in [Subject -> Nat] /\ db \in [Subject -> Nat] /\ unsaved \in SUBSET State
        /\ \A i \in DOMAIN batch : \A y \in batch[i].taken : y \in State
    BY BatchTypes DEF IInv, TypeOK
  <2>2. x \in unsaved \/ \E i \in DOMAIN batch : x \in batch[i].taken
    BY DEF InFlight, TakenBy
  <2>3. x.subject \in Subject /\ x.stamp \in Nat
    BY <2>1, <2>2 DEF State
  <2>4. Get(x.subject) \in Nat /\ Get(x.subject) >= pending[x.subject]
    BY <2>1, <2>3 DEF Get, _Newest
  <2>5. x.stamp <= pending[x.subject] \/ x.stamp <= Get(x.subject)
    BY <2>2 DEF IInv, PendingInv
  <2> QED BY <2>1, <2>3, <2>4, <2>5
<1> QED BY <1>1, Invariance, PTL

\* While nothing is counted, nothing is given up, and each flush job that the
\* transaction has run waits for its commit.
QuietInv ==
    dropped = 0 /\ ~stopping =>
        /\ lost = {}
        /\ thread = "running" =>
            \A i \in DOMAIN batch : i < position /\ batch[i].kind = "flush" => i \in afterCommit

LEMMA NextQuiet == IInv /\ QuietInv /\ [Next]_vars => QuietInv'
<1> SUFFICES ASSUME IInv, QuietInv, [Next]_vars, dropped' = 0, ~stopping'
             PROVE  /\ lost' = {}
                    /\ thread' = "running" =>
                        \A i \in DOMAIN batch' : i < position' /\ batch'[i].kind = "flush" => i \in afterCommit'
  BY DEF QuietInv
<1>1. dropped \in Nat /\ batch \in Seq(Job) /\ position \in Nat \ {0}
  BY DEF IInv, TypeOK
<1>2. CASE EndOfProcess
  BY <1>2 DEF EndOfProcess
<1>3. ASSUME dropped = 0, ~stopping, UNCHANGED <<lost, thread, batch, position, afterCommit>> PROVE QuietInv'
  BY <1>3 DEF QuietInv
<1>4. CASE Loop
  <2>1. /\ UNCHANGED <<thread, batch, position, afterCommit>> /\ dropped' \in {dropped, dropped + 1}
        /\ lost' = lost \/ DropBuffer
    BY <1>4 DEF Loop, SaveAccepted, SaveRefused, SubmitFlushJob, DropBuffer, SubmitOther, CallFlush, Submit, Refused,
                writer, run, history
  <2>2. dropped = 0 /\ dropped' = dropped
    BY <1>1, <2>1
  <2>3. ~stopping
    BY <1>4 DEF Loop, SaveAccepted, SaveRefused, SubmitFlushJob, DropBuffer, SubmitOther, CallFlush, Submit, Refused,
                writer
  <2>4. ~DropBuffer
    BY <2>2, <2>3 DEF DropBuffer, Refused
  <2> QED BY <2>1, <2>2, <2>3, <2>4, <1>3 DEF QuietInv
<1>5. CASE Commit
  <2>1. dropped = 0 /\ ~stopping /\ thread = "running" /\ position > Len(batch) /\ thread' = "calling"
        /\ lost' = lost \cup TakenBy(DOMAIN batch \ afterCommit)
    BY <1>5 DEF Commit, writer
  <2>2. \A i \in DOMAIN batch \ afterCommit : batch[i].taken = {}
    <3> SUFFICES ASSUME NEW i \in DOMAIN batch \ afterCommit PROVE batch[i].taken = {}
      OBVIOUS
    <3>1. i < position
      BY <1>1, <2>1
    <3>2. batch[i].kind # "flush"
      BY <2>1, <3>1 DEF QuietInv
    <3> QED BY <3>2 DEF IInv, JobsInv
  <2>3. TakenBy(DOMAIN batch \ afterCommit) = {}
    BY <2>2 DEF TakenBy
  <2> QED BY <2>1, <2>3 DEF QuietInv
<1>6. CASE RunFlushJob
  <2>1. dropped = 0 /\ ~stopping /\ thread = "running" /\ lost' = lost
        /\ position' = position + 1 /\ afterCommit' = afterCommit \cup {position}
    BY <1>6 DEF RunFlushJob, Running, writer, history
  <2>2. DOMAIN batch' = DOMAIN batch /\ \A i \in DOMAIN batch : i # position => batch'[i] = batch[i]
    BY <1>1, <1>6 DEF RunFlushJob, Take
  <2>3. \A i \in DOMAIN batch : i < position + 1 => i < position \/ i = position
    BY <1>1
  <2> QED BY <2>1, <2>2, <2>3 DEF QuietInv
<1>7. CASE RunSignal \/ RunOther \/ RunPurge
  <2>1. /\ dropped = 0 /\ ~stopping /\ thread = "running" /\ lost' = lost /\ batch' = batch
        /\ position' = position + 1 /\ afterCommit \subseteq afterCommit' /\ batch[position].kind # "flush"
    BY <1>7 DEF RunSignal, RunOther, RunPurge, Running, writer, history
  <2>2. \A i \in DOMAIN batch : i < position + 1 => i < position \/ i = position
    BY <1>1
  <2> QED BY <2>1, <2>2 DEF QuietInv
<1>8. CASE DefectiveJob
  BY <1>1, <1>8 DEF DefectiveJob
<1>9. CASE RunCallback \/ FinishBatch \/ RollBack
  <2>1. dropped = 0 /\ ~stopping /\ lost' = lost
    BY <1>9 DEF RunCallback, FinishBatch, RollBack, writer, history
  <2>2. thread' # "running"
    BY <1>9 DEF RunCallback, FinishBatch, RollBack, AfterBatch
  <2> QED BY <2>1, <2>2 DEF QuietInv
<1>10. CASE Retry \/ Execute \/ StartPurge
  <2>1. dropped = 0 /\ ~stopping /\ lost' = lost /\ position' = 1
    BY <1>10 DEF Retry, Execute, StartPurge, BeginTry, writer, history
  <2>2. batch' = batch \/ batch' = <<JobOf("purge")>>
    BY <1>10 DEF Retry, Execute, StartPurge
  <2>3. \A i \in DOMAIN batch' : ~(i < 1)
    BY <1>1, <2>2
  <2> QED BY <2>1, <2>3 DEF QuietInv
<1>11. CASE AbandonBatch
  BY <1>11 DEF AbandonBatch
<1>12. CASE OpenConnection \/ GiveUpOpening \/ EmptyGet \/ GetFirst \/ Collect \/ CarryOn \/ ExitWhenEmpty \/ PurgeNotDue
  <2>1. dropped = 0 /\ ~stopping /\ lost' = lost
    BY <1>12 DEF OpenConnection, GiveUpOpening, EmptyGet, GetFirst, Collect, CarryOn, ExitWhenEmpty, PurgeNotDue,
                 writer, history
  <2>2. thread' # "running"
    BY <1>12 DEF OpenConnection, GiveUpOpening, EmptyGet, GetFirst, Collect, CarryOn, ExitWhenEmpty, PurgeNotDue
  <2> QED BY <2>1, <2>2 DEF QuietInv
<1>13. CASE Stop
  BY <1>13 DEF Stop
<1>14. CASE UNCHANGED vars
  BY <1>14 DEF vars, repository, writer, run, history, QuietInv
<1> QED BY <1>2, <1>4, <1>5, <1>6, <1>7, <1>8, <1>9, <1>10, <1>11, <1>12, <1>13, <1>14
        DEF Next, Thread, Execution

\* No accepted state disappears without being committed, replaced by a newer
\* committed one, or given up by a path of the code that gives up and counts.
THEOREM NoSilentLoss == Spec => []NothingLostSilently
<1>1. Init => QuietInv
  BY DEF Init, QuietInv
<1>2. Spec => []QuietInv
  BY <1>1, NextQuiet, Invariance, PTL DEF Spec
<1>3. IInv /\ QuietInv => NothingLostSilently
  BY DEF IInv, QuietInv, SettleInv, NothingLostSilently, InFlight, TakenBy
<1> QED BY <1>2, <1>3, Invariance, PTL

\* No replay of a batch and no later batch brings an older state back.
THEOREM TableNeverGoesBack == Spec => []DatabaseNeverGoesBack
<1>1. IInv => DatabaseNeverGoesBack
  BY DEF IInv, TableInv, DatabaseNeverGoesBack
<1> QED BY <1>1, Invariance, PTL

-----------------------------------------------------------------------------
(* The refinement: the deferred writes implement the store.                 *)

\* What the loop reads, as one function.
Read == [s \in Subject |-> Get(s)]

\* The types the refinement needs, and the bounds of what is committed.
LEMMA ReadFacts ==
    ASSUME IInv
    PROVE  /\ pending \in [Subject -> Nat] /\ db \in [Subject -> Nat] /\ tx \in [Subject -> Nat]
           /\ written \in [Subject -> Nat] /\ clock \in Nat /\ hidden \in SUBSET Subject
           /\ \A s \in Subject :
                /\ Get(s) = IF pending[s] >= db[s] THEN pending[s] ELSE db[s]
                /\ Get(s) \in Nat /\ Get(s) >= pending[s] /\ Get(s) >= db[s]
                /\ db[s] <= written[s] /\ written[s] <= clock /\ pending[s] <= clock
                /\ Get(s) <= clock
                /\ pending[s] # 0 => db[s] <= pending[s]
<1>1. /\ pending \in [Subject -> Nat] /\ db \in [Subject -> Nat] /\ tx \in [Subject -> Nat]
      /\ written \in [Subject -> Nat] /\ clock \in Nat /\ hidden \in SUBSET Subject
  BY DEF IInv, TypeOK
<1>2. ASSUME NEW s \in Subject
      PROVE  /\ db[s] <= written[s] /\ written[s] <= clock /\ pending[s] <= clock
             /\ pending[s] # 0 => db[s] <= pending[s]
  <2>1. db[s] \in {0, written[s]} /\ written[s] <= clock /\ pending[s] <= clock
    BY DEF IInv, TableInv, ClockInv
  <2>2. pending[s] # 0 => written[s] <= pending[s]
    BY DEF IInv, PendingInv
  <2> QED BY <1>1, <2>1, <2>2
<1>3. ASSUME NEW s \in Subject
      PROVE  /\ Get(s) = IF pending[s] >= db[s] THEN pending[s] ELSE db[s]
             /\ Get(s) \in Nat /\ Get(s) >= pending[s] /\ Get(s) >= db[s] /\ Get(s) <= clock
  BY <1>1, <1>2 DEF Get, _Newest
<1> QED BY <1>1, <1>2, <1>3

\* A step that touches no pending state, no row and no refusal is unseen.
LEMMA StoreStutter ==
    ASSUME UNCHANGED <<pending, db, hidden>>
    PROVE  UNCHANGED Store!vars
BY DEF Store!vars, Get

\* save_many with room is Accept: what is read becomes the newest stamp.
LEMMA AcceptStep ==
    ASSUME IInv, IInv', NEW s \in Subject, SaveAccepted(s)
    PROVE  Store!Accept(s)
<1>1. /\ pending' = [pending EXCEPT ![s] = clock + 1] /\ db' = db /\ hidden' = hidden \ {s}
  BY DEF SaveAccepted, run
<1>2. \A t \in Subject : t # s => Get(t)' = Get(t)
  BY <1>1, ReadFacts DEF Get
<1>3. Get(s)' = clock + 1 /\ Get(s)' > Get(s)
  BY <1>1, ReadFacts DEF Get, _Newest
<1>4. Read' = [Read EXCEPT ![s] = Get(s)']
  BY <1>2 DEF Read
<1> QED BY <1>1, <1>3, <1>4 DEF Store!Accept, Read

\* A refused buffer is Refuse: what is read falls back on the base at most.
LEMMA RefuseStep ==
    ASSUME IInv, IInv', DropBuffer
    PROVE  Store!Refuse
<1>1. /\ pending' = Forget(unsaved) /\ db' = db
      /\ hidden' = hidden \cup {s \in Subject : pending'[s] # pending[s]}
  BY DEF DropBuffer, run
<1>2. ASSUME NEW s \in Subject
      PROVE  Get(s)' \in db[s]..Get(s) /\ (Get(s)' # Get(s) => s \in hidden')
  <2>1. pending'[s] \in {0, pending[s]}
    BY <1>1 DEF Forget
  <2>2. Get(s)' \in db[s]..Get(s)
    BY <1>1, <2>1, ReadFacts DEF Get, _Newest
  <2>3. pending'[s] = pending[s] => Get(s)' = Get(s)
    BY <1>1 DEF Get
  <2> QED BY <1>1, <2>2, <2>3
<1> QED BY <1>1, <1>2 DEF Store!Refuse

\* A callback never changes what the loop reads: the table has it.
LEMMA CallbackStep ==
    ASSUME IInv, IInv', RunCallback
    PROVE  UNCHANGED Store!vars
<1>1. PICK i \in afterCommit : pending' = Forget(batch[i].taken)
  BY DEF RunCallback
<1>2. db' = db /\ hidden' = hidden /\ tx = db
  BY DEF RunCallback, IInv, PhaseInv
<1> DEFINE Forgotten(s) == [subject |-> s, stamp |-> pending[s]] \in batch[i].taken
<1>3. ASSUME NEW s \in Subject
      PROVE  Get(s)' = Get(s)
  <2>1. pending'[s] = IF Forgotten(s) THEN 0 ELSE pending[s]
    BY <1>1 DEF Forget
  <2>2. CASE Forgotten(s)
    <3> DEFINE y == [subject |-> s, stamp |-> pending[s]]
    <3>1. y \in batch[i].taken /\ y.subject = s /\ y.stamp = pending[s]
      BY <2>2
    <3> HIDE DEF y
    <3>2. tx[y.subject] >= y.stamp
      BY <3>1 DEF IInv, TableInv
    <3>3. db[s] >= pending[s] /\ pending'[s] = 0
      BY <1>2, <2>1, <2>2, <3>1, <3>2
    <3> QED BY <1>2, <3>3, ReadFacts DEF Get, _Newest
  <2>3. CASE ~Forgotten(s)
    BY <1>2, <2>1, <2>3 DEF Get
  <2> QED BY <2>2, <2>3
<1> QED BY <1>2, <1>3 DEF Store!vars

\* A commit is Persist, or Purge when its batch is the one of the purge.
LEMMA CommitStep ==
    ASSUME IInv, IInv', Commit
    PROVE  Store!Persist \/ Store!Purge
<1>1. db' = tx /\ pending' = pending /\ hidden' = hidden /\ thread = "running" /\ tx \in [Subject -> Nat]
  BY DEF Commit, repository, IInv, TypeOK
<1>2. CASE \E i \in DOMAIN batch : batch[i].kind = "purge"
  <2>1. \A i \in DOMAIN batch : batch[i].taken = {}
    BY <1>2, BatchTypes DEF IInv, JobsInv
  <2>2. ASSUME NEW s \in Subject
        PROVE  \/ tx[s] = db[s] /\ Get(s)' = Get(s)
               \/ tx[s] = 0 /\ Get(s)' \in {0, Get(s)}
    <3>1. tx[s] \in {0, db[s]}
      BY <2>1 DEF IInv, TableInv
    <3>2. CASE tx[s] = db[s]
      BY <1>1, <3>2 DEF Get
    <3>3. CASE tx[s] = 0
      BY <1>1, <3>3, ReadFacts DEF Get, _Newest
    <3> QED BY <3>1, <3>2, <3>3
  <2> QED BY <1>1, <2>2 DEF Store!Purge
<1>3. CASE \A i \in DOMAIN batch : batch[i].kind # "purge"
  <2>1. ASSUME NEW s \in Subject
        PROVE  /\ tx[s] >= db[s]
               /\ s \notin hidden => tx[s] <= Get(s)
               /\ Get(s)' = IF tx[s] > Get(s) THEN tx[s] ELSE Get(s)
    <3>1. tx[s] >= db[s]
      BY <1>3 DEF IInv, TableInv
    <3>2. s \notin hidden => tx[s] <= Get(s)
      <4>1. CASE tx[s] \in {0, db[s]}
        BY <4>1, ReadFacts
      <4>2. CASE \E i \in DOMAIN batch : [subject |-> s, stamp |-> tx[s]] \in batch[i].taken
        <5>1. s \notin hidden => tx[s] <= pending[s]
          BY <1>1, <4>2 DEF IInv, PendingInv
        <5> QED BY <1>1, <5>1, ReadFacts
      <4> QED BY <4>1, <4>2 DEF IInv, TableInv
    <3>3. Get(s)' = IF tx[s] > Get(s) THEN tx[s] ELSE Get(s)
      BY <1>1, <3>1, ReadFacts DEF Get, _Newest
    <3> QED BY <3>1, <3>2, <3>3
  <2> QED BY <1>1, <2>1 DEF Store!Persist
<1> QED BY <1>2, <1>3

\* The end of the process is Restart: what is read is what the base holds.
LEMMA RestartStep ==
    ASSUME IInv, IInv', EndOfProcess
    PROVE  Store!Restart
<1>1. db' = db /\ hidden' = {} /\ \A s \in Subject : pending'[s] = 0
  BY DEF EndOfProcess, Empty
<1>2. \A s \in Subject : Get(s)' = db[s]
  BY <1>1, ReadFacts DEF Get, _Newest
<1>3. Read' = db
  BY <1>2, ReadFacts DEF Read
<1> QED BY <1>1, <1>3 DEF Store!Restart, Read

\* Every step of the program is a step of the store, or unseen by it.
LEMMA StoreStep == IInv /\ IInv' /\ [Next]_vars => [Store!Next]_(Store!vars)
<1> SUFFICES ASSUME IInv, IInv', [Next]_vars
             PROVE  Store!Next \/ UNCHANGED Store!vars
  OBVIOUS
<1>1. CASE Loop
  <2>1. CASE \E s \in Subject : SaveAccepted(s)
    BY <2>1, AcceptStep DEF Store!Next
  <2>2. CASE DropBuffer
    BY <2>2, RefuseStep DEF Store!Next
  <2>3. CASE SaveRefused \/ SubmitFlushJob \/ SubmitOther \/ CallFlush
    BY <2>3, StoreStutter DEF SaveRefused, SubmitFlushJob, SubmitOther, CallFlush, repository, history
  <2> QED BY <1>1, <2>1, <2>2, <2>3 DEF Loop
<1>2. CASE Execution
  <2>1. CASE Commit
    BY <2>1, CommitStep DEF Store!Next
  <2>2. CASE RunCallback
    BY <2>2, CallbackStep
  <2>3. CASE RunFlushJob \/ RunSignal \/ RunOther \/ RunPurge \/ DefectiveJob
    BY <2>3, StoreStutter DEF RunFlushJob, RunSignal, RunOther, RunPurge, DefectiveJob, repository, history
  <2>4. CASE FinishBatch \/ RollBack \/ Retry \/ AbandonBatch
    BY <2>4, StoreStutter DEF FinishBatch, RollBack, Retry, AbandonBatch, repository, history
  <2> QED BY <1>2, <2>1, <2>2, <2>3, <2>4 DEF Execution
<1>3. CASE Thread
  <2>1. CASE OpenConnection \/ GiveUpOpening \/ EmptyGet \/ CarryOn \/ ExitWhenEmpty \/ PurgeNotDue
    BY <2>1, StoreStutter DEF OpenConnection, GiveUpOpening, EmptyGet, CarryOn, ExitWhenEmpty, PurgeNotDue,
       repository, history
  <2>2. CASE GetFirst \/ Collect \/ Execute \/ StartPurge
    BY <2>2, StoreStutter DEF GetFirst, Collect, Execute, StartPurge, repository, history
  <2> QED BY <1>2, <1>3, <2>1, <2>2 DEF Thread
<1>4. CASE Stop \/ UNCHANGED vars
  BY <1>4, StoreStutter DEF Stop, vars, repository, history
<1>5. CASE EndOfProcess
  BY <1>5, RestartStep DEF Store!Next
<1> QED BY <1>1, <1>3, <1>4, <1>5 DEF Next

\* The deferred writes implement the store of StateStore: of all the steps of
\* the program, only a save, a refusal, a commit and a restart change what the
\* loop reads or what a restart finds.
THEOREM Refinement == Spec => ImplementsStore
<1>1. Init => Store!Init
  BY DEF Init, Store!Init, Get, _Newest, Empty
<1>2. IInv /\ IInv' /\ [Next]_vars => [Store!Next]_(Store!vars)
  BY StoreStep
<1> QED BY <1>1, <1>2, Invariance, PTL DEF Spec, ImplementsStore, Store!Spec

-----------------------------------------------------------------------------
(* What is left pending, and what flush() waits for.                        *)

\* A pending state is on its way, waits for the callback of its job, or was given up.
DrainInv ==
    \A s \in Subject : pending[s] # 0 =>
        LET x == [subject |-> s, stamp |-> pending[s]] IN
        \/ x \in unsaved \cup lost
        \/ \E i \in DOMAIN batch : x \in batch[i].taken /\ (thread = "calling" => i \in afterCommit)

\* A flush job that has taken x, or will take it out of the buffer.
Serves(job, x, buffer) == job.kind = "flush" /\ (x \in job.taken \/ (~job.took /\ x \in buffer))

\* The state is settled, or served by the batch as far as the signal.
ServedInBatch(x, k) == Settled(x) \/ \E i \in DOMAIN batch : i < k /\ Serves(batch[i], x, unsaved)

\* The same, or a job of the queue serves it.
ServedInQueue(x, k) ==
    \/ Settled(x)
    \/ \E i \in DOMAIN batch : Serves(batch[i], x, unsaved)
    \/ \E i \in DOMAIN queue : i < k /\ Serves(queue[i], x, unsaved)

\* A job deposited for the buffer has not taken it yet.
DepositedInv ==
    flushSubmitted /\ saver = "ready" /\ ~stopping =>
        \/ \E i \in DOMAIN batch : batch[i].kind = "flush" /\ ~batch[i].took
        \/ \E i \in DOMAIN queue : queue[i].kind = "flush"

\* The signal of flush() comes after the jobs that serve the states it waits for.
SignalInv ==
    /\ unsaved # {} => flushSubmitted
    /\ flushed.done => flushed.called
    /\ ~flushed.called =>
        /\ \A i \in DOMAIN batch : batch[i].kind # "signal"
        /\ \A i \in DOMAIN queue : queue[i].kind # "signal"
    /\ ~stopping =>
        /\ flushed.done => \A x \in flushed.covers : Settled(x)
        /\ \A k \in DOMAIN batch : batch[k].kind = "signal" => \A x \in flushed.covers : ServedInBatch(x, k)
        /\ \A k \in DOMAIN queue : queue[k].kind = "signal" => \A x \in flushed.covers : ServedInQueue(x, k)

\* The first job of the queue becomes the last one of the batch.
LEMMA CollectFacts ==
    ASSUME IInv, GetFirst \/ Collect
    PROVE  /\ queue # <<>> /\ DOMAIN batch' = DOMAIN batch \cup {Len(batch) + 1} /\ Len(batch) \in Nat
           /\ \A i \in DOMAIN batch : batch'[i] = batch[i] /\ i < Len(batch) + 1
           /\ batch'[Len(batch) + 1] = queue[1]
           /\ \A i \in DOMAIN queue' : i \in Nat /\ i + 1 \in DOMAIN queue /\ queue'[i] = queue[i + 1]
           /\ \A i \in DOMAIN queue : i \in Nat /\ (i = 1 \/ (i - 1 \in DOMAIN queue' /\ queue'[i - 1] = queue[i]))
<1>1. queue \in Seq(Job) /\ batch \in Seq(Job) /\ queue # <<>> /\ queue' = Tail(queue)
  BY DEF IInv, TypeOK, GetFirst, Collect
<1>2. batch' = Append(batch, Head(queue))
  <2>1. CASE GetFirst
    <3>1. batch = <<>>
      BY <2>1 DEF IInv, PhaseInv, GetFirst
    <3>2. Append(<<>>, Head(queue)) = <<Head(queue)>>
      BY <1>1
    <3> QED BY <2>1, <3>1, <3>2 DEF GetFirst
  <2>2. CASE Collect
    BY <2>2 DEF Collect
  <2> QED BY <2>1, <2>2
<1>3. Head(queue) = queue[1] /\ Head(queue) \in Job
  BY <1>1
<1>4. \A i \in DOMAIN queue' : i \in Nat /\ i + 1 \in DOMAIN queue /\ queue'[i] = queue[i + 1]
  BY <1>1
<1>5. \A i \in DOMAIN queue : i \in Nat /\ (i = 1 \/ (i - 1 \in DOMAIN queue' /\ queue'[i - 1] = queue[i]))
  BY <1>1
<1> QED BY <1>1, <1>2, <1>3, <1>4, <1>5

\* Nothing leaves the way of the pending states, for the steps that take no part in it.
LEMMA DrainKept ==
    ASSUME DrainInv, UNCHANGED <<pending, unsaved, lost>>, DOMAIN batch \subseteq DOMAIN batch',
           \A i \in DOMAIN batch : batch'[i] = batch[i],
           thread' = "calling" => thread = "calling" /\ afterCommit' = afterCommit
    PROVE  DrainInv'
BY DEF DrainInv

\* A job of the batch that may take the buffer.
LEMMA DrainTaken ==
    ASSUME IInv, DrainInv, thread = "running", thread' = "running", UNCHANGED <<pending, lost>>,
           position \in DOMAIN batch, batch[position].kind = "flush", Take
    PROVE  DrainInv'
<1>1. /\ DOMAIN batch' = DOMAIN batch
      /\ \A i \in DOMAIN batch : i # position => batch'[i] = batch[i]
      /\ \/ batch'[position] = batch[position] /\ unsaved' = unsaved
         \/ batch'[position].taken = unsaved /\ unsaved' = {} /\ batch[position].taken = {}
  BY TakeFacts
<1> SUFFICES ASSUME NEW s \in Subject, pending[s] # 0,
                    NEW x, x = [subject |-> s, stamp |-> pending[s]]
             PROVE  \/ x \in unsaved' \cup lost
                    \/ \E i \in DOMAIN batch' : x \in batch'[i].taken
  BY DEF DrainInv
<1>2. x \in unsaved \cup lost \/ \E i \in DOMAIN batch : x \in batch[i].taken
  BY DEF DrainInv
<1>3. CASE x \in unsaved \cup lost
  BY <1>1, <1>3
<1>4. CASE \E i \in DOMAIN batch : x \in batch[i].taken
  BY <1>1, <1>4
<1> QED BY <1>2, <1>3, <1>4

LEMMA NextDrains == IInv /\ DrainInv /\ [Next]_vars => DrainInv'
<1> SUFFICES ASSUME IInv, DrainInv, [Next]_vars PROVE DrainInv'
  OBVIOUS
<1>1. TypeOK /\ JobsInv /\ PhaseInv
  BY DEF IInv
<1>2. ASSUME NEW s \in Subject, SaveAccepted(s) PROVE DrainInv'
  <2>1. /\ pending' = [pending EXCEPT ![s] = clock + 1]
        /\ unsaved' = unsaved \cup {[subject |-> s, stamp |-> clock + 1]}
        /\ UNCHANGED <<batch, thread, afterCommit, lost>>
    BY <1>2 DEF SaveAccepted, run
  <2> QED BY <1>1, <2>1 DEF DrainInv, TypeOK
<1>3. CASE DropBuffer
  <2>1. pending' = Forget(unsaved) /\ lost' = lost \cup unsaved /\ UNCHANGED <<batch, thread, afterCommit>>
    BY <1>3 DEF DropBuffer, run
  <2> QED BY <1>1, <2>1 DEF DrainInv, Forget, TypeOK
<1>4. CASE SaveRefused \/ SubmitFlushJob \/ SubmitOther \/ CallFlush \/ Stop
  BY <1>4, DrainKept DEF SaveRefused, SubmitFlushJob, SubmitOther, CallFlush, Stop, repository, writer, run, history
<1>5. CASE OpenConnection \/ GiveUpOpening \/ EmptyGet \/ Execute \/ PurgeNotDue \/ CarryOn \/ ExitWhenEmpty
           \/ RollBack \/ Retry
  BY <1>5, DrainKept DEF OpenConnection, GiveUpOpening, EmptyGet, Execute, PurgeNotDue, CarryOn, ExitWhenEmpty,
     RollBack, Retry, BeginTry, repository, writer, history
<1>6. CASE GetFirst \/ Collect
  <2>1. UNCHANGED <<pending, unsaved, lost>> /\ thread' = "collecting"
    BY <1>6 DEF GetFirst, Collect, repository, history
  <2> QED BY <1>6, <2>1, CollectFacts, DrainKept
<1>7. CASE StartPurge
  <2>1. batch = <<>> /\ UNCHANGED <<pending, unsaved, lost>> /\ thread' = "running"
    BY <1>1, <1>7 DEF PhaseInv, StartPurge, BeginTry, repository, history
  <2>2. DOMAIN batch = {}
    BY <2>1
  <2> QED BY <2>1, <2>2, DrainKept
<1>8. CASE RunFlushJob
  <2>1. position \in DOMAIN batch
    BY <1>1, <1>8 DEF RunFlushJob, Running, TypeOK
  <2> QED BY <1>8, <2>1, DrainTaken DEF RunFlushJob, Running, history
<1>9. CASE DefectiveJob
  <2>1. position \in DOMAIN batch /\ UNCHANGED <<pending, lost, thread, afterCommit>>
    BY <1>1, <1>9 DEF DefectiveJob, TypeOK, history
  <2>2. CASE batch[position].kind = "flush"
    BY <1>9, <2>1, <2>2, DrainTaken DEF DefectiveJob
  <2>3. CASE batch[position].kind # "flush"
    BY <1>9, <2>1, <2>3, DrainKept DEF DefectiveJob
  <2> QED BY <2>2, <2>3
<1>10. CASE RunSignal \/ RunOther \/ RunPurge
  BY <1>10, DrainKept DEF RunSignal, RunOther, RunPurge, Running, repository, history
<1>11. CASE Commit
  <2>1. /\ UNCHANGED <<pending, unsaved, batch, afterCommit>> /\ thread = "running"
        /\ lost' = lost \cup TakenBy(DOMAIN batch \ afterCommit)
    BY <1>11 DEF Commit, repository
  <2> QED BY <2>1 DEF DrainInv, TakenBy
<1>12. CASE RunCallback
  <2>1. PICK i \in afterCommit : afterCommit' = afterCommit \ {i} /\ pending' = Forget(batch[i].taken)
    BY <1>12 DEF RunCallback
  <2>2. UNCHANGED <<unsaved, lost, batch, thread>> /\ thread = "calling"
    BY <1>12 DEF RunCallback
  <2> SUFFICES ASSUME NEW s \in Subject, pending'[s] # 0,
                      NEW x, x = [subject |-> s, stamp |-> pending[s]]
               PROVE  /\ pending'[s] = pending[s]
                      /\ x \in unsaved \cup lost \/ \E j \in DOMAIN batch : x \in batch[j].taken /\ j \in afterCommit'
    BY <2>2 DEF DrainInv
  <2>3. pending'[s] = pending[s] /\ x \notin batch[i].taken
    BY <1>1, <2>1 DEF Forget, TypeOK
  <2> QED BY <2>1, <2>2, <2>3 DEF DrainInv
<1>13. CASE FinishBatch
  BY <1>13 DEF FinishBatch, DrainInv, AfterBatch, repository, history
<1>14. CASE AbandonBatch
  <2>1. /\ UNCHANGED <<pending, unsaved>> /\ lost' = lost \cup TakenBy(DOMAIN batch)
    BY <1>14 DEF AbandonBatch, repository
  <2> QED BY <2>1 DEF DrainInv, TakenBy
<1>15. CASE EndOfProcess
  BY <1>15 DEF EndOfProcess, DrainInv, Empty
<1>16. CASE UNCHANGED vars
  BY <1>16, DrainKept DEF vars, repository, run, history
<1> QED BY <1>2, <1>3, <1>4, <1>5, <1>6, <1>7, <1>8, <1>9, <1>10, <1>11, <1>12, <1>13, <1>14, <1>15, <1>16
        DEF Next, Loop, Thread, Execution

\* Once the thread has nothing left to do, no state is pending but those it has given up.
THEOREM NothingStaysPending == Spec => []PendingDrains
<1>1. Init => DrainInv
  BY DEF Init, DrainInv, Empty
<1>2. Spec => []DrainInv
  BY <1>1, NextDrains, Invariance, PTL DEF Spec
<1>3. IInv /\ DrainInv => PendingDrains
  BY DEF IInv, PhaseInv, DrainInv, PendingDrains
<1> QED BY <1>2, <1>3, Invariance, PTL

\* A job joins the end of the queue.
LEMMA SubmitFacts ==
    ASSUME IInv, NEW job \in Job, Submit(job)
    PROVE  /\ DOMAIN queue' = DOMAIN queue \cup {Len(queue) + 1} /\ Len(queue) \in Nat
           /\ \A i \in DOMAIN queue : queue'[i] = queue[i] /\ i \in Nat /\ i < Len(queue) + 1
           /\ queue'[Len(queue) + 1] = job
           /\ ~stopping /\ stopping' = stopping
BY DEF IInv, TypeOK, Submit, Accepts

LEMMA JobOfIsJob == \A kind \in {"flush", "signal", "other", "purge"} : JobOf(kind) \in Job /\ JobOf(kind).kind = kind
BY DEF JobOf, Job

\* The thread rests with no batch, and a batch that is finished has nothing left to take.
LEMMA RestFacts ==
    ASSUME IInv
    PROVE  /\ StartPurge => DOMAIN batch = {} /\ DOMAIN batch' = {1} /\ batch'[1].kind = "purge"
           /\ FinishBatch => DOMAIN batch' = {}
                /\ \A i \in DOMAIN batch : (batch[i].kind = "flush" => batch[i].took)
                      /\ \A x \in batch[i].taken : Settled(x)
<1>1. ASSUME StartPurge PROVE DOMAIN batch = {} /\ DOMAIN batch' = {1} /\ batch'[1].kind = "purge"
  <2>1. batch = <<>> /\ batch' = <<JobOf("purge")>>
    BY <1>1 DEF IInv, PhaseInv, StartPurge
  <2> QED BY <2>1 DEF JobOf
<1>2. ASSUME FinishBatch PROVE DOMAIN batch' = {}
  BY <1>2 DEF FinishBatch
<1>3. ASSUME FinishBatch PROVE \A i \in DOMAIN batch : (batch[i].kind = "flush" => batch[i].took)
                      /\ \A x \in batch[i].taken : Settled(x)
  BY <1>3 DEF IInv, PhaseInv, SettleInv, FinishBatch
<1> QED BY <1>1, <1>2, <1>3

LEMMA NextDeposited == IInv /\ DepositedInv /\ [Next]_vars => DepositedInv'
<1> SUFFICES ASSUME IInv, DepositedInv, [Next]_vars, flushSubmitted', saver' = "ready", ~stopping'
             PROVE  \/ \E i \in DOMAIN batch' : batch'[i].kind = "flush" /\ ~batch'[i].took
                    \/ \E i \in DOMAIN queue' : queue'[i].kind = "flush"
  BY DEF DepositedInv
<1>1. ASSUME UNCHANGED <<batch, flushSubmitted, saver, stopping>>,
             \A i \in DOMAIN queue : i \in DOMAIN queue' /\ queue'[i] = queue[i]
      PROVE  DepositedInv'
  BY <1>1 DEF DepositedInv
<1>2. ASSUME NEW s \in Subject, SaveAccepted(s) PROVE DepositedInv'
  BY <1>2 DEF SaveAccepted, DepositedInv, writer, run
<1>3. CASE DropBuffer
  BY <1>3 DEF DropBuffer
<1>4. CASE SubmitFlushJob
  <2>1. queue'[Len(queue) + 1].kind = "flush" /\ Len(queue) + 1 \in DOMAIN queue'
    BY <1>4, SubmitFacts, JobOfIsJob DEF SubmitFlushJob
  <2> QED BY <2>1
<1>5. CASE SubmitOther
  <2>1. UNCHANGED <<batch, flushSubmitted, saver>>
    BY <1>5 DEF SubmitOther, repository, run
  <2>2. CASE Submit(JobOf("other"))
    BY <1>1, <2>1, <2>2, SubmitFacts, JobOfIsJob DEF DepositedInv
  <2>3. CASE Refused
    BY <1>1, <2>1, <2>3 DEF Refused, DepositedInv
  <2> QED BY <1>5, <2>2, <2>3 DEF SubmitOther
<1>6. CASE CallFlush
  BY <1>1, <1>6, SubmitFacts, JobOfIsJob DEF CallFlush, DepositedInv, repository, run
<1>7. CASE GetFirst \/ Collect
  <2>0. UNCHANGED <<flushSubmitted, saver, stopping>>
    BY <1>7 DEF GetFirst, Collect, repository
  <2>1. flushSubmitted /\ saver = "ready" /\ ~stopping
    BY <2>0
  <2>2. CASE \E i \in DOMAIN batch : batch[i].kind = "flush" /\ ~batch[i].took
    BY <1>7, <2>2, CollectFacts
  <2>3. CASE \E i \in DOMAIN queue : queue[i].kind = "flush"
    <3>1. PICK i \in DOMAIN queue : queue[i].kind = "flush" /\ ~queue[i].took
      BY <2>3 DEF IInv, JobsInv
    <3>2. CASE i = 1
      BY <1>7, <3>1, <3>2, CollectFacts
    <3>3. CASE i # 1
      BY <1>7, <3>1, <3>3, CollectFacts
    <3> QED BY <3>2, <3>3
  <2> QED BY <2>1, <2>2, <2>3 DEF DepositedInv
<1>8. CASE StartPurge \/ FinishBatch
  <2>1. UNCHANGED <<queue, flushSubmitted, saver, stopping>>
    BY <1>8 DEF StartPurge, FinishBatch, repository, writer
  <2>2. ~\E i \in DOMAIN batch : batch[i].kind = "flush" /\ ~batch[i].took
    BY <1>8, RestFacts
  <2> QED BY <2>1, <2>2 DEF DepositedInv
<1>9. CASE RunFlushJob \/ DefectiveJob
  <2>1. UNCHANGED <<queue, saver, stopping>>
    BY <1>9 DEF RunFlushJob, DefectiveJob, writer
  <2>2. UNCHANGED <<batch, flushSubmitted>> \/ ~flushSubmitted'
    BY <1>9 DEF RunFlushJob, DefectiveJob, Take
  <2> QED BY <1>1, <2>1, <2>2 DEF DepositedInv
<1>10. CASE OpenConnection \/ GiveUpOpening \/ EmptyGet \/ Execute \/ PurgeNotDue \/ CarryOn \/ ExitWhenEmpty
            \/ RollBack \/ Retry \/ RunSignal \/ RunOther \/ RunPurge \/ Commit \/ RunCallback \/ SaveRefused
  <2>1. UNCHANGED <<batch, queue, flushSubmitted, saver, stopping>>
    BY <1>10 DEF OpenConnection, GiveUpOpening, EmptyGet, Execute, PurgeNotDue, CarryOn, ExitWhenEmpty, SaveRefused,
       RollBack, Retry, RunSignal, RunOther, RunPurge, Commit, RunCallback, BeginTry, repository, writer, run
  <2> QED BY <1>1, <2>1 DEF DepositedInv
<1>11. CASE Stop \/ AbandonBatch \/ EndOfProcess
  BY <1>11 DEF Stop, AbandonBatch, EndOfProcess
<1>12. CASE UNCHANGED vars
  BY <1>1, <1>12 DEF vars, repository, writer, run, DepositedInv
<1>13. ASSUME DepositedInv'
       PROVE  \/ \E i \in DOMAIN batch' : batch'[i].kind = "flush" /\ ~batch'[i].took
              \/ \E i \in DOMAIN queue' : queue'[i].kind = "flush"
  BY <1>13 DEF DepositedInv
<1> QED BY <1>2, <1>3, <1>4, <1>5, <1>6, <1>7, <1>8, <1>9, <1>10, <1>11, <1>12, <1>13
        DEF Next, Loop, Thread, Execution

\* What was settled stays so, until the process ends.
LEMMA SettledStays ==
    ASSUME IInv, [Next]_vars, ~EndOfProcess, NEW x \in State, Settled(x)
    PROVE  Settled(x)'
<1>1. /\ written \in [Subject -> Nat] /\ tx \in [Subject -> Nat] /\ x.subject \in Subject /\ x.stamp \in Nat
  BY DEF IInv, TypeOK, State
<1>2. lost \subseteq lost' /\ (written' = written \/ Commit)
  BY DEF Next, Loop, Thread, Execution, SaveAccepted, SaveRefused, SubmitFlushJob, DropBuffer, SubmitOther, CallFlush,
     Stop, OpenConnection, GiveUpOpening, EmptyGet, GetFirst, Collect, Execute, CarryOn, ExitWhenEmpty, StartPurge,
     PurgeNotDue, RunFlushJob, RunSignal, RunOther, RunPurge, DefectiveJob, Commit, RunCallback, FinishBatch,
     RollBack, Retry, AbandonBatch, vars, history
<1>3. CASE written' = written
  BY <1>2, <1>3 DEF Settled
<1>4. CASE Commit
  <2>1. written'[x.subject] = _Newest(written[x.subject], tx[x.subject])
    BY <1>1, <1>4 DEF Commit
  <2>2. written'[x.subject] >= written[x.subject]
    BY <1>1, <2>1 DEF _Newest
  <2>3. written'[x.subject] \in Nat
    BY <1>1, <2>1 DEF _Newest
  <2> QED BY <1>1, <1>2, <2>2, <2>3 DEF Settled
<1> QED BY <1>2, <1>3, <1>4

\* The steps that leave the batch and the jobs of the queue where they are.
LEMMA SignalKept ==
    ASSUME IInv, SignalInv, [Next]_vars, ~EndOfProcess, UNCHANGED <<flushed, stopping, batch>>,
           unsaved' # {} => flushSubmitted',
           \A i \in DOMAIN queue : i \in DOMAIN queue' /\ queue'[i] = queue[i],
           \A i \in DOMAIN queue' : i \notin DOMAIN queue => queue'[i].kind # "signal",
           \A x \in unsaved : x \in unsaved' \/ x \in lost'
    PROVE  SignalInv'
<1>1. flushed.covers \subseteq State
  BY DEF IInv, TypeOK
<1>2. \A x \in flushed.covers : Settled(x) => Settled(x)'
  BY <1>1, SettledStays
<1>3. \A job, x : Serves(job, x, unsaved) => Serves(job, x, unsaved') \/ Settled(x)'
  BY DEF Serves, Settled
<1>4. ASSUME NEW k, NEW x \in flushed.covers, ServedInBatch(x, k) PROVE ServedInBatch(x, k)'
  BY <1>2, <1>3, <1>4 DEF ServedInBatch
<1>5. ASSUME NEW k, NEW x \in flushed.covers, ServedInQueue(x, k) PROVE ServedInQueue(x, k)'
  BY <1>2, <1>3, <1>5 DEF ServedInQueue
<1> QED BY <1>2, <1>4, <1>5 DEF SignalInv

\* flush() is called: what was accepted is settled, or a job before the signal serves it.
LEMMA CallFlushSignals ==
    ASSUME IInv, SignalInv, DepositedInv, CallFlush, [Next]_vars
    PROVE  SignalInv'
<1>1. /\ saver = "ready" /\ ~flushed.called /\ ~stopping /\ stopping' = stopping
      /\ flushed' = [called |-> TRUE, covers |-> accepted, done |-> FALSE]
      /\ UNCHANGED <<unsaved, flushSubmitted, batch, lost, written>>
  BY DEF CallFlush, Submit, Accepts, repository, run
<1>2. /\ DOMAIN queue' = DOMAIN queue \cup {Len(queue) + 1}
      /\ \A i \in DOMAIN queue : queue'[i] = queue[i] /\ i < Len(queue) + 1
  BY SubmitFacts, JobOfIsJob DEF CallFlush
<1>3. /\ \A i \in DOMAIN batch : batch[i].kind # "signal"
      /\ \A i \in DOMAIN queue : queue[i].kind # "signal"
  BY <1>1 DEF SignalInv
<1>4. ASSUME NEW x \in accepted, NEW k, k = Len(queue) + 1 PROVE ServedInQueue(x, k)'
  <2>1. Settled(x) \/ x \in unsaved \/ \E i \in DOMAIN batch : x \in batch[i].taken
    BY DEF IInv, SettleInv
  <2>2. CASE Settled(x)
    BY <1>1, <2>2 DEF ServedInQueue, Settled
  <2>3. CASE \E i \in DOMAIN batch : x \in batch[i].taken
    BY <1>1, <2>3 DEF ServedInQueue, Serves, IInv, JobsInv
  <2>4. CASE x \in unsaved
    <3>1. \/ \E i \in DOMAIN batch : batch[i].kind = "flush" /\ ~batch[i].took
          \/ \E i \in DOMAIN queue : queue[i].kind = "flush" /\ ~queue[i].took
      BY <1>1, <2>4 DEF SignalInv, DepositedInv, IInv, JobsInv
    <3>2. \/ \E i \in DOMAIN batch : Serves(batch[i], x, unsaved)
          \/ \E i \in DOMAIN queue : Serves(queue[i], x, unsaved)
      BY <2>4, <3>1 DEF Serves
    <3>3. \/ \E i \in DOMAIN batch' : Serves(batch'[i], x, unsaved')
          \/ \E i \in DOMAIN queue' : i < Len(queue) + 1 /\ Serves(queue'[i], x, unsaved')
      BY <1>1, <1>2, <3>2 DEF Serves
    <3> QED BY <1>4, <3>3 DEF ServedInQueue
  <2> QED BY <2>1, <2>2, <2>3, <2>4
<1> QED BY <1>1, <1>2, <1>3, <1>4 DEF SignalInv

LEMMA CollectSignals ==
    ASSUME IInv, SignalInv, GetFirst \/ Collect
    PROVE  SignalInv'
<1> DEFINE last == Len(batch) + 1
<1>1. /\ UNCHANGED <<unsaved, flushSubmitted, stopping, flushed, lost, written>>
  BY DEF GetFirst, Collect, repository, history
<1>2. /\ DOMAIN batch' = DOMAIN batch \cup {last} /\ last \in Nat
      /\ \A i \in DOMAIN batch : batch'[i] = batch[i] /\ i < last
      /\ batch'[last] = queue[1] /\ 1 \in DOMAIN queue
      /\ \A i \in DOMAIN queue' : i \in Nat /\ i + 1 \in DOMAIN queue /\ queue'[i] = queue[i + 1]
      /\ \A i \in DOMAIN queue : i \in Nat /\ (i = 1 \/ (i - 1 \in DOMAIN queue' /\ queue'[i - 1] = queue[i]))
  <2>1. 1 \in DOMAIN queue
    BY CollectFacts DEF IInv, TypeOK
  <2> QED BY <2>1, CollectFacts
<1> HIDE DEF last
<1>3. \A job, x : Serves(job, x, unsaved') <=> Serves(job, x, unsaved)
  BY <1>1 DEF Serves
<1>4. \A x : Settled(x)' <=> Settled(x)
  BY <1>1 DEF Settled
<1>5. ASSUME NEW x, NEW k \in DOMAIN batch, ServedInBatch(x, k) PROVE ServedInBatch(x, k)'
  BY <1>2, <1>3, <1>4, <1>5 DEF ServedInBatch
<1>6. ASSUME NEW x, ServedInQueue(x, 1), NEW k, k = last PROVE ServedInBatch(x, k)'
  <2>1. \A i \in DOMAIN queue : ~(i < 1)
    BY DEF IInv, TypeOK
  <2>2. Settled(x) \/ \E i \in DOMAIN batch : Serves(batch[i], x, unsaved)
    BY <1>6, <2>1 DEF ServedInQueue
  <2> QED BY <1>2, <1>3, <1>4, <1>6, <2>2 DEF ServedInBatch
<1>7. ASSUME NEW x, NEW k \in DOMAIN queue', ServedInQueue(x, k + 1) PROVE ServedInQueue(x, k)'
  <2>1. CASE Settled(x)
    BY <1>4, <2>1 DEF ServedInQueue
  <2>2. CASE \E i \in DOMAIN batch : Serves(batch[i], x, unsaved)
    BY <1>2, <1>3, <2>2 DEF ServedInQueue
  <2>3. CASE \E i \in DOMAIN queue : i < k + 1 /\ Serves(queue[i], x, unsaved)
    <3>1. PICK i \in DOMAIN queue : i < k + 1 /\ Serves(queue[i], x, unsaved)
      BY <2>3
    <3>2. CASE i = 1
      BY <1>2, <1>3, <3>1, <3>2 DEF ServedInQueue
    <3>3. CASE i # 1
      <4>1. i \in Nat /\ k \in Nat /\ i - 1 < k /\ i - 1 \in DOMAIN queue' /\ queue'[i - 1] = queue[i]
        BY <1>2, <3>1, <3>3
      <4>2. Serves(queue'[i - 1], x, unsaved')
        BY <1>3, <3>1, <4>1
      <4> QED BY <4>1, <4>2 DEF ServedInQueue, Serves
    <3> QED BY <3>2, <3>3
  <2> QED BY <1>7, <2>1, <2>2, <2>3 DEF ServedInQueue
<1>8. ASSUME ~stopping, NEW k \in DOMAIN batch', batch'[k].kind = "signal", NEW x \in flushed.covers
      PROVE  ServedInBatch(x, k)'
  <2>1. CASE k \in DOMAIN batch
    BY <1>2, <1>5, <1>8, <2>1 DEF SignalInv
  <2>2. CASE k = last
    BY <1>2, <1>6, <1>8, <2>2 DEF SignalInv
  <2> QED BY <1>2, <2>1, <2>2
<1>9. ASSUME ~stopping, NEW k \in DOMAIN queue', queue'[k].kind = "signal", NEW x \in flushed.covers
      PROVE  ServedInQueue(x, k)'
  BY <1>2, <1>7, <1>9 DEF SignalInv
<1>10. ~flushed.called => /\ \A i \in DOMAIN batch' : batch'[i].kind # "signal"
                         /\ \A i \in DOMAIN queue' : queue'[i].kind # "signal"
  BY <1>2 DEF SignalInv
<1> QED BY <1>1, <1>4, <1>8, <1>9, <1>10 DEF SignalInv

\* The batch is over, or its turn is the one of a purge: nobody waits for it.
LEMMA RestSignals ==
    ASSUME IInv, SignalInv, StartPurge \/ FinishBatch
    PROVE  SignalInv'
<1>1. UNCHANGED <<unsaved, flushSubmitted, stopping, flushed, lost, written, queue>>
  BY DEF StartPurge, FinishBatch, BeginTry, repository, writer, history
<1>2. \A i \in DOMAIN batch' : batch'[i].kind # "signal"
  BY RestFacts
<1>3. \A x : Settled(x)' <=> Settled(x)
  BY <1>1 DEF Settled
<1>4. \A job, x : Serves(job, x, unsaved') <=> Serves(job, x, unsaved)
  BY <1>1 DEF Serves
<1>5. ASSUME NEW x, NEW i \in DOMAIN batch, Serves(batch[i], x, unsaved) PROVE Settled(x)
  BY <1>5, RestFacts DEF Serves
<1>6. ASSUME NEW k, NEW x, ServedInQueue(x, k) PROVE ServedInQueue(x, k)'
  <2>1. Settled(x) \/ \E i \in DOMAIN queue : i < k /\ Serves(queue[i], x, unsaved)
    BY <1>5, <1>6 DEF ServedInQueue
  <2> QED BY <1>1, <1>3, <1>4, <2>1 DEF ServedInQueue
<1> QED BY <1>1, <1>2, <1>3, <1>6 DEF SignalInv

\* The states of the buffer are taken by the first job that may take them.
LEMMA TakeSignals ==
    ASSUME IInv, SignalInv, thread = "running", position \in DOMAIN batch, batch[position].kind = "flush", Take,
           UNCHANGED <<stopping, flushed, lost, written, queue>>
    PROVE  SignalInv'
<1>1. /\ DOMAIN batch' = DOMAIN batch
      /\ \A i \in DOMAIN batch : batch'[i].kind = batch[i].kind
      /\ \A i \in DOMAIN batch : i # position => batch'[i] = batch[i]
      /\ \/ batch'[position] = batch[position] /\ unsaved' = unsaved
         \/ batch'[position].taken = unsaved /\ unsaved' = {} /\ batch[position].taken = {}
  BY TakeFacts
<1>2. unsaved' # {} => flushSubmitted'
  BY DEF Take, SignalInv
<1>3. \A x : Settled(x)' <=> Settled(x)
  BY DEF Settled
<1>4. /\ \A i \in DOMAIN batch : i \in Nat /\ (i < position /\ batch[i].kind = "flush" => batch[i].took)
      /\ position \in Nat
  BY DEF IInv, TypeOK, PhaseInv
<1>5. ASSUME NEW k \in Nat, NEW x, ServedInBatch(x, k) PROVE ServedInBatch(x, k)'
  <2>1. CASE Settled(x)
    BY <1>3, <2>1 DEF ServedInBatch
  <2>2. ASSUME NEW i \in DOMAIN batch, i < k, Serves(batch[i], x, unsaved) PROVE ServedInBatch(x, k)'
    <3>1. CASE batch'[position] = batch[position] /\ unsaved' = unsaved
      <4>1. batch'[i] = batch[i] /\ Serves(batch'[i], x, unsaved')
        BY <1>1, <2>2, <3>1 DEF Serves
      <4> QED BY <1>1, <2>2, <4>1 DEF ServedInBatch, Serves
    <3>2. CASE batch'[position].taken = unsaved /\ unsaved' = {} /\ batch[position].taken = {}
      <4>1. CASE x \in batch[i].taken
        <5>1. i # position
          BY <3>2, <4>1
        <5>2. Serves(batch'[i], x, unsaved')
          BY <1>1, <2>2, <4>1, <5>1 DEF Serves
        <5> QED BY <1>1, <2>2, <5>2 DEF ServedInBatch, Serves
      <4>2. CASE x \notin batch[i].taken
        <5>1. x \in unsaved /\ ~batch[i].took /\ batch[i].kind = "flush"
          BY <2>2, <4>2 DEF Serves
        <5>2. position < k
          BY <1>4, <2>2, <5>1
        <5>3. Serves(batch'[position], x, unsaved')
          BY <1>1, <3>2, <5>1 DEF Serves
        <5> QED BY <1>1, <5>2, <5>3 DEF ServedInBatch, Serves
      <4> QED BY <4>1, <4>2
    <3> QED BY <1>1, <3>1, <3>2
  <2> QED BY <1>5, <2>1, <2>2 DEF ServedInBatch
<1>6. ASSUME NEW k, NEW x, ServedInQueue(x, k) PROVE ServedInQueue(x, k)'
  <2>1. CASE Settled(x)
    BY <1>3, <2>1 DEF ServedInQueue
  <2>2. ASSUME NEW i \in DOMAIN batch, Serves(batch[i], x, unsaved) PROVE ServedInQueue(x, k)'
    <3>1. i < i + 1 /\ i + 1 \in Nat
      BY <1>4
    <3>2. ServedInBatch(x, i + 1)
      BY <2>2, <3>1 DEF ServedInBatch
    <3>3. ServedInBatch(x, i + 1)'
      BY <1>5, <3>1, <3>2
    <3> QED BY <3>3 DEF ServedInBatch, ServedInQueue
  <2>3. ASSUME NEW i \in DOMAIN queue, i < k, Serves(queue[i], x, unsaved) PROVE ServedInQueue(x, k)'
    <3>1. CASE x \in unsaved'
      BY <2>3, <3>1 DEF ServedInQueue, Serves
    <3>2. CASE x \notin unsaved'
      <4>1. x \in unsaved
        BY <2>3 DEF Serves, IInv, JobsInv
      <4>2. Serves(batch'[position], x, unsaved')
        BY <1>1, <3>2, <4>1 DEF Serves
      <4> QED BY <1>1, <4>2 DEF ServedInQueue, Serves
    <3> QED BY <3>1, <3>2
  <2> QED BY <1>6, <2>1, <2>2, <2>3 DEF ServedInQueue
<1> QED BY <1>1, <1>2, <1>3, <1>4, <1>5, <1>6 DEF SignalInv

\* The signal is given once its batch is committed.
LEMMA CallbackSignals ==
    ASSUME IInv, SignalInv, RunCallback
    PROVE  SignalInv'
<1>1. UNCHANGED <<unsaved, flushSubmitted, queue, stopping, batch, lost, written>> /\ thread = "calling"
  BY DEF RunCallback, writer
<1>2. PICK i \in afterCommit :
        flushed' = IF batch[i].kind = "signal" THEN [flushed EXCEPT !.done = TRUE] ELSE flushed
  BY DEF RunCallback
<1>3. i \in DOMAIN batch /\ flushed \in [called : BOOLEAN, covers : SUBSET State, done : BOOLEAN]
  BY DEF IInv, TypeOK
<1>4. /\ flushed'.called = flushed.called /\ flushed'.covers = flushed.covers
      /\ flushed'.done => flushed.done \/ batch[i].kind = "signal"
  BY <1>2, <1>3
<1>5. \A x : Settled(x)' <=> Settled(x)
  BY <1>1 DEF Settled
<1>6. ASSUME NEW x, NEW k, ServedInBatch(x, k) PROVE Settled(x)
  <2>1. \A j \in DOMAIN batch : Serves(batch[j], x, unsaved) => Settled(x)
    BY <1>1 DEF IInv, PhaseInv, SettleInv, Serves
  <2> QED BY <1>6, <2>1 DEF ServedInBatch
<1>7. ASSUME ~stopping, batch[i].kind = "signal" PROVE \A x \in flushed.covers : Settled(x)
  BY <1>3, <1>6, <1>7 DEF SignalInv
<1>8. batch[i].kind = "signal" => flushed.called
  BY <1>3 DEF SignalInv
<1>9. \A x, k : /\ ServedInBatch(x, k)' <=> ServedInBatch(x, k)
                /\ ServedInQueue(x, k)' <=> ServedInQueue(x, k)
  BY <1>1, <1>5 DEF ServedInBatch, ServedInQueue
<1> QED BY <1>1, <1>4, <1>5, <1>7, <1>8, <1>9 DEF SignalInv

\* The writer has been told to stop, or another process begins.
LEMMA EndSignals ==
    ASSUME IInv, SignalInv, Stop \/ AbandonBatch \/ EndOfProcess
    PROVE  SignalInv'
<1>1. CASE Stop
  BY <1>1 DEF Stop, SignalInv, repository, run, history
<1>2. CASE AbandonBatch
  <2>1. DOMAIN batch' = {} /\ stopping' /\ UNCHANGED <<unsaved, flushSubmitted, queue, flushed>>
    BY <1>2 DEF AbandonBatch, repository
  <2> QED BY <2>1 DEF SignalInv
<1>3. CASE EndOfProcess
  <2>1. /\ unsaved' = {} /\ ~flushed'.done /\ DOMAIN batch' = {} /\ DOMAIN queue' = {}
    BY <1>3 DEF EndOfProcess
  <2> QED BY <2>1 DEF SignalInv
<1> QED BY <1>1, <1>2, <1>3

LEMMA NextSignals == IInv /\ DepositedInv /\ SignalInv /\ [Next]_vars => SignalInv'
<1> SUFFICES ASSUME IInv, DepositedInv, SignalInv, [Next]_vars PROVE SignalInv'
  OBVIOUS
<1>1. CASE EndOfProcess \/ Stop \/ AbandonBatch
  BY <1>1, EndSignals
<1>2. ASSUME ~EndOfProcess, UNCHANGED <<flushed, stopping, batch, queue, unsaved, flushSubmitted>> PROVE SignalInv'
  BY <1>2, SignalKept DEF SignalInv
<1>3. ASSUME ~EndOfProcess, NEW s \in Subject, SaveAccepted(s) PROVE SignalInv'
  <2>1. /\ UNCHANGED <<flushed, stopping, batch, queue>> /\ flushSubmitted' = TRUE /\ unsaved \subseteq unsaved'
    BY <1>3 DEF SaveAccepted, writer, run
  <2> QED BY <1>3, <2>1, SignalKept
<1>4. CASE ~EndOfProcess /\ DropBuffer
  <2>1. /\ UNCHANGED <<flushed, stopping, batch, queue>> /\ unsaved' = {} /\ unsaved \subseteq lost'
    BY <1>4 DEF DropBuffer, Refused, run
  <2> QED BY <1>4, <2>1, SignalKept
<1>5. CASE ~EndOfProcess /\ (SubmitFlushJob \/ SubmitOther)
  <2>1. UNCHANGED <<flushed, stopping, batch, unsaved, flushSubmitted>>
    BY <1>5 DEF SubmitFlushJob, SubmitOther, Submit, Refused, repository, run, history
  <2>2. UNCHANGED queue \/ \E kind \in {"flush", "other"} : Submit(JobOf(kind))
    BY <1>5 DEF SubmitFlushJob, SubmitOther, Refused
  <2>3. CASE UNCHANGED queue
    BY <1>2, <1>5, <2>1, <2>3
  <2>4. ASSUME NEW kind \in {"flush", "other"}, Submit(JobOf(kind)) PROVE SignalInv'
    <3>1. JobOf(kind) \in Job /\ JobOf(kind).kind # "signal"
      BY JobOfIsJob
    <3>2. /\ \A i \in DOMAIN queue : i \in DOMAIN queue' /\ queue'[i] = queue[i]
          /\ \A i \in DOMAIN queue' : i \notin DOMAIN queue => queue'[i].kind # "signal"
      BY <2>4, <3>1, SubmitFacts
    <3>3. unsaved' # {} => flushSubmitted'
      BY <2>1 DEF SignalInv
    <3> QED BY <1>5, <2>1, <3>2, <3>3, SignalKept
  <2> QED BY <2>2, <2>3, <2>4
<1>6. CASE CallFlush
  BY <1>6, CallFlushSignals
<1>7. CASE GetFirst \/ Collect
  BY <1>7, CollectSignals
<1>8. CASE StartPurge \/ FinishBatch
  BY <1>8, RestSignals
<1>9. CASE RunFlushJob
  <2>1. /\ thread = "running" /\ position \in DOMAIN batch /\ batch[position].kind = "flush" /\ Take
        /\ UNCHANGED <<stopping, flushed, lost, written, queue>>
    BY <1>9 DEF RunFlushJob, Running, IInv, TypeOK, writer, history
  <2> QED BY <2>1, TakeSignals
<1>10. CASE ~EndOfProcess /\ DefectiveJob
  <2>1. /\ thread = "running" /\ position \in DOMAIN batch /\ UNCHANGED <<stopping, flushed, lost, written, queue>>
        /\ IF batch[position].kind = "flush" THEN Take ELSE UNCHANGED <<batch, unsaved, flushSubmitted>>
    BY <1>10 DEF DefectiveJob, IInv, TypeOK, history
  <2> QED BY <1>2, <1>10, <2>1, TakeSignals
<1>11. CASE RunCallback
  BY <1>11, CallbackSignals
<1>12. CASE ~EndOfProcess /\
            (OpenConnection \/ GiveUpOpening \/ EmptyGet \/ Execute \/ PurgeNotDue \/ CarryOn \/ ExitWhenEmpty
             \/ RollBack \/ Retry \/ RunSignal \/ RunOther \/ RunPurge \/ Commit \/ SaveRefused \/ UNCHANGED vars)
  <2>1. UNCHANGED <<flushed, stopping, batch, queue, unsaved, flushSubmitted>>
    BY <1>12 DEF OpenConnection, GiveUpOpening, EmptyGet, Execute, PurgeNotDue, CarryOn, ExitWhenEmpty, SaveRefused,
       RollBack, Retry, RunSignal, RunOther, RunPurge, Commit, BeginTry, repository, writer, run, history, vars
  <2> QED BY <1>2, <1>12, <2>1
<1> QED BY <1>1, <1>3, <1>4, <1>5, <1>6, <1>7, <1>8, <1>9, <1>10, <1>11, <1>12
        DEF Next, Loop, Thread, Execution

\* When flush() returns, while the writer has not been told to stop, all that was saved before its
\* call is in the base or was given up.
THEOREM FlushWaitsForTheBase == Spec => []FlushMeansStoredWhileRunning
<1>1. Init => DepositedInv /\ SignalInv
  BY DEF Init, DepositedInv, SignalInv
<1>2. Spec => [](DepositedInv /\ SignalInv)
  BY <1>1, NextDeposited, NextSignals, Invariance, PTL DEF Spec
<1>3. SignalInv => FlushMeansStoredWhileRunning
  BY DEF SignalInv, FlushMeansStoredWhileRunning, FlushMeansStored
<1> QED BY <1>2, <1>3, PTL
=============================================================================
