------------------------ MODULE RiposteFollowProofs -------------------------
(***************************************************************************)
(* Theorems about the following of the journals: no event is handled twice *)
(* while the journals go no further back than the events seen are kept, a  *)
(* turn that nothing cuts handles every event it marks, and no saved       *)
(* position is ahead of the events marked.                                 *)
(***************************************************************************)
EXTENDS RiposteFollow, SequenceTheorems, FiniteSetTheorems, TLAPS

-----------------------------------------------------------------------------
(* The invariant.                                                           *)

\* What follow_once marks was written, and what the engine handles was marked.
MarkedInv ==
    /\ \A j \in Journal : Elements(lines[j]) \subseteq 1..written
    /\ marked \subseteq 1..written
    /\ Elements(read) \subseteq 1..written
    /\ handled \cup batch \subseteq marked

\* A line that can still be read is in the table of the events seen, once marked.
SeenInv ==
    ShortJournals =>
        /\ \A j \in Journal : Elements(lines[j]) \cap marked \subseteq seen
        /\ Elements(read) \cap marked \subseteq seen

\* An event leaves the batch when it is handled, and never comes back to it.
HandledInv == ShortJournals => handled \cap batch = {} /\ again = {}

\* Lines wait only between their reading and their marking, events within a turn.
TurnInv ==
    /\ pc \in {"down", "idle"} => batch = {}
    /\ pc \notin {"remembering", "marking"} => read = <<>>

\* The turns nothing has cut.
QuietInv ==
    /\ failures = 0 => \A j \in Journal : readable[j]
    /\ QuietTurnsLoseNothing

IInv == TypeOK /\ MarkedInv /\ SeenInv /\ HandledInv /\ TurnInv /\ QuietInv

-----------------------------------------------------------------------------
(* Sequences and positions.                                                 *)

\* The first bytes of a journal are some of its lines.
LEMMA FirstIsPart ==
    ASSUME NEW S, NEW s \in Seq(S), NEW n \in Nat
    PROVE  First(s, n) \in Seq(S) /\ Elements(First(s, n)) \subseteq Elements(s)
<1> DEFINE k == Least(n, Len(s))
<1>1. k \in Nat /\ k <= Len(s)
    BY DEF Least
<1>2. \A i \in 1..k : s[i] \in S
    BY <1>1, ElementOfSeq
<1>3. First(s, n) \in Seq(S) /\ Len(First(s, n)) = k /\ \A i \in 1..k : First(s, n)[i] = s[i]
    BY <1>1, <1>2, SubSeqProperties DEF First
<1> QED BY <1>1, <1>3 DEF Elements

\* The elements of a sequence belong to the set it is a sequence of.
LEMMA ElementsAreTyped ==
    ASSUME NEW S, NEW s \in Seq(S)
    PROVE  Elements(s) \subseteq S
BY ElementOfSeq DEF Elements

\* A function on an initial segment of the naturals is a sequence.
LEMMA FunctionIsSequence ==
    ASSUME NEW S, NEW n \in Nat, NEW f \in [1..n -> S]
    PROVE  f \in Seq(S) /\ Len(f) = n
OBVIOUS

\* The journal of the turn is one of the journals.
LEMMA CurrentIsJournal ==
    ASSUME source \in DOMAIN Sources
    PROVE  Current \in Journal
BY DEF Current, Journal

\* The first journal of a turn exists.
LEMMA FirstSource == 1 \in DOMAIN Sources
BY FollowAssumption

\* Both an empty position and an empty look have the type of one.
LEMMA Nothing ==
    /\ NoPosition \in Position
    /\ NoLook \in [inode : Inode \cup {0}, size : Nat, offset : Nat]
    /\ NoStart \in [known : BOOLEAN, inode : Inode \cup {0}, offset : Nat]
BY DEF NoPosition, NoLook, NoStart, Position

\* A chunk is made of lines of the journal it was read from.
LEMMA ChunkIsPart ==
    ASSUME NEW S, NEW s \in Seq(S), NEW from \in Nat, NEW last \in Nat, last <= Len(s)
    PROVE  SubSeq(s, from + 1, last) \in Seq(S) /\ Elements(SubSeq(s, from + 1, last)) \subseteq Elements(s)
<1>1. \A i \in (from + 1)..last : s[i] \in S
    BY ElementOfSeq
<1>2. /\ SubSeq(s, from + 1, last) \in Seq(S)
      /\ Len(SubSeq(s, from + 1, last)) = IF from + 1 <= last THEN last - (from + 1) + 1 ELSE 0
      /\ \A i \in 1..(last - (from + 1) + 1) : SubSeq(s, from + 1, last)[i] = s[(from + 1) + i - 1]
    BY <1>1, SubSeqProperties
<1> QED BY <1>2 DEF Elements

-----------------------------------------------------------------------------
(* Every step keeps the types.                                              *)

\* What the life of the journals leaves alone.
LEMMA EnvironmentKeepsTypes == TypeOK /\ Environment => TypeOK'
<1> SUFFICES ASSUME TypeOK, NEW j \in Journal,
                    Write(j) \/ Rotate(j) \/ Replace(j) \/ LoseAccess(j) \/ RegainAccess(j)
             PROVE  TypeOK'
  BY DEF Environment
<1> USE DEF TypeOK, base, memory, ghosts, bounds, Event
<1>1. CASE Write(j)
  <2>1. written' \in 0..MaxLines /\ written' \in Event
    BY <1>1, FollowAssumption DEF Write
  <2>2. lines' \in [Journal -> Seq(Event)]
    BY <1>1, <2>1 DEF Write
  <2>3. notBefore \in 0..written'
    BY <1>1, FollowAssumption DEF Write
  <2> QED BY <1>1, <2>1, <2>2, <2>3 DEF Write
<1>2. CASE Rotate(j)
  <2>1. lines' \in [Journal -> Seq(Event)]
    BY <1>2 DEF Rotate
  <2>2. changes' \in Nat /\ raced' \in SUBSET Journal
    BY <1>2 DEF Rotate, Change
  <2>3. UNCHANGED <<inode, readable, written, base, pc, memory, notBefore, marked, handled, again,
                    skipped, stale, failures, crashes>>
    BY <1>2 DEF Rotate, Change
  <2> QED BY <2>1, <2>2, <2>3
<1>3. CASE Replace(j)
  <2>1. PICK n \in 0..Len(lines[j]) - 1 : \E kept \in [1..n -> Elements(lines[j])] :
            lines' = [lines EXCEPT ![j] = kept]
    BY <1>3 DEF Replace
  <2>2. PICK kept \in [1..n -> Elements(lines[j])] : lines' = [lines EXCEPT ![j] = kept]
    BY <2>1
  <2>3. Elements(lines[j]) \subseteq Event
    BY ElementsAreTyped
  <2>4. n \in Nat /\ kept \in [1..n -> Event]
    BY <2>3
  <2>5. kept \in Seq(Event)
    BY <2>4, FunctionIsSequence
  <2>6. lines' \in [Journal -> Seq(Event)]
    BY <2>2, <2>5
  <2>7. inode' \in [Journal -> Inode]
    BY <1>3 DEF Replace
  <2>8. changes' \in Nat /\ raced' \in SUBSET Journal
    BY <1>3 DEF Replace, Change
  <2>9. UNCHANGED <<readable, written, base, pc, memory, notBefore, marked, handled, again, skipped,
                    stale, failures, crashes>>
    BY <1>3 DEF Replace, Change
  <2> QED BY <2>6, <2>7, <2>8, <2>9
<1>4. CASE LoseAccess(j) \/ RegainAccess(j)
  <2>1. readable' \in [Journal -> BOOLEAN]
    BY <1>4 DEF LoseAccess, RegainAccess
  <2>2. failures \in Nat
    OBVIOUS
  <2>3. failures' \in Nat
    BY <1>4, <2>2 DEF LoseAccess, RegainAccess
  <2> QED BY <1>4, <2>1, <2>3 DEF LoseAccess, RegainAccess
<1> QED BY <1>1, <1>2, <1>3, <1>4

\* A start, an orderly stop and a death.
LEMMA ProcessKeepsTypes == TypeOK /\ (Start \/ Stop \/ Die) => TypeOK'
<1> SUFFICES ASSUME TypeOK, Start \/ Stop \/ Die PROVE TypeOK'
  OBVIOUS
<1> USE DEF TypeOK, journals, base, ghosts, bounds
<1>1. CASE Start
  <2> DEFINE from(j) == IF Len(lines[j]) > Back THEN Len(lines[j]) - Back ELSE 0
             new == {j \in Journal : ~stored[j].known}
  <2>1. \A j \in Journal : from(j) \in Nat
    <3>1. Back \in Nat /\ \A j \in Journal : Len(lines[j]) \in Nat
      BY FollowAssumption
    <3> HIDE DEF TypeOK
    <3> QED BY <3>1
  <2>2. initial' = [j \in Journal |->
            IF j \in new THEN [known |-> TRUE, inode |-> inode[j], offset |-> from(j)] ELSE NoStart]
    BY <1>1 DEF Start
  <2>3. initial' \in [Journal -> [known : BOOLEAN, inode : Inode \cup {0}, offset : Nat]]
    BY <2>1, <2>2, Nothing
  <2>4. \A j \in Journal : Elements(First(lines[j], from(j))) \subseteq Event
    BY <2>1, FirstIsPart, ElementsAreTyped
  <2>5. skipped' = skipped \cup UNION {Elements(First(lines[j], from(j))) : j \in new}
    BY <1>1 DEF Start
  <2>6. skipped' \in SUBSET Event
    BY <2>4, <2>5
  <2>7. notBefore' \in 0..written /\ written' = written
    BY <1>1 DEF Start
  <2>8. position' \in [Journal -> Position] /\ pc' = "idle"
    BY <1>1 DEF Start
  <2>9. UNCHANGED <<inode, lines, readable, written, stored, seen, source, look, read, batch,
                    marked, handled, again, raced, stale, changes, failures, crashes>>
    BY <1>1 DEF Start
  <2> QED BY <2>3, <2>6, <2>7, <2>8, <2>9
<1>2. CASE Stop \/ Die
  <2>1. /\ Forget /\ pc' = "down" /\ UNCHANGED <<journals, base, notBefore, ghosts>>
        /\ {changes', failures', crashes'} \subseteq Nat
    BY <1>2 DEF Stop, Die
  <2>2. /\ position' \in [Journal -> Position] /\ read' \in Seq(Event) /\ batch' \in SUBSET Event
        /\ initial' \in [Journal -> [known : BOOLEAN, inode : Inode \cup {0}, offset : Nat]]
        /\ look' \in [inode : Inode \cup {0}, size : Nat, offset : Nat]
    BY <2>1, Nothing DEF Forget
  <2>3. source' \in DOMAIN Sources
    BY <2>1, FirstSource DEF Forget
  <2> QED BY <2>1, <2>2, <2>3
<1> QED BY <1>1, <1>2

\* The position after a chunk is a position.
LEMMA ReachedIsPosition ==
    ASSUME TypeOK, NEW j \in Journal
    PROVE  Reached(j) \in Position
<1> DEFINE length == Least(Prefix, look.size)
<1>1. length \in Nat
    BY FollowAssumption DEF Least, TypeOK
<1>2. First(lines[j], length) \in Seq(Event)
    BY <1>1, FirstIsPart DEF TypeOK
<1>3. position[j].print \in Seq(Event)
    BY DEF TypeOK, Position
<1>4. look.inode \in Inode \cup {0} /\ look.offset \in Nat
    BY DEF TypeOK
<1> QED BY <1>1, <1>2, <1>3, <1>4 DEF Reached, Position

\* The offset a reading starts from.
LEMMA ResolveStartIsOffset ==
    ASSUME TypeOK, NEW j \in Journal
    PROVE  ResolveStart(j) \in Nat
BY DEF TypeOK, ResolveStart, Position

\* A chunk of the journal, as Read takes it.
LEMMA ReadIsPart ==
    ASSUME TypeOK, Read
    PROVE  read' \in Seq(Event) /\ Elements(read') \subseteq Elements(lines[Current])
<1> DEFINE last == Least(Least(look.size, look.offset + Chunk), Len(lines[Current]))
<1>1. lines[Current] \in Seq(Event)
    BY CurrentIsJournal DEF TypeOK
<1>2. look.offset \in Nat /\ last \in Nat /\ last <= Len(lines[Current])
  <2>1. Chunk \in Nat /\ look.size \in Nat /\ look.offset \in Nat /\ Len(lines[Current]) \in Nat
    BY <1>1, FollowAssumption DEF TypeOK
  <2> QED BY <2>1 DEF Least
<1>3. read' = SubSeq(lines[Current], look.offset + 1, last)
    BY DEF Read
<1> QED BY <1>1, <1>2, <1>3, ChunkIsPart

\* A turn, step by step.
LEMMA TurnKeepsTypes == TypeOK /\ Turn => TypeOK'
<1> SUFFICES ASSUME TypeOK, Turn PROVE TypeOK'
  OBVIOUS
<1> USE DEF TypeOK, journals, base, memory, ghosts, bounds
<1>1. CASE BeginTurn
  BY <1>1 DEF BeginTurn
<1>2. CASE Look
  <2>1. look' \in [inode : Inode \cup {0}, size : Nat, offset : Nat]
    BY <1>2, CurrentIsJournal, ResolveStartIsOffset DEF Look
  <2> QED BY <1>2, <2>1 DEF Look
<1>3. CASE Read
  <2>1. read' \in Seq(Event)
    BY <1>3, ReadIsPart
  <2>2. look.offset + Len(read') \in Nat
    BY <2>1
  <2>3. look' = [look EXCEPT !.offset = look.offset + Len(read')]
    BY <1>3 DEF Read
  <2>4. look' \in [inode : Inode \cup {0}, size : Nat, offset : Nat]
    BY <2>2, <2>3
  <2> QED BY <1>3, <2>1, <2>4 DEF Read
<1>4. CASE Remember
  <2>1. /\ Reached(Current) \in Position
        /\ position' = [position EXCEPT ![Current] = Reached(Current)]
        /\ initial' = [initial EXCEPT ![Current] = NoStart] /\ look' = NoLook
    BY <1>4, CurrentIsJournal, ReachedIsPosition DEF Remember, LookAway
  <2>2. /\ position' \in [Journal -> Position]
        /\ initial' \in [Journal -> [known : BOOLEAN, inode : Inode \cup {0}, offset : Nat]]
        /\ look' \in [inode : Inode \cup {0}, size : Nat, offset : Nat]
    BY <2>1, Nothing
  <2>3. stale' \in SUBSET Journal
    BY <1>4, CurrentIsJournal DEF Remember, NoteStale
  <2> QED BY <1>4, <2>2, <2>3 DEF Remember
<1>5. CASE FailTurn
  <2>1. read' \in Seq(Event) /\ source' \in DOMAIN Sources /\ look' = NoLook
    BY <1>5, FirstSource DEF FailTurn
  <2> QED BY <1>5, <2>1, Nothing DEF FailTurn
<1>6. CASE MarkLine
  <2>1. Head(read) \in Event /\ read' \in Seq(Event)
    BY <1>6 DEF MarkLine
  <2> QED BY <1>6, <2>1 DEF MarkLine
<1>7. CASE SavePosition
  <2>1. stored' \in [Journal -> Position]
    BY <1>7, CurrentIsJournal DEF SavePosition
  <2>2. source' \in DOMAIN Sources
    BY <1>7, FollowAssumption DEF SavePosition
  <2> QED BY <1>7, <2>1, <2>2 DEF SavePosition
<1>8. CASE Handle
  BY <1>8 DEF Handle
<1>9. CASE EndTurn
  BY <1>9, FirstSource DEF EndTurn, PurgeSeen
<1> QED BY <1>1, <1>2, <1>3, <1>4, <1>5, <1>6, <1>7, <1>8, <1>9 DEF Turn

\* Every step keeps the types.
LEMMA TypesAreKept == TypeOK /\ [Next]_vars => TypeOK'
<1> SUFFICES ASSUME TypeOK, [Next]_vars PROVE TypeOK'
  OBVIOUS
<1>1. CASE Next
  BY <1>1, EnvironmentKeepsTypes, ProcessKeepsTypes, TurnKeepsTypes DEF Next
<1>2. CASE UNCHANGED vars
  BY <1>2 DEF TypeOK, vars, journals, base, memory, ghosts, bounds
<1> QED BY <1>1, <1>2

-----------------------------------------------------------------------------
(* Every step keeps the rest of the invariant.                              *)

\* What the life of the journals leaves alone: a line written is a new event, and
\* a rotation or a replacement adds no line.
LEMMA EnvironmentKeepsInv ==
    ASSUME IInv, Environment
    PROVE  (MarkedInv /\ SeenInv /\ HandledInv /\ TurnInv /\ QuietInv)'
<1> PICK j \in Journal : Write(j) \/ Rotate(j) \/ Replace(j) \/ LoseAccess(j) \/ RegainAccess(j)
  BY DEF Environment
<1>1. UNCHANGED <<seen, marked, handled, again, batch, read, pc, crashes>>
  BY DEF Write, Rotate, Replace, LoseAccess, RegainAccess, Change, base, memory, ghosts, bounds
<1>2. /\ written \in Nat /\ written' \in Nat /\ written <= written'
      /\ \A i \in Journal : Elements(lines'[i]) \subseteq Elements(lines[i]) \cup (1..written' \ 1..written)
  <2>1. CASE Write(j)
    <3>1. /\ written \in Nat /\ written' = written + 1
          /\ lines' = [lines EXCEPT ![j] = Append(@, written + 1)]
          /\ lines \in [Journal -> Seq(Event)]
      BY <2>1, FollowAssumption DEF Write, IInv, TypeOK
    <3>2. \A s \in Seq(Event) : Elements(Append(s, written + 1)) \subseteq Elements(s) \cup {written + 1}
      BY DEF Elements
    <3>3. written + 1 \in 1..written' \ 1..written
      BY <3>1
    <3> QED BY <3>1, <3>2, <3>3
  <2>2. CASE Rotate(j)
    <3>1. written \in Nat /\ lines \in [Journal -> Seq(Event)]
      BY FollowAssumption DEF IInv, TypeOK
    <3>2. lines' = [lines EXCEPT ![j] = <<>>] /\ written' = written
      BY <2>2 DEF Rotate, Change
    <3> QED BY <3>1, <3>2 DEF Elements
  <2>3. CASE Replace(j)
    <3>1. PICK n \in 0..Len(lines[j]) - 1 : \E kept \in [1..n -> Elements(lines[j])] :
              lines' = [lines EXCEPT ![j] = kept]
      BY <2>3 DEF Replace
    <3>2. PICK kept \in [1..n -> Elements(lines[j])] : lines' = [lines EXCEPT ![j] = kept]
      BY <3>1
    <3>3. Elements(kept) \subseteq Elements(lines[j])
      BY <3>2 DEF Elements
    <3>4. \A i \in Journal : Elements(lines'[i]) \subseteq Elements(lines[i])
      BY <3>2, <3>3 DEF IInv, TypeOK
    <3>5. written \in Nat /\ written' = written
      BY <2>3, FollowAssumption DEF Replace, Change, IInv, TypeOK
    <3> QED BY <3>4, <3>5
  <2>4. CASE LoseAccess(j) \/ RegainAccess(j)
    <3>1. UNCHANGED <<lines, written>>
      BY <2>4 DEF LoseAccess, RegainAccess
    <3>2. written \in Nat
      BY FollowAssumption DEF IInv, TypeOK
    <3> QED BY <3>1, <3>2
  <2> QED BY <2>1, <2>2, <2>3, <2>4
<1>3. MarkedInv'
  BY <1>1, <1>2 DEF IInv, MarkedInv
<1>4. SeenInv'
  <2> SUFFICES ASSUME ShortJournals PROVE SeenInv'
    BY DEF SeenInv
  <2>1. marked \subseteq 1..written
    BY DEF IInv, MarkedInv
  <2>2. \A i \in Journal : Elements(lines'[i]) \cap marked \subseteq Elements(lines[i]) \cap marked
    BY <1>2, <2>1
  <2> QED BY <1>1, <2>2 DEF IInv, SeenInv
<1>5. HandledInv' /\ TurnInv'
  BY <1>1 DEF IInv, HandledInv, TurnInv
<1>6. QuietInv'
  <2>1. failures' = 0 => failures = 0 /\ \A i \in Journal : readable'[i]
    <3>1. CASE Write(j) \/ Rotate(j) \/ Replace(j)
      BY <3>1 DEF Write, Rotate, Replace, Change, IInv, QuietInv, bounds
    <3>2. CASE LoseAccess(j)
      BY <3>2, FollowAssumption DEF LoseAccess, IInv, TypeOK
    <3>3. CASE RegainAccess(j)
      BY <3>3 DEF RegainAccess, IInv, QuietInv, bounds, TypeOK
    <3> QED BY <3>1, <3>2, <3>3
  <2> QED BY <1>1, <2>1 DEF IInv, QuietInv, QuietTurnsLoseNothing, SeenIsHandled
<1> QED BY <1>3, <1>4, <1>5, <1>6

\* A start and a stop find no event waiting; a death leaves the events marked.
LEMMA ProcessKeepsInv ==
    ASSUME IInv, Start \/ Stop \/ Die
    PROVE  (MarkedInv /\ SeenInv /\ HandledInv /\ TurnInv /\ QuietInv)'
<1>1. /\ UNCHANGED <<lines, readable, written, seen, marked, handled, again, failures>>
      /\ pc' \in {"down", "idle"}
  BY DEF Start, Stop, Die, journals, base, ghosts, bounds
<1>2. read' = <<>> /\ batch' = {}
  BY DEF Start, Stop, Die, Forget, IInv, TurnInv
<1>3. Elements(read') = {}
  BY <1>2 DEF Elements
<1>4. MarkedInv' /\ SeenInv' /\ HandledInv' /\ TurnInv'
  BY <1>1, <1>2, <1>3 DEF IInv, MarkedInv, SeenInv, HandledInv, TurnInv
<1>5. crashes' = 0 => crashes = 0 /\ batch' = batch
  <2>1. CASE Start \/ Stop
    BY <1>2, <2>1 DEF Start, Stop, IInv, TurnInv, bounds
  <2>2. CASE Die
    BY <2>2 DEF Die, IInv, TypeOK
  <2> QED BY <2>1, <2>2
<1>6. QuietInv'
  BY <1>1, <1>5 DEF IInv, QuietInv, QuietTurnsLoseNothing, SeenIsHandled
<1> QED BY <1>4, <1>6

\* The steps of a turn that read and look: no event is marked, none is handled.
LEMMA ReadingKeepsInv ==
    ASSUME IInv, BeginTurn \/ Look \/ Read \/ Remember \/ SavePosition
    PROVE  (MarkedInv /\ SeenInv /\ HandledInv /\ TurnInv /\ QuietInv)'
<1>1. UNCHANGED <<lines, readable, written, seen, marked, handled, again, batch, failures, crashes>>
  BY DEF BeginTurn, Look, Read, Remember, SavePosition, journals, base, memory, ghosts, bounds
<1>2. read' = read \/ (Elements(read') \subseteq Elements(lines[Current]) /\ Current \in Journal)
  <2>1. CASE Read
    BY <2>1, ReadIsPart, CurrentIsJournal DEF IInv, TypeOK
  <2> QED BY <2>1 DEF BeginTurn, Look, Remember, SavePosition, memory
<1>3. MarkedInv' /\ SeenInv' /\ HandledInv'
  BY <1>1, <1>2 DEF IInv, MarkedInv, SeenInv, HandledInv
<1>4. TurnInv'
  BY DEF BeginTurn, Look, Read, Remember, SavePosition, memory, IInv, TurnInv
<1>5. QuietInv'
  BY <1>1 DEF IInv, QuietInv, QuietTurnsLoseNothing, SeenIsHandled
<1> QED BY <1>3, <1>4, <1>5

\* A turn is only cut when some journal was made unreadable.
LEMMA FailKeepsInv ==
    ASSUME IInv, FailTurn
    PROVE  (MarkedInv /\ SeenInv /\ HandledInv /\ TurnInv /\ QuietInv)'
<1>1. /\ UNCHANGED <<lines, readable, written, seen, marked, handled, again, failures, crashes>>
      /\ pc' = "idle" /\ read' = <<>> /\ batch' = {}
  BY DEF FailTurn, journals, base, ghosts, bounds
<1>2. Elements(read') = {}
  BY <1>1 DEF Elements
<1>3. MarkedInv' /\ SeenInv' /\ HandledInv' /\ TurnInv'
  BY <1>1, <1>2 DEF IInv, MarkedInv, SeenInv, HandledInv, TurnInv
<1>4. failures' # 0
  BY <1>1, CurrentIsJournal DEF FailTurn, IInv, QuietInv, TypeOK
<1>5. QuietInv'
  BY <1>1, <1>4 DEF QuietInv, QuietTurnsLoseNothing
<1> QED BY <1>3, <1>5

\* An event that is marked was in no turn before: it would be in the table.
LEMMA MarkLineKeepsInv ==
    ASSUME IInv, MarkLine
    PROVE  (MarkedInv /\ SeenInv /\ HandledInv /\ TurnInv /\ QuietInv)'
<1> DEFINE e == Head(read)
           new == e > notBefore /\ e \notin seen
<1>1. /\ UNCHANGED <<lines, readable, written, handled, again, pc, failures, crashes>>
      /\ read # <<>> /\ read' = Tail(read) /\ pc = "marking"
  BY DEF MarkLine, journals, bounds
<1>2. e \in Elements(read) /\ Elements(read') \subseteq Elements(read)
  <2>1. read \in Seq(Event) /\ read # <<>>
    BY <1>1 DEF IInv, TypeOK
  <2>2. \A s \in Seq(Event) : s # <<>> => Head(s) \in Elements(s) /\ Elements(Tail(s)) \subseteq Elements(s)
    BY DEF Elements
  <2> QED BY <1>1, <2>1, <2>2
<1>3. IF new
      THEN seen' = seen \cup {e} /\ marked' = marked \cup {e} /\ batch' = batch \cup {e}
      ELSE UNCHANGED <<seen, marked, batch>>
  BY DEF MarkLine
<1>4. MarkedInv'
  BY <1>1, <1>2, <1>3 DEF IInv, MarkedInv
<1>5. SeenInv'
  BY <1>1, <1>2, <1>3 DEF IInv, SeenInv
<1>6. HandledInv'
  <2>1. ShortJournals /\ new => e \notin handled
    BY <1>2 DEF IInv, SeenInv, MarkedInv
  <2> QED BY <1>1, <1>3, <2>1 DEF IInv, HandledInv
<1>7. TurnInv'
  BY <1>1 DEF TurnInv
<1>8. QuietInv'
  BY <1>1, <1>3 DEF IInv, QuietInv, QuietTurnsLoseNothing, SeenIsHandled
<1> QED BY <1>4, <1>5, <1>6, <1>7, <1>8

\* The engine takes an event out of the batch; the purge drops no event that a
\* journal still holds.
LEMMA HandlingKeepsInv ==
    ASSUME IInv, Handle \/ EndTurn
    PROVE  (MarkedInv /\ SeenInv /\ HandledInv /\ TurnInv /\ QuietInv)'
<1>1. UNCHANGED <<lines, readable, written, read, marked, failures, crashes>> /\ pc = "handling"
  BY DEF Handle, EndTurn, journals, bounds, ghosts
<1>2. read = <<>> /\ Elements(read) = {}
  BY <1>1 DEF IInv, TurnInv, Elements
<1>3. CASE Handle
  <2>1. PICK e \in batch : /\ batch' = batch \ {e} /\ handled' = handled \cup {e}
                          /\ again' = IF e \in handled THEN again \cup {e} ELSE again
    BY <1>3 DEF Handle
  <2>2. UNCHANGED <<seen, pc>>
    BY <1>3 DEF Handle, base
  <2>3. MarkedInv' /\ SeenInv' /\ HandledInv' /\ TurnInv'
    BY <1>1, <1>2, <2>1, <2>2 DEF IInv, MarkedInv, SeenInv, HandledInv, TurnInv
  <2>4. QuietInv'
    BY <1>1, <2>1 DEF IInv, QuietInv, QuietTurnsLoseNothing, SeenIsHandled
  <2> QED BY <2>3, <2>4
<1>4. CASE EndTurn
  <2>1. UNCHANGED <<batch, handled, again>> /\ batch = {} /\ pc' = "idle"
    BY <1>4 DEF EndTurn, ghosts
  <2>2. PICK last \in 0..written :
            /\ ShortJournals => \A j \in Journal : \A e \in Elements(lines[j]) : e > last
            /\ seen' = {e \in seen : e > last}
    BY <1>4 DEF EndTurn, PurgeSeen
  <2>3. MarkedInv' /\ HandledInv' /\ TurnInv'
    BY <1>1, <1>2, <2>1 DEF IInv, MarkedInv, HandledInv, TurnInv
  <2>4. SeenInv'
    BY <1>1, <1>2, <2>2 DEF IInv, SeenInv
  <2>5. QuietInv'
    BY <1>1, <2>1 DEF IInv, QuietInv, QuietTurnsLoseNothing, SeenIsHandled
  <2> QED BY <2>3, <2>4, <2>5
<1> QED BY <1>3, <1>4

-----------------------------------------------------------------------------
(* The theorems.                                                            *)

\* The journals are empty, nothing was read and the process is down.
LEMMA InitHolds == Init => IInv
<1> SUFFICES ASSUME Init PROVE IInv
  OBVIOUS
<1>1. \E n \in Inode : TRUE
  BY FollowAssumption
<1>2. TypeOK
  <2>1. inode \in [Journal -> Inode]
    BY <1>1 DEF Init
  <2>2. lines \in [Journal -> Seq(Event)] /\ read \in Seq(Event)
    BY DEF Init
  <2>3. /\ stored \in [Journal -> Position] /\ position \in [Journal -> Position]
        /\ initial \in [Journal -> [known : BOOLEAN, inode : Inode \cup {0}, offset : Nat]]
        /\ look \in [inode : Inode \cup {0}, size : Nat, offset : Nat]
    BY Nothing DEF Init
  <2> QED BY <2>1, <2>2, <2>3, FirstSource, FollowAssumption DEF Init, TypeOK
<1>3. Elements(<<>>) = {}
  BY DEF Elements
<1>4. MarkedInv /\ SeenInv /\ HandledInv /\ TurnInv
  BY <1>3 DEF Init, MarkedInv, SeenInv, HandledInv, TurnInv
<1>5. QuietInv
  BY DEF Init, QuietInv, QuietTurnsLoseNothing, SeenIsHandled
<1> QED BY <1>2, <1>4, <1>5 DEF IInv

\* Every step keeps the invariant.
LEMMA InvIsKept == IInv /\ [Next]_vars => IInv'
<1> SUFFICES ASSUME IInv, [Next]_vars PROVE IInv'
  OBVIOUS
<1>1. TypeOK'
  BY TypesAreKept DEF IInv
<1>2. CASE Environment
  BY <1>1, <1>2, EnvironmentKeepsInv DEF IInv
<1>3. CASE Start \/ Stop \/ Die
  BY <1>1, <1>3, ProcessKeepsInv DEF IInv
<1>4. CASE Turn
  <2>1. CASE BeginTurn \/ Look \/ Read \/ Remember \/ SavePosition
    BY <1>1, <2>1, ReadingKeepsInv DEF IInv
  <2>2. CASE FailTurn
    BY <1>1, <2>2, FailKeepsInv DEF IInv
  <2>3. CASE MarkLine
    BY <1>1, <2>3, MarkLineKeepsInv DEF IInv
  <2>4. CASE Handle \/ EndTurn
    BY <1>1, <2>4, HandlingKeepsInv DEF IInv
  <2> QED BY <1>4, <2>1, <2>2, <2>3, <2>4 DEF Turn
<1>5. CASE UNCHANGED vars
  BY <1>5 DEF vars, journals, base, memory, ghosts, bounds, IInv, TypeOK, MarkedInv, SeenInv, HandledInv,
     TurnInv, QuietInv, QuietTurnsLoseNothing, SeenIsHandled
<1> QED BY <1>2, <1>3, <1>4, <1>5 DEF Next

\* The invariant holds in every state of every behaviour.
THEOREM Invariance == Spec => []IInv
<1> QED BY InitHolds, InvIsKept, PTL DEF Spec

\* The journals, the base and the memory of the follower keep their types.
THEOREM TypeCorrect == Spec => []TypeOK
<1>1. IInv => TypeOK
  BY DEF IInv
<1> QED BY <1>1, Invariance, PTL

\* follow_journals: no event is handled twice, whatever is read again, as long
\* as no journal goes further back than the events seen are kept.
THEOREM NothingTwice == ASSUME ShortJournals PROVE Spec => []HandledOnce
<1>1. IInv => HandledOnce
  BY DEF IInv, HandledInv, HandledOnce
<1> QED BY <1>1, Invariance, PTL

\* Without a death and an unreadable journal, every event marked as seen is
\* handled, or is in the batch of the turn.
THEOREM QuietTurnsHandleAll == Spec => []QuietTurnsLoseNothing
<1>1. IInv => QuietTurnsLoseNothing
  BY DEF IInv, QuietInv
<1> QED BY <1>1, Invariance, PTL

-----------------------------------------------------------------------------
(* How far the saved positions are about their file.                        *)

\* Lines the engine does not wait for any more.
Done == marked \cup skipped \cup 1..notBefore

\* The file begins as it did at this position: it is the same one, since a file
\* that was emptied begins with a later event.
Begins(p, file, number) ==
    p.inode = number /\ p.length > 0 /\ file # <<>> /\ file[1] = p.print[1]

\* The fingerprint covers a part of what was read, and as long as the file begins
\* the same, every line before the position is done with.
Covered(p, file, number, top, done) ==
    /\ Len(p.print) = p.length /\ p.length <= p.offset /\ (p.length = 0 => p.offset = 0)
    /\ Elements(p.print) \subseteq 1..top
    /\ Begins(p, file, number) =>
        /\ p.offset <= Len(file) /\ First(file, p.length) = p.print
        /\ \A n \in 1..p.offset : file[n] \in done

\* The lines of the journal that are read and not looked at.
Waiting(j) == IF pc = "marking" /\ j = Current THEN Elements(read) ELSE {}

PositionInv ==
    \A j \in Journal \ raced :
        /\ stored[j].known => Covered(stored[j], lines[j], inode[j], written, Done)
        /\ position[j].known => Covered(position[j], lines[j], inode[j], written, Done \cup Waiting(j))

\* A first follow that has not read starts where the lines skipped end.
StartInv ==
    \A j \in Journal \ raced : initial[j].known /\ ~position[j].known =>
        /\ initial[j].inode = inode[j] /\ initial[j].offset <= Len(lines[j])
        /\ \A n \in 1..initial[j].offset : lines[j][n] \in skipped

\* The fingerprint is kept, as KeepsPrint says of the journal of the turn.
Keeps(p, l) ==
    p.known /\ p.inode = l.inode /\ p.length = Least(Prefix, l.size) /\ p.offset <= l.offset

\* The fingerprint is to be taken anew, or the file begins as it did.
Same(p, l, file, number) == Keeps(p, l) => Begins(p, file, number)

\* What stat said still holds of a file that has only grown since.
Holds(l, file, number, done) ==
    l.inode = number /\ l.size <= Len(file) /\ \A n \in 1..l.offset : file[n] \in done

LookInv ==
    pc \in {"reading", "remembering"} =>
        /\ look.offset <= look.size
        /\ \A j \in Journal \ raced :
            j = Current /\ Same(position[j], look, lines[j], inode[j]) =>
                /\ Holds(look, lines[j], inode[j], Done \cup Elements(read))
                /\ pc = "remembering" => Least(Prefix, look.size) <= look.offset

PlaceInv == seen \subseteq marked /\ PositionInv /\ StartInv /\ LookInv

\* The first lines of a file, one by one.
LEMMA FirstLines ==
    ASSUME NEW S, NEW s \in Seq(S), NEW n \in Nat, n <= Len(s)
    PROVE  First(s, n) \in Seq(S) /\ Len(First(s, n)) = n /\ \A i \in 1..n : First(s, n)[i] = s[i]
<1>1. \A i \in 1..n : s[i] \in S
    BY ElementOfSeq
<1>2. Least(n, Len(s)) = n
    BY DEF Least
<1> QED BY <1>1, <1>2, SubSeqProperties DEF First

\* A file that has grown: what was appended is later than everything written before.
Grown(file, next, top) ==
    /\ Len(file) <= Len(next)
    /\ \A n \in 1..Len(file) : next[n] = file[n]
    /\ \A n \in (Len(file) + 1)..Len(next) : next[n] \notin 1..top

\* A file that has grown begins the same as before.
LEMMA GrownBegins ==
    ASSUME NEW p \in Position, NEW file \in Seq(Event), NEW next \in Seq(Event), NEW number, NEW top \in Nat,
           Elements(p.print) \subseteq 1..top, Len(p.print) = p.length,
           Grown(file, next, top), Begins(p, next, number)
    PROVE  Begins(p, file, number)
<1>1. /\ p.print \in Seq(Event) /\ p.length \in Nat /\ p.inode = number /\ p.length > 0
      /\ next # <<>> /\ next[1] = p.print[1]
    BY DEF Position, Begins
<1>2. p.print[1] \in 1..top
    BY <1>1 DEF Elements
<1>3. CASE file = <<>>
    BY <1>1, <1>2, <1>3 DEF Grown
<1>4. CASE file # <<>>
    BY <1>1, <1>4 DEF Grown, Begins
<1> QED BY <1>3, <1>4

\* A position stays about a file that grows, and lines that are done with stay so.
LEMMA GrownIsCovered ==
    ASSUME NEW p \in Position, NEW file \in Seq(Event), NEW next \in Seq(Event), NEW number,
           NEW top \in Nat, NEW top2 \in Nat, top <= top2, NEW done, NEW done2,
           Covered(p, file, number, top, done), Grown(file, next, top),
           \A n \in 1..p.offset : file[n] \in done => file[n] \in done2
    PROVE  Covered(p, next, number, top2, done2)
<1>1. /\ Len(p.print) = p.length /\ p.length <= p.offset /\ (p.length = 0 => p.offset = 0)
      /\ Elements(p.print) \subseteq 1..top /\ p.offset \in Nat /\ p.length \in Nat
    BY DEF Covered, Position
<1>2. Elements(p.print) \subseteq 1..top2
    BY <1>1
<1>3. ASSUME Begins(p, next, number)
      PROVE  /\ p.offset <= Len(next) /\ First(next, p.length) = p.print
             /\ \A n \in 1..p.offset : next[n] \in done2
  <2>1. Begins(p, file, number)
      BY <1>1, <1>3, GrownBegins
  <2>2. /\ p.offset <= Len(file) /\ First(file, p.length) = p.print
        /\ \A n \in 1..p.offset : file[n] \in done
      BY <2>1 DEF Covered
  <2>3. Len(file) <= Len(next) /\ \A n \in 1..Len(file) : next[n] = file[n]
      BY DEF Grown
  <2>4. Len(file) \in Nat /\ Len(next) \in Nat
      OBVIOUS
  <2>5. First(next, p.length) = First(file, p.length)
    <3>1. p.length <= Len(file) /\ p.length <= Len(next)
        BY <1>1, <2>2, <2>3, <2>4
    <3>2. /\ First(file, p.length) \in Seq(Event) /\ Len(First(file, p.length)) = p.length
          /\ \A i \in 1..p.length : First(file, p.length)[i] = file[i]
        BY <1>1, <3>1, FirstLines
    <3>3. /\ First(next, p.length) \in Seq(Event) /\ Len(First(next, p.length)) = p.length
          /\ \A i \in 1..p.length : First(next, p.length)[i] = next[i]
        BY <1>1, <3>1, FirstLines
    <3>4. \A i \in 1..p.length : next[i] = file[i]
        BY <1>1, <2>3, <2>4, <3>1
    <3> QED BY <3>2, <3>3, <3>4
  <2>6. \A n \in 1..p.offset : next[n] = file[n]
      BY <1>1, <2>2, <2>3, <2>4
  <2>7. p.offset <= Len(next)
      BY <1>1, <2>2, <2>3, <2>4
  <2> QED BY <2>2, <2>5, <2>6, <2>7
<1> QED BY <1>1, <1>2, <1>3 DEF Covered

\* A position says nothing of a file that was emptied, or has another inode.
LEMMA GoneIsCovered ==
    ASSUME NEW p \in Position, NEW file, NEW number, NEW next, NEW number2,
           NEW top \in Nat, NEW top2 \in Nat, top <= top2, NEW done, NEW done2,
           Covered(p, file, number, top, done), next = <<>> \/ p.inode # number2
    PROVE  Covered(p, next, number2, top2, done2)
BY DEF Covered, Begins

\* A file has grown when nothing has happened to it.
LEMMA GrownByNothing ==
    ASSUME NEW file \in Seq(Event), NEW top
    PROVE  Grown(file, file, top)
BY DEF Grown

\* What stat said holds of a file that grows.
LEMMA GrownHolds ==
    ASSUME NEW l \in [inode : Inode \cup {0}, size : Nat, offset : Nat], l.offset <= l.size,
           NEW file \in Seq(Event), NEW next \in Seq(Event), NEW number, NEW top, NEW done, NEW done2,
           Holds(l, file, number, done), Grown(file, next, top), done \subseteq done2
    PROVE  Holds(l, next, number, done2)
<1>1. l.offset \in Nat /\ l.size \in Nat /\ Len(file) \in Nat /\ Len(next) \in Nat
    OBVIOUS
<1>2. l.inode = number /\ l.size <= Len(file) /\ \A n \in 1..l.offset : file[n] \in done
    BY DEF Holds
<1>3. Len(file) <= Len(next) /\ \A n \in 1..Len(file) : next[n] = file[n]
    BY DEF Grown
<1>4. \A n \in 1..l.offset : n \in 1..Len(file)
    BY <1>1, <1>2
<1>5. \A n \in 1..l.offset : next[n] \in done2
    BY <1>2, <1>3, <1>4
<1> QED BY <1>1, <1>2, <1>3, <1>5 DEF Holds

\* What may become of a file: it grows, or it is emptied or replaced, which is recorded when
\* the follower cannot see it.
Moved(j) ==
    \/ inode'[j] = inode[j] /\ Grown(lines[j], lines'[j], written)
    \/ /\ \/ lines'[j] = <<>> /\ inode'[j] = inode[j]
          \/ inode'[j] # inode[j] /\ (j \notin raced' => inode'[j] \notin {stored[j].inode, position[j].inode})
       /\ j \notin raced' =>
            /\ ~(initial[j].known /\ ~position[j].known)
            /\ pc \in {"reading", "remembering"} /\ Current = j => KeepsPrint(j, Least(Prefix, look.size))

\* The life of the journals moves their files, and nothing of the follower.
LEMMA FilesMove ==
    ASSUME TypeOK, TypeOK', Environment
    PROVE  /\ \A j \in Journal : Moved(j)
           /\ raced \subseteq raced' /\ written \in Nat /\ written' \in Nat /\ written <= written'
           /\ UNCHANGED <<stored, seen, pc, source, position, initial, look, read, batch, notBefore, marked, skipped>>
<1> PICK i \in Journal : Write(i) \/ Rotate(i) \/ Replace(i) \/ LoseAccess(i) \/ RegainAccess(i)
  BY DEF Environment
<1>1. /\ lines \in [Journal -> Seq(Event)] /\ lines' \in [Journal -> Seq(Event)] /\ written \in Nat
      /\ inode \in [Journal -> Inode]
  <2>1. written \in Nat
    BY FollowAssumption DEF TypeOK
  <2>2. /\ lines \in [Journal -> Seq(Event)] /\ lines' \in [Journal -> Seq(Event)]
        /\ inode \in [Journal -> Inode]
    BY DEF TypeOK
  <2> QED BY <2>1, <2>2
<1>2. UNCHANGED <<stored, seen, pc, source, position, initial, look, read, batch, notBefore, marked, skipped>>
  BY DEF Write, Rotate, Replace, LoseAccess, RegainAccess, Change, base, memory, ghosts, bounds
<1>3. \A j \in Journal : Grown(lines[j], lines[j], written)
  BY <1>1, GrownByNothing
<1>4. CASE Write(i)
  <2>1. /\ written' = written + 1 /\ lines' = [lines EXCEPT ![i] = Append(lines[i], written + 1)]
        /\ inode' = inode /\ raced' = raced
    BY <1>4 DEF Write, ghosts
  <2>2. Grown(lines[i], Append(lines[i], written + 1), written)
    <3>1. lines[i] \in Seq(Event) /\ Len(lines[i]) \in Nat
      BY <1>1
    <3>2. /\ Len(Append(lines[i], written + 1)) = Len(lines[i]) + 1
          /\ \A n \in 1..Len(lines[i]) : Append(lines[i], written + 1)[n] = lines[i][n]
          /\ Append(lines[i], written + 1)[Len(lines[i]) + 1] = written + 1
      BY <3>1
    <3>3. written + 1 \notin 1..written
      BY <1>1
    <3>4. \A n \in (Len(lines[i]) + 1)..(Len(lines[i]) + 1) : n = Len(lines[i]) + 1
      BY <3>1
    <3> QED BY <3>1, <3>2, <3>3, <3>4 DEF Grown
  <2>3. \A j \in Journal : Moved(j)
    BY <1>1, <1>3, <2>1, <2>2 DEF Moved
  <2> QED BY <1>1, <1>2, <2>1, <2>3
<1>5. CASE LoseAccess(i) \/ RegainAccess(i)
  <2>1. UNCHANGED <<lines, inode, written, raced>>
    BY <1>5 DEF LoseAccess, RegainAccess, ghosts
  <2>2. \A j \in Journal : Moved(j)
    BY <1>3, <2>1 DEF Moved
  <2> QED BY <1>1, <1>2, <2>1, <2>2
<1>6. CASE Rotate(i) \/ Replace(i)
  <2>1. written' = written /\ raced' = IF Unseen(i) THEN raced \cup {i} ELSE raced
    BY <1>6 DEF Rotate, Replace, Change
  <2>2. \A j \in Journal : j # i => lines'[j] = lines[j] /\ inode'[j] = inode[j]
    BY <1>1, <1>6 DEF Rotate, Replace
  <2>3. (lines'[i] = <<>> /\ inode'[i] = inode[i]) \/ inode'[i] # inode[i]
    BY <1>1, <1>6 DEF Rotate, Replace
  <2>4. i \notin raced' => ~Unseen(i)
    BY <2>1
  <2>5. Moved(i)
    BY <2>3, <2>4 DEF Moved, Unseen, Current
  <2>6. \A j \in Journal : Moved(j)
    BY <1>3, <2>2, <2>5 DEF Moved
  <2> QED BY <1>1, <1>2, <2>1, <2>6
<1> QED BY <1>4, <1>5, <1>6

\* The journals move under the positions: they are still about them, or no longer speak of them.
LEMMA EnvironmentPlaces ==
    ASSUME TypeOK, TypeOK', MarkedInv, PlaceInv, Environment
    PROVE  PlaceInv'
<1>1. /\ \A j \in Journal : Moved(j)
      /\ raced \subseteq raced' /\ written \in Nat /\ written' \in Nat /\ written <= written'
      /\ UNCHANGED <<stored, seen, pc, source, position, initial, look, read, batch, notBefore, marked, skipped>>
  BY FilesMove
<1>2. Done' = Done /\ (\A j \in Journal : Waiting(j)' = Waiting(j)) /\ Current' = Current
  BY <1>1 DEF Done, Waiting, Current
<1>3. \A j \in Journal : lines[j] \in Seq(Event) /\ lines'[j] \in Seq(Event)
  BY DEF TypeOK
<1>4. \A j \in Journal : stored[j] \in Position /\ position[j] \in Position
  BY DEF TypeOK
<1>5. ASSUME NEW j \in Journal, j \notin raced', NEW p \in {stored[j], position[j]}, NEW done,
             Covered(p, lines[j], inode[j], written, done)
      PROVE  Covered(p, lines'[j], inode'[j], written', done)
  <2>1. CASE inode'[j] = inode[j] /\ Grown(lines[j], lines'[j], written)
    BY <1>1, <1>3, <1>4, <1>5, <2>1, GrownIsCovered
  <2>2. CASE lines'[j] = <<>> \/ p.inode # inode'[j]
    BY <1>1, <1>3, <1>4, <1>5, <2>2, GoneIsCovered
  <2> QED BY <1>1, <1>5, <2>1, <2>2 DEF Moved
<1>6. PositionInv'
  <2> SUFFICES ASSUME NEW j \in Journal, j \notin raced'
               PROVE  /\ stored'[j].known => Covered(stored'[j], lines'[j], inode'[j], written', Done')
                      /\ position'[j].known =>
                            Covered(position'[j], lines'[j], inode'[j], written', Done' \cup Waiting(j)')
    BY DEF PositionInv
  <2>1. /\ stored[j].known => Covered(stored[j], lines[j], inode[j], written, Done)
        /\ position[j].known => Covered(position[j], lines[j], inode[j], written, Done \cup Waiting(j))
    BY <1>1 DEF PlaceInv, PositionInv
  <2>2. stored[j].known => Covered(stored[j], lines'[j], inode'[j], written', Done)
    BY <1>5, <2>1
  <2>3. position[j].known => Covered(position[j], lines'[j], inode'[j], written', Done \cup Waiting(j))
    BY <1>5, <2>1
  <2> QED BY <1>1, <1>2, <2>2, <2>3
<1>7. StartInv'
  <2> SUFFICES ASSUME NEW j \in Journal, j \notin raced', initial[j].known /\ ~position[j].known
               PROVE  /\ initial[j].inode = inode'[j] /\ initial[j].offset <= Len(lines'[j])
                      /\ \A n \in 1..initial[j].offset : lines'[j][n] \in skipped
    BY <1>1 DEF StartInv
  <2>1. inode'[j] = inode[j] /\ Grown(lines[j], lines'[j], written)
    BY <1>1 DEF Moved
  <2>2. /\ initial[j].inode = inode[j] /\ initial[j].offset <= Len(lines[j])
        /\ \A n \in 1..initial[j].offset : lines[j][n] \in skipped
    BY <1>1 DEF PlaceInv, StartInv
  <2>3. initial[j].offset \in Nat /\ Len(lines[j]) \in Nat /\ Len(lines'[j]) \in Nat
    <3>1. initial[j].offset \in Nat
      BY DEF TypeOK
    <3> QED BY <1>3, <3>1
  <2>4. Len(lines[j]) <= Len(lines'[j]) /\ \A n \in 1..Len(lines[j]) : lines'[j][n] = lines[j][n]
    BY <2>1 DEF Grown
  <2>5. \A n \in 1..initial[j].offset : n \in 1..Len(lines[j])
    BY <2>2, <2>3
  <2>6. initial[j].offset <= Len(lines'[j])
    BY <2>2, <2>3, <2>4
  <2> QED BY <2>1, <2>2, <2>4, <2>5, <2>6
<1>8. LookInv'
  <2> SUFFICES ASSUME pc \in {"reading", "remembering"}
               PROVE  /\ look.offset <= look.size
                      /\ \A j \in Journal \ raced' :
                           j = Current /\ Same(position[j], look, lines'[j], inode'[j]) =>
                              /\ Holds(look, lines'[j], inode'[j], Done \cup Elements(read))
                              /\ pc = "remembering" => Least(Prefix, look.size) <= look.offset
    <3>1. Elements(read)' = Elements(read)
      BY <1>1 DEF Elements
    <3> QED BY <1>1, <1>2, <3>1 DEF LookInv
  <2>1. look.offset <= look.size /\ look \in [inode : Inode \cup {0}, size : Nat, offset : Nat]
    BY DEF PlaceInv, LookInv, TypeOK
  <2>2. ASSUME NEW j \in Journal, j \notin raced', j = Current, Same(position[j], look, lines'[j], inode'[j])
        PROVE  /\ Holds(look, lines'[j], inode'[j], Done \cup Elements(read))
               /\ pc = "remembering" => Least(Prefix, look.size) <= look.offset
    <3>1. inode'[j] = inode[j] /\ Grown(lines[j], lines'[j], written)
      <4>1. CASE Keeps(position[j], look)
        BY <1>1, <2>2, <4>1 DEF Same, Begins, Moved
      <4>2. CASE ~Keeps(position[j], look)
        BY <1>1, <2>2, <4>2 DEF Keeps, KeepsPrint, Moved
      <4> QED BY <4>1, <4>2
    <3>2. Same(position[j], look, lines[j], inode[j])
      <4> SUFFICES ASSUME Keeps(position[j], look) PROVE Begins(position[j], lines[j], inode[j])
        BY DEF Same
      <4>1. Begins(position[j], lines'[j], inode[j])
        BY <2>2, <3>1 DEF Same
      <4>2. Covered(position[j], lines[j], inode[j], written, Done \cup Waiting(j))
        BY <1>1, <2>2 DEF PlaceInv, PositionInv, Keeps
      <4> QED BY <1>1, <1>3, <1>4, <3>1, <4>1, <4>2, GrownBegins DEF Covered
    <3>3. /\ Holds(look, lines[j], inode[j], Done \cup Elements(read))
          /\ pc = "remembering" => Least(Prefix, look.size) <= look.offset
      BY <1>1, <2>2, <3>2 DEF PlaceInv, LookInv
    <3> QED BY <1>3, <2>1, <3>1, <3>3, GrownHolds
  <2> QED BY <2>1, <2>2
<1> QED BY <1>1, <1>6, <1>7, <1>8 DEF PlaceInv

\* Steps that leave the journals alone: each position is one of before, and the lines
\* it covers are done with or wait.
LEMMA StillCovered ==
    ASSUME TypeOK, TypeOK', PositionInv, UNCHANGED <<lines, inode, written, raced>>, Done \subseteq Done',
           \A j \in Journal :
              \/ stored'[j] = stored[j]
              \/ stored'[j] = position[j] /\ Waiting(j) \subseteq Done',
           \A j \in Journal :
              \/ ~position'[j].known \/ position'[j] = stored[j]
              \/ position'[j] = position[j] /\ Waiting(j) \subseteq Done' \cup Waiting(j)'
    PROVE  PositionInv'
<1>1. written \in Nat
  BY FollowAssumption DEF TypeOK
<1>2. \A j \in Journal : lines[j] \in Seq(Event) /\ stored[j] \in Position /\ position[j] \in Position
  BY DEF TypeOK
<1>3. ASSUME NEW j \in Journal, NEW p \in Position, NEW done, NEW done2, done \subseteq done2,
             Covered(p, lines[j], inode[j], written, done)
      PROVE  Covered(p, lines[j], inode[j], written, done2)
  BY <1>1, <1>2, <1>3, GrownByNothing, GrownIsCovered
<1> SUFFICES ASSUME NEW j \in Journal, j \notin raced
             PROVE  /\ stored'[j].known => Covered(stored'[j], lines[j], inode[j], written, Done')
                    /\ position'[j].known =>
                          Covered(position'[j], lines[j], inode[j], written, Done' \cup Waiting(j)')
  BY DEF PositionInv
<1>4. /\ stored[j].known => Covered(stored[j], lines[j], inode[j], written, Done)
      /\ position[j].known => Covered(position[j], lines[j], inode[j], written, Done \cup Waiting(j))
  BY DEF PositionInv
<1>5. stored'[j].known => Covered(stored'[j], lines[j], inode[j], written, Done')
  <2>1. CASE stored'[j] = stored[j]
    BY <1>2, <1>3, <1>4, <2>1
  <2>2. CASE stored'[j] = position[j] /\ Waiting(j) \subseteq Done'
    <3>1. Done \cup Waiting(j) \subseteq Done'
      BY <2>2
    <3> QED BY <1>2, <1>3, <1>4, <2>2, <3>1
  <2> QED BY <2>1, <2>2
<1>6. position'[j].known => Covered(position'[j], lines[j], inode[j], written, Done' \cup Waiting(j)')
  <2>1. CASE position'[j] = stored[j]
    <3>1. Done \subseteq Done' \cup Waiting(j)'
      OBVIOUS
    <3> QED BY <1>2, <1>3, <1>4, <2>1, <3>1
  <2>2. CASE position'[j] = position[j] /\ Waiting(j) \subseteq Done' \cup Waiting(j)'
    <3>1. Done \cup Waiting(j) \subseteq Done' \cup Waiting(j)'
      BY <2>2
    <3> QED BY <1>2, <1>3, <1>4, <2>2, <3>1
  <2> QED BY <2>1, <2>2
<1> QED BY <1>5, <1>6

\* A start takes the positions of the base, a stop and a death forget those of the process.
LEMMA ProcessPlaces ==
    ASSUME TypeOK, TypeOK', PlaceInv, Start \/ Stop \/ Die
    PROVE  PlaceInv'
<1>1. /\ UNCHANGED <<lines, inode, written, raced, stored, seen, marked>> /\ pc' \in {"down", "idle"}
      /\ skipped \subseteq skipped'
  BY DEF Start, Stop, Die, journals, base, ghosts
<1>2. Done \subseteq Done'
  <2>1. notBefore \in Nat /\ notBefore' \in Nat /\ notBefore <= notBefore'
    <3>1. written \in Nat /\ notBefore \in 0..written
      BY FollowAssumption DEF TypeOK
    <3>2. notBefore' \in notBefore..written \/ notBefore' = notBefore
      BY DEF Start, Stop, Die
    <3> QED BY <3>1, <3>2
  <2> QED BY <1>1, <2>1 DEF Done
<1>3. \A j \in Journal : ~position'[j].known \/ position'[j] = stored[j]
  <2>1. CASE Start
    BY <2>1 DEF Start
  <2>2. CASE Stop \/ Die
    BY <2>2 DEF Stop, Die, Forget, NoPosition
  <2> QED BY <2>1, <2>2
<1>4. PositionInv'
  BY <1>1, <1>2, <1>3, StillCovered DEF PlaceInv
<1>5. StartInv'
  <2>1. CASE Start
    <3> DEFINE from(j) == IF Len(lines[j]) > Back THEN Len(lines[j]) - Back ELSE 0
               new == {j \in Journal : ~stored[j].known}
    <3>1. /\ position' = stored
          /\ initial' = [j \in Journal |->
                 IF j \in new THEN [known |-> TRUE, inode |-> inode[j], offset |-> from(j)] ELSE NoStart]
          /\ skipped' = skipped \cup UNION {Elements(First(lines[j], from(j))) : j \in new}
      BY <2>1 DEF Start
    <3>2. ASSUME NEW j \in new
          PROVE  /\ initial'[j].inode = inode[j] /\ initial'[j].offset <= Len(lines[j])
                 /\ \A n \in 1..initial'[j].offset : lines[j][n] \in skipped'
      <4>1. lines[j] \in Seq(Event) /\ Len(lines[j]) \in Nat /\ Back \in Nat
        BY FollowAssumption DEF TypeOK
      <4>2. from(j) \in Nat /\ from(j) <= Len(lines[j])
        BY <4>1
      <4>3. initial'[j].inode = inode[j] /\ initial'[j].offset = from(j)
        BY <3>1
      <4> HIDE DEF from
      <4>4. /\ First(lines[j], from(j)) \in Seq(Event) /\ Len(First(lines[j], from(j))) = from(j)
            /\ \A i \in 1..from(j) : First(lines[j], from(j))[i] = lines[j][i]
        BY <4>1, <4>2, FirstLines
      <4>5. \A n \in 1..from(j) : lines[j][n] \in Elements(First(lines[j], from(j)))
        BY <4>2, <4>4 DEF Elements
      <4>6. Elements(First(lines[j], from(j))) \subseteq skipped'
        BY <3>1
      <4> QED BY <4>2, <4>3, <4>5, <4>6
    <3> QED BY <1>1, <3>1, <3>2 DEF StartInv, NoStart
  <2>2. CASE Stop \/ Die
    BY <2>2 DEF Stop, Die, Forget, NoStart, StartInv
  <2> QED BY <2>1, <2>2
<1>6. LookInv'
  BY <1>1 DEF LookInv
<1> QED BY <1>1, <1>4, <1>5, <1>6 DEF PlaceInv

\* The steps of a turn that neither look at a file nor read it.
LEMMA MarkingPlaces ==
    ASSUME TypeOK, TypeOK', TurnInv, PlaceInv, BeginTurn \/ FailTurn \/ MarkLine \/ SavePosition \/ Handle \/ EndTurn
    PROVE  PlaceInv'
<1>1. /\ UNCHANGED <<lines, inode, written, raced, position, initial, skipped, notBefore>>
      /\ pc' \notin {"reading", "remembering"}
  BY DEF BeginTurn, FailTurn, MarkLine, SavePosition, Handle, EndTurn, journals, base, memory, ghosts
<1>2. marked \subseteq marked' /\ seen' \subseteq marked'
  BY DEF BeginTurn, FailTurn, MarkLine, SavePosition, Handle, EndTurn, PurgeSeen, base, ghosts, PlaceInv
<1>3. Done \subseteq Done'
  BY <1>1, <1>2 DEF Done
<1>4. \A j \in Journal : Waiting(j) \subseteq Done' \cup Waiting(j)'
  <2>1. CASE MarkLine
    <3>1. /\ pc = "marking" /\ pc' = pc /\ Current' = Current /\ read' = Tail(read)
          /\ read \in Seq(Event) /\ read # <<>>
      BY <2>1 DEF MarkLine, Current, TypeOK
    <3>2. Elements(read) \subseteq {Head(read)} \cup Elements(read')
      <4>1. /\ Tail(read) \in Seq(Event)
            /\ \A n \in 1..Len(read) : n = 1 \/ (n - 1 \in 1..Len(Tail(read)) /\ read[n] = Tail(read)[n - 1])
        BY <3>1
      <4>2. Head(read) = read[1]
        BY <3>1
      <4> SUFFICES ASSUME NEW n \in 1..Len(read), read[n] # Head(read) PROVE read[n] \in Elements(read')
        BY <3>1 DEF Elements
      <4>3. n - 1 \in 1..Len(read') /\ read[n] = read'[n - 1] /\ read' \in Seq(Event)
        BY <3>1, <4>1, <4>2
      <4> QED BY <4>3 DEF Elements
    <3>3. Head(read) \in marked' \/ Head(read) \in seen \/ Head(read) \in 1..notBefore
      <4>1. Head(read) \in Nat \ {0} /\ notBefore \in Nat
        <5>1. Head(read) \in Event
          BY <3>1
        <5>2. MaxLines \in Nat /\ written \in 0..MaxLines /\ notBefore \in 0..written
          BY FollowAssumption DEF TypeOK
        <5> QED BY <5>1, <5>2 DEF Event
      <4> QED BY <2>1, <4>1 DEF MarkLine
    <3>4. Head(read) \in Done'
      BY <1>1, <1>2, <3>3 DEF PlaceInv, Done
    <3> QED BY <3>1, <3>2, <3>4 DEF Waiting
  <2>2. CASE SavePosition
    BY <2>2 DEF SavePosition, Waiting, Elements
  <2>3. CASE BeginTurn \/ FailTurn \/ Handle \/ EndTurn
    BY <2>3 DEF BeginTurn, FailTurn, Handle, EndTurn, Waiting
  <2> QED BY <2>1, <2>2, <2>3
<1>5. \A j \in Journal :
         \/ stored'[j] = stored[j]
         \/ stored'[j] = position[j] /\ Waiting(j) \subseteq Done'
  <2>1. CASE SavePosition
    <3>1. stored' = [stored EXCEPT ![Current] = position[Current]] /\ read = <<>>
      BY <2>1 DEF SavePosition
    <3>2. \A j \in Journal : Waiting(j) = {}
      BY <3>1 DEF Waiting, Elements
    <3> QED BY <3>1, <3>2 DEF TypeOK
  <2>2. CASE BeginTurn \/ FailTurn \/ MarkLine \/ Handle \/ EndTurn
    BY <2>2 DEF BeginTurn, FailTurn, MarkLine, Handle, EndTurn, base
  <2> QED BY <2>1, <2>2
<1>6. PositionInv'
  BY <1>1, <1>3, <1>4, <1>5, StillCovered DEF PlaceInv
<1>7. StartInv' /\ LookInv'
  BY <1>1 DEF PlaceInv, StartInv, LookInv
<1> QED BY <1>2, <1>6, <1>7 DEF PlaceInv

\* Look: the offset a turn starts from is about the file that is there.
LEMMA LookPlaces ==
    ASSUME TypeOK, TypeOK', TurnInv, PlaceInv, Look
    PROVE  PlaceInv'
<1> DEFINE c == Current
           p == position[c]
           s == initial[c]
           o == ResolveStart(c)
<1>1. /\ UNCHANGED <<lines, inode, written, raced, stored, seen, marked, skipped, notBefore, position, initial,
                     read, source>>
      /\ pc = "looking" /\ pc' = "reading" /\ Current' = c
      /\ look' = [inode |-> inode[c], size |-> Len(lines[c]), offset |-> o]
  BY DEF Look, journals, base, ghosts, Current
<1>2. /\ c \in Journal /\ lines[c] \in Seq(Event) /\ p \in Position
      /\ s \in [known : BOOLEAN, inode : Inode \cup {0}, offset : Nat]
  BY CurrentIsJournal DEF TypeOK
<1>3. Done' = Done /\ (\A j \in Journal : Waiting(j) = {})
  BY <1>1 DEF Done, Waiting
<1>4. PositionInv'
  BY <1>1, <1>3, StillCovered DEF PlaceInv
<1>5. StartInv'
  BY <1>1 DEF PlaceInv, StartInv
<1>6. /\ o \in Nat /\ o <= Len(lines[c])
      /\ c \notin raced => \A n \in 1..o : lines[c][n] \in Done
  <2>1. o \in Nat /\ Len(lines[c]) \in Nat
    BY <1>2, ResolveStartIsOffset
  <2>2. CASE o = 0
    BY <2>1, <2>2
  <2>3. CASE o # 0 /\ ~p.known
    <3>1. s.known /\ s.inode = inode[c] /\ Len(lines[c]) >= s.offset /\ o = s.offset
      BY <2>3 DEF ResolveStart
    <3>2. c \notin raced => \A n \in 1..s.offset : lines[c][n] \in skipped
      BY <1>2, <2>3, <3>1 DEF PlaceInv, StartInv
    <3> QED BY <1>2, <2>1, <3>1, <3>2 DEF Done
  <2>4. CASE o # 0 /\ p.known
    <3>1. /\ p.inode = inode[c] /\ ~(Len(lines[c]) < p.offset) /\ o = p.offset
          /\ ~(Compares(c) /\ First(lines[c], p.length) # p.print)
      BY <2>4 DEF ResolveStart
    <3>2. p.offset \in Nat /\ p.length \in Nat /\ p.print \in Seq(Event)
      BY <1>2 DEF Position
    <3>3. o <= Len(lines[c])
      BY <2>1, <3>1, <3>2
    <3>4. ASSUME c \notin raced PROVE \A n \in 1..o : lines[c][n] \in Done
      <4>1. Covered(p, lines[c], inode[c], written, Done)
        BY <1>2, <1>3, <2>4, <3>4 DEF PlaceInv, PositionInv
      <4>2. p.length > 0 /\ p.length <= p.offset /\ Len(p.print) = p.length
        BY <2>4, <3>1, <3>2, <4>1 DEF Covered
      <4>3. p.length <= Len(lines[c]) /\ lines[c] # <<>>
        BY <1>2, <2>1, <3>1, <3>2, <3>3, <4>2
      <4>4. First(lines[c], p.length) = p.print
        BY <2>1, <2>4, <3>1, <3>2, <3>3, <4>2, <4>3 DEF Compares
      <4>5. lines[c][1] = p.print[1]
        BY <1>2, <3>2, <4>2, <4>3, <4>4, FirstLines
      <4>6. Begins(p, lines[c], inode[c])
        BY <3>1, <4>2, <4>3, <4>5 DEF Begins
      <4> QED BY <3>1, <4>1, <4>6 DEF Covered
    <3> QED BY <2>1, <3>3, <3>4
  <2> QED BY <2>2, <2>3, <2>4
<1> HIDE DEF o
<1>7. LookInv'
  <2>1. look'.inode = inode[c] /\ look'.size = Len(lines[c]) /\ look'.offset = o
    BY <1>1
  <2>2. c \notin raced => Holds(look', lines[c], inode[c], Done \cup Elements(read)')
    BY <1>2, <1>6, <2>1 DEF Holds
  <2> QED BY <1>1, <1>3, <1>6, <2>1, <2>2 DEF LookInv
<1> QED BY <1>1, <1>4, <1>5, <1>7 DEF PlaceInv

\* A chunk is as long as its bounds say, and holds the lines between them.
LEMMA ChunkLines ==
    ASSUME NEW S, NEW s \in Seq(S), NEW from \in Nat, NEW last \in Nat, last <= Len(s)
    PROVE  /\ Len(SubSeq(s, from + 1, last)) = IF from <= last THEN last - from ELSE 0
           /\ \A n \in (from + 1)..last : s[n] \in Elements(SubSeq(s, from + 1, last))
<1> DEFINE t == SubSeq(s, from + 1, last)
<1>1. \A i \in (from + 1)..last : s[i] \in S
    BY ElementOfSeq
<1>2. /\ t \in Seq(S)
      /\ Len(t) = IF from + 1 <= last THEN last - (from + 1) + 1 ELSE 0
      /\ \A i \in 1..(last - (from + 1) + 1) : t[i] = s[(from + 1) + i - 1]
    BY <1>1, SubSeqProperties
<1> HIDE DEF t
<1>3. ASSUME NEW n \in (from + 1)..last PROVE s[n] \in Elements(t)
  <2>1. n - from \in 1..(last - (from + 1) + 1) /\ (from + 1) + (n - from) - 1 = n
    OBVIOUS
  <2>2. t[n - from] = s[n] /\ n - from \in 1..Len(t)
    BY <1>2, <2>1, SMTT(30)
  <2>3. DOMAIN t = 1..Len(t)
    BY <1>2
  <2> QED BY <2>2, <2>3 DEF Elements
<1>4. Len(t) = IF from <= last THEN last - from ELSE 0
  BY <1>2
<1> QED BY <1>3, <1>4 DEF t

\* The lines a chunk takes, and the offset after it.
LEMMA ChunkTakes ==
    ASSUME TypeOK, TypeOK', Read, look.offset <= look.size
    PROVE  /\ look' = [look EXCEPT !.offset = look'.offset]
           /\ look'.offset >= look.offset /\ look'.offset <= look.size
           /\ look.size <= Len(lines[Current]) =>
                /\ look'.offset = Least(look.size, look.offset + Chunk)
                /\ \A n \in (look.offset + 1)..look'.offset : lines[Current][n] \in Elements(read')
<1> DEFINE f == lines[Current]
           o == look.offset
           last == Least(Least(look.size, o + Chunk), Len(f))
<1>1. f \in Seq(Event) /\ Len(f) \in Nat /\ o \in Nat /\ look.size \in Nat /\ Chunk \in Nat
  <2>1. f \in Seq(Event) /\ o \in Nat /\ look.size \in Nat
    BY CurrentIsJournal DEF TypeOK
  <2> QED BY <2>1, FollowAssumption
<1>2. last \in Nat /\ last <= Len(f) /\ last <= look.size
  BY <1>1 DEF Least
<1>3. read' = SubSeq(f, o + 1, last)
  BY DEF Read
<1>4. /\ look' = [look EXCEPT !.offset = o + Len(read')] /\ look'.offset = o + Len(read')
  BY DEF Read, TypeOK
<1> HIDE DEF last
<1>6. /\ Len(read') = IF o <= last THEN last - o ELSE 0
      /\ \A n \in (o + 1)..last : f[n] \in Elements(read')
  BY <1>1, <1>2, <1>3, ChunkLines
<1>7. look'.offset = IF o <= last THEN last ELSE o
  BY <1>1, <1>2, <1>4, <1>6
<1>8. ASSUME look.size <= Len(f)
      PROVE  /\ look'.offset = Least(look.size, o + Chunk)
             /\ \A n \in (o + 1)..look'.offset : f[n] \in Elements(read')
  <2>1. last = Least(look.size, o + Chunk) /\ o <= last
    BY <1>1, <1>8 DEF last, Least
  <2>2. look'.offset = last
    BY <1>7, <2>1
  <2> QED BY <1>6, <2>1, <2>2
<1>9. look'.offset >= o /\ look'.offset <= look.size
  BY <1>1, <1>2, <1>7
<1> QED BY <1>4, <1>8, <1>9

\* Read: the chunk follows the offset, in the same file.
LEMMA ReadPlaces ==
    ASSUME TypeOK, TypeOK', TurnInv, PlaceInv, Read
    PROVE  PlaceInv'
<1> DEFINE c == Current
           p == position[c]
<1>1. /\ UNCHANGED <<lines, inode, written, raced, stored, seen, marked, skipped, notBefore, position, initial, source>>
      /\ pc = "reading" /\ pc' = "remembering" /\ Current' = c
  BY DEF Read, journals, base, ghosts, Current
<1>2. Done' = Done /\ (\A j \in Journal : Waiting(j) = {})
  BY <1>1 DEF Done, Waiting
<1>3. PositionInv' /\ StartInv'
  <2>1. PositionInv'
    BY <1>1, <1>2, StillCovered DEF PlaceInv
  <2> QED BY <1>1, <2>1 DEF PlaceInv, StartInv
<1>4. look.offset <= look.size
  BY <1>1 DEF PlaceInv, LookInv
<1>5. /\ look' = [look EXCEPT !.offset = look'.offset]
      /\ look'.offset >= look.offset /\ look'.offset <= look.size
      /\ look.size <= Len(lines[c]) =>
           /\ look'.offset = Least(look.size, look.offset + Chunk)
           /\ \A n \in (look.offset + 1)..look'.offset : lines[c][n] \in Elements(read')
  BY <1>4, ChunkTakes
<1>6. look'.inode = look.inode /\ look'.size = look.size
  BY <1>5 DEF TypeOK
<1>7. /\ look.offset \in Nat /\ look'.offset \in Nat /\ look.size \in Nat /\ c \in Journal /\ p.offset \in Nat
  <2>1. look.offset \in Nat /\ look'.offset \in Nat /\ look.size \in Nat
    BY DEF TypeOK
  <2> QED BY <2>1, CurrentIsJournal DEF TypeOK, Position
<1>8. ASSUME c \notin raced, Same(p, look', lines[c], inode[c])
      PROVE  /\ Holds(look', lines[c], inode[c], Done \cup Elements(read'))
             /\ Least(Prefix, look'.size) <= look'.offset
  <2>1. Same(p, look, lines[c], inode[c])
    BY <1>5, <1>6, <1>7, <1>8 DEF Same, Keeps
  <2>2. Holds(look, lines[c], inode[c], Done \cup Elements(read))
    BY <1>1, <1>7, <1>8, <2>1 DEF PlaceInv, LookInv
  <2>3. Elements(read) = {}
    BY <1>1 DEF TurnInv, Elements
  <2>4. look.inode = inode[c] /\ look.size <= Len(lines[c]) /\ \A n \in 1..look.offset : lines[c][n] \in Done
    BY <2>2, <2>3 DEF Holds
  <2>5. \A n \in 1..look'.offset : lines[c][n] \in Done \cup Elements(read')
    <3>1. \A n \in 1..look'.offset : n \in 1..look.offset \/ n \in (look.offset + 1)..look'.offset
      BY <1>7
    <3> QED BY <1>5, <2>4, <3>1
  <2>6. Least(Prefix, look.size) <= look'.offset
    <3>1. Prefix \in Nat /\ Chunk \in Nat /\ Prefix <= Chunk
      BY FollowAssumption
    <3> QED BY <1>4, <1>5, <1>7, <2>4, <3>1 DEF Least
  <2> QED BY <1>6, <2>4, <2>5, <2>6 DEF Holds
<1>9. LookInv'
  BY <1>1, <1>2, <1>5, <1>6, <1>8 DEF LookInv, Elements
<1> QED BY <1>1, <1>3, <1>9 DEF PlaceInv

\* The position after a chunk is about the file that was read.
LEMMA ReachedIsCovered ==
    ASSUME TypeOK, MarkedInv, PlaceInv, pc = "remembering", Current \notin raced
    PROVE  Covered(Reached(Current), lines[Current], inode[Current], written, Done \cup Elements(read))
<1> DEFINE c == Current
           p == position[c]
           l == Least(Prefix, look.size)
           r == Reached(c)
<1>1. /\ c \in Journal /\ lines[c] \in Seq(Event) /\ Len(lines[c]) \in Nat /\ p \in Position /\ r \in Position
      /\ look.offset \in Nat /\ look.size \in Nat
  BY CurrentIsJournal, ReachedIsPosition DEF TypeOK
<1>2. look.offset <= look.size
  BY DEF PlaceInv, LookInv
<1>3. l \in Nat /\ (l = 0 => look.offset = 0)
  BY <1>1, <1>2, FollowAssumption DEF Least
<1>4. KeepsPrint(c, l) <=> Keeps(p, look)
  BY DEF KeepsPrint, Keeps
<1>5. /\ r.inode = look.inode /\ r.offset = look.offset /\ r.length = l
      /\ r.print = IF Keeps(p, look) THEN p.print ELSE First(lines[c], l)
  BY <1>4 DEF Reached
<1>6. Same(p, look, lines[c], inode[c]) =>
        /\ Holds(look, lines[c], inode[c], Done \cup Elements(read))
        /\ l <= look.offset
  BY <1>1 DEF PlaceInv, LookInv
<1>7. CASE Keeps(p, look)
  <2>1. Covered(p, lines[c], inode[c], written, Done)
    BY <1>1, <1>7 DEF PlaceInv, PositionInv, Keeps, Waiting
  <2>2. p.inode = look.inode /\ p.length = l /\ p.offset <= look.offset /\ r.print = p.print
    BY <1>5, <1>7 DEF Keeps
  <2>3. /\ Len(p.print) = p.length /\ p.length <= p.offset /\ Elements(p.print) \subseteq 1..written
        /\ p.offset \in Nat /\ p.length \in Nat
    BY <1>1, <2>1 DEF Covered, Position
  <2>4. Len(r.print) = r.length /\ r.length <= r.offset /\ (r.length = 0 => r.offset = 0)
    BY <1>1, <1>3, <1>5, <2>2, <2>3
  <2>5. ASSUME Begins(r, lines[c], inode[c])
        PROVE  /\ r.offset <= Len(lines[c]) /\ First(lines[c], r.length) = r.print
               /\ \A n \in 1..r.offset : lines[c][n] \in Done \cup Elements(read)
    <3>1. Begins(p, lines[c], inode[c])
      BY <1>5, <2>2, <2>5 DEF Begins
    <3>2. First(lines[c], p.length) = p.print
      BY <2>1, <3>1 DEF Covered
    <3>3. Holds(look, lines[c], inode[c], Done \cup Elements(read))
      BY <1>6, <3>1 DEF Same
    <3> QED BY <1>1, <1>2, <1>5, <2>2, <3>2, <3>3 DEF Holds
  <2> QED BY <1>5, <2>2, <2>3, <2>4, <2>5 DEF Covered
<1>8. CASE ~Keeps(p, look)
  <2>1. Holds(look, lines[c], inode[c], Done \cup Elements(read)) /\ l <= look.offset
    BY <1>6, <1>8 DEF Same
  <2>2. /\ look.size <= Len(lines[c])
        /\ \A n \in 1..look.offset : lines[c][n] \in Done \cup Elements(read)
    BY <2>1 DEF Holds
  <2>3. l <= Len(lines[c]) /\ look.offset <= Len(lines[c])
    BY <1>1, <1>2, <1>3, <2>1, <2>2
  <2>4. r.print = First(lines[c], l) /\ Len(r.print) = l
    BY <1>1, <1>3, <1>5, <1>8, <2>3, FirstLines
  <2>5. Elements(r.print) \subseteq 1..written
    BY <1>1, <1>3, <2>4, FirstIsPart DEF MarkedInv
  <2> QED BY <1>3, <1>5, <2>1, <2>2, <2>3, <2>4, <2>5 DEF Covered
<1> QED BY <1>7, <1>8

\* Remember: from then on the lines that were read wait for their marks.
LEMMA RememberPlaces ==
    ASSUME TypeOK, TypeOK', MarkedInv, PlaceInv, Remember
    PROVE  PlaceInv'
<1> DEFINE c == Current
<1>1. /\ UNCHANGED <<lines, inode, written, raced, stored, seen, marked, skipped, notBefore, read, source>>
      /\ pc = "remembering" /\ pc' = "marking" /\ Current' = c /\ c \in Journal
      /\ position' = [position EXCEPT ![c] = Reached(c)] /\ initial' = [initial EXCEPT ![c] = NoStart]
  BY CurrentIsJournal DEF Remember, LookAway, journals, base, ghosts, Current, TypeOK
<1>2. /\ Done' = Done /\ \A j \in Journal : Waiting(j) = {}
      /\ \A j \in Journal : Waiting(j)' = IF j = c THEN Elements(read) ELSE {}
  BY <1>1 DEF Done, Waiting, Elements
<1>3. /\ position'[c] = Reached(c) /\ initial'[c] = NoStart
      /\ \A j \in Journal \ {c} : position'[j] = position[j] /\ initial'[j] = initial[j]
  BY <1>1 DEF TypeOK
<1>4. c \notin raced => Covered(position'[c], lines[c], inode[c], written, Done \cup Elements(read))
  BY <1>1, <1>3, ReachedIsCovered
<1>5. PositionInv'
  <2> SUFFICES ASSUME NEW j \in Journal, j \notin raced
               PROVE  /\ stored[j].known => Covered(stored[j], lines[j], inode[j], written, Done)
                      /\ position'[j].known =>
                            Covered(position'[j], lines[j], inode[j], written, Done \cup Waiting(j)')
    BY <1>1, <1>2 DEF PositionInv
  <2>1. /\ stored[j].known => Covered(stored[j], lines[j], inode[j], written, Done)
        /\ position[j].known => Covered(position[j], lines[j], inode[j], written, Done \cup Waiting(j))
    BY DEF PlaceInv, PositionInv
  <2>2. CASE j = c
    BY <1>2, <1>4, <2>1, <2>2
  <2>3. CASE j # c
    BY <1>2, <1>3, <2>1, <2>3
  <2> QED BY <2>2, <2>3
<1>6. StartInv'
  <2> SUFFICES ASSUME NEW j \in Journal, j \notin raced, initial'[j].known, ~position'[j].known
               PROVE  /\ initial'[j].inode = inode[j] /\ initial'[j].offset <= Len(lines[j])
                      /\ \A n \in 1..initial'[j].offset : lines[j][n] \in skipped
    BY <1>1 DEF StartInv
  <2>1. j # c
    BY <1>3 DEF NoStart
  <2> QED BY <1>3, <2>1 DEF PlaceInv, StartInv
<1>7. LookInv'
  BY <1>1 DEF LookInv
<1> QED BY <1>1, <1>5, <1>6, <1>7 DEF PlaceInv

\* Nothing was read when the server starts.
LEMMA InitPlaces == Init => PlaceInv
BY DEF Init, PlaceInv, PositionInv, StartInv, LookInv, NoPosition, NoStart

\* Every step keeps the positions about their files.
LEMMA PlacesAreKept == IInv /\ IInv' /\ PlaceInv /\ [Next]_vars => PlaceInv'
<1> SUFFICES ASSUME IInv, IInv', PlaceInv, [Next]_vars PROVE PlaceInv'
  OBVIOUS
<1>1. TypeOK /\ TypeOK' /\ MarkedInv /\ TurnInv
  BY DEF IInv
<1>2. CASE Environment
  BY <1>1, <1>2, EnvironmentPlaces
<1>3. CASE Start \/ Stop \/ Die
  BY <1>1, <1>3, ProcessPlaces
<1>4. CASE Turn
  BY <1>1, <1>4, LookPlaces, ReadPlaces, RememberPlaces, MarkingPlaces DEF Turn
<1>5. CASE UNCHANGED vars
  <2>1. UNCHANGED <<lines, inode, written, raced, stored, seen, marked, skipped, notBefore, position, initial, read,
                    source, pc, look>>
    BY <1>5 DEF vars, journals, base, memory, ghosts
  <2>2. Done' = Done /\ Current' = Current /\ Elements(read)' = Elements(read)
        /\ \A j \in Journal : Waiting(j)' = Waiting(j)
    BY <2>1 DEF Done, Current, Elements, Waiting
  <2> QED BY <2>1, <2>2 DEF PlaceInv, PositionInv, StartInv, LookInv
<1> QED BY <1>2, <1>3, <1>4, <1>5 DEF Next

\* A saved position is never ahead of the events marked: as long as it still is
\* about the file, every line before it was marked, or is history.
THEOREM PositionsStayBehind == Spec => []PositionBehindMarks
<1>1. IInv /\ PlaceInv => PositionBehindMarks
  <2> SUFFICES ASSUME IInv, PlaceInv, NEW j \in Journal, j \notin raced,
                      stored[j].known, stored[j].inode = inode[j], Len(lines[j]) >= stored[j].offset,
                      First(lines[j], stored[j].length) = stored[j].print
               PROVE  \A n \in 1..stored[j].offset : lines[j][n] \in Done
    BY DEF PositionBehindMarks, Done
  <2> DEFINE p == stored[j]
  <2>1. lines[j] \in Seq(Event) /\ p \in Position
    BY DEF IInv, TypeOK
  <2>2. p.offset \in Nat /\ p.length \in Nat /\ Len(lines[j]) \in Nat
    BY <2>1 DEF Position
  <2>3. Covered(p, lines[j], inode[j], written, Done)
    BY DEF PlaceInv, PositionInv
  <2>4. p.length <= p.offset /\ (p.length = 0 => p.offset = 0)
    BY <2>3 DEF Covered
  <2>5. CASE p.length = 0
    BY <2>2, <2>4, <2>5
  <2>6. CASE p.length # 0
    <3>1. p.length > 0 /\ p.length <= Len(lines[j]) /\ lines[j] # <<>>
      BY <2>1, <2>2, <2>4, <2>6
    <3>2. p.print[1] = lines[j][1]
      BY <2>1, <2>2, <3>1, FirstLines
    <3>3. Begins(p, lines[j], inode[j])
      BY <3>1, <3>2 DEF Begins
    <3> QED BY <2>3, <3>3 DEF Covered
  <2> QED BY <2>5, <2>6
<1> QED BY <1>1, InitPlaces, PlacesAreKept, Invariance, PTL DEF Spec
=============================================================================
