---------------------------- MODULE RiposteFollow ----------------------------
(***************************************************************************)
(* How RIPOSTE follows the journals of the server: one turn reads the new  *)
(* lines of each journal, marks their events as seen, saves how far it has *)
(* read, then hands the new events to the engine.  The journals are        *)
(* rotated in place and replaced meanwhile, become unreadable, and the     *)
(* process dies between any two steps.                                     *)
(*                                                                         *)
(* A line is the event it holds, an event is its rank: the order of the    *)
(* timestamps.  Offsets count lines; a line is in a journal once its       *)
(* newline is, so one being written is not there yet.                      *)
(***************************************************************************)
EXTENDS Naturals, Sequences

CONSTANTS
    Sources,       \* the journals, in the order a turn reads them
    Inode,         \* the inode numbers of the file system
    Chunk,         \* lines read at most per journal and turn (max_bytes_per_read)
    Prefix,        \* lines the fingerprint covers (FINGERPRINT_BYTES)
    Back,          \* lines before the end where a first follow starts (start_back_bytes)
    ShortJournals, \* whether no journal goes further back than the events seen are kept
    MaxLines,      \* bound: lines written
    MaxChanges,    \* bound: rotations and replacements
    MaxFailures,   \* bound: journals made unreadable
    MaxCrashes     \* bound: deaths of the process

ASSUME FollowAssumption ==
    /\ Sources \in Seq(STRING) /\ Sources # <<>>
    /\ \A m, n \in DOMAIN Sources : Sources[m] = Sources[n] => m = n
    /\ 0 \notin Inode /\ \E m, n \in Inode : m # n
    /\ {Chunk, Prefix} \subseteq Nat \ {0} /\ Prefix <= Chunk
    /\ {Back, MaxLines, MaxChanges, MaxFailures, MaxCrashes} \subseteq Nat
    /\ ShortJournals \in BOOLEAN

VARIABLES
    \* the journals
    inode, lines,  \* the file of each journal, and what it holds
    readable,      \* whether it can be opened
    written,       \* the last event written
    \* the RIPOSTE database
    stored,        \* how far each journal was read
    seen,          \* the events seen, for as long as they are kept
    \* the RIPOSTE process
    pc, source,    \* where it is in a turn, and in which journal
    position,      \* LogFollower.position of each journal
    initial,       \* where the first follow of each journal starts
    look,          \* what stat said of the journal, and the offset it gave
    read,          \* the lines read and not looked at
    batch,         \* the new events of the turn
    notBefore,     \* events up to this one are history
    \* history variables and bounds
    marked,        \* the events ever marked as seen
    handled,       \* the events the engine has handled
    again,         \* those it has handled more than once
    skipped,       \* lines before the start of a first follow
    raced,         \* journals with a change the follower could not see
    stale,         \* journals read again from the start under the fingerprint of an older file
    changes, failures, crashes

journals == <<inode, lines, readable, written>>
base     == <<stored, seen>>
memory   == <<source, position, initial, look, read, batch>>
bounds   == <<changes, failures, crashes>>
ghosts   == <<marked, handled, again, skipped, raced, stale>>
vars     == <<journals, base, pc, memory, notBefore, ghosts, bounds>>

Journal == {Sources[n] : n \in DOMAIN Sources}
Event   == 1..MaxLines

NoPosition == [inode |-> 0, offset |-> 0, length |-> 0, print |-> <<>>, known |-> FALSE]
NoLook     == [inode |-> 0, size |-> 0, offset |-> 0]
NoStart    == [known |-> FALSE, inode |-> 0, offset |-> 0]

Least(m, n) == IF m <= n THEN m ELSE n
First(s, n) == SubSeq(s, 1, Least(n, Len(s)))
Elements(s) == {s[n] : n \in DOMAIN s}

Forget ==
    /\ source' = 1 /\ look' = NoLook /\ read' = <<>> /\ batch' = {}
    /\ position' = [j \in Journal |-> NoPosition] /\ initial' = [j \in Journal |-> NoStart]

Init ==
    /\ inode = [j \in Journal |-> CHOOSE n \in Inode : TRUE] /\ lines = [j \in Journal |-> <<>>]
    /\ readable = [j \in Journal |-> TRUE] /\ written = 0
    /\ stored = [j \in Journal |-> NoPosition] /\ seen = {}
    /\ pc = "down" /\ source = 1 /\ look = NoLook /\ read = <<>> /\ batch = {}
    /\ position = [j \in Journal |-> NoPosition] /\ initial = [j \in Journal |-> NoStart]
    /\ notBefore = 0
    /\ marked = {} /\ handled = {} /\ again = {} /\ skipped = {}
    /\ raced = {} /\ stale = {}
    /\ changes = 0 /\ failures = 0 /\ crashes = 0

-----------------------------------------------------------------------------
(* The journals.                                                            *)

\* FileLineLogger: a whole line, at the end of the file.
Write(j) ==
    /\ written < MaxLines
    /\ written' = written + 1
    /\ lines' = [lines EXCEPT ![j] = Append(@, written + 1)]
    /\ UNCHANGED <<inode, readable, base, pc, memory, notBefore, ghosts, bounds>>

\* _remember keeps the fingerprint of a position that only moved forward.
KeepsPrint(j, length) ==
    LET p == position[j] IN
    p.known /\ p.inode = look.inode /\ p.length = length /\ p.offset <= look.offset

\* The changes the follower cannot see: between the start of a first follow and
\* its first reading; between stat and a chunk, or a chunk and the fingerprint,
\* when the fingerprint is to be taken anew; and a file that comes back under the
\* inode number of the one that was followed.
Unseen(j) ==
    \/ initial[j].known /\ ~position[j].known
    \/ /\ pc \in {"reading", "remembering"} /\ Sources[source] = j
       /\ ~KeepsPrint(j, Least(Prefix, look.size))
    \/ inode'[j] # inode[j] /\ inode'[j] \in {stored[j].inode, position[j].inode}

Change(j) ==
    /\ changes < MaxChanges /\ changes' = changes + 1
    /\ raced' = IF Unseen(j) THEN raced \cup {j} ELSE raced
    /\ UNCHANGED <<readable, written, base, pc, memory, notBefore, marked, handled, again, skipped, stale,
                   failures, crashes>>

\* The rotation empties the file in place.
Rotate(j) ==
    /\ lines[j] # <<>>
    /\ lines' = [lines EXCEPT ![j] = <<>>]
    /\ UNCHANGED inode
    /\ Change(j)

\* remove_ip replaces the file by another one, without the lines of an address.
Replace(j) ==
    /\ \E n \in Inode \ {inode[j]} : inode' = [inode EXCEPT ![j] = n]
    /\ \E n \in 0..Len(lines[j]) - 1 : \E kept \in [1..n -> Elements(lines[j])] :
        /\ \A l, m \in 1..n : l < m => kept[l] < kept[m]
        /\ lines' = [lines EXCEPT ![j] = kept]
    /\ Change(j)

LoseAccess(j) ==
    /\ readable[j] /\ failures < MaxFailures
    /\ failures' = failures + 1
    /\ readable' = [readable EXCEPT ![j] = FALSE]
    /\ UNCHANGED <<inode, lines, written, base, pc, memory, notBefore, ghosts, changes, crashes>>

RegainAccess(j) ==
    /\ ~readable[j]
    /\ readable' = [readable EXCEPT ![j] = TRUE]
    /\ UNCHANGED <<inode, lines, written, base, pc, memory, notBefore, ghosts, bounds>>

-----------------------------------------------------------------------------
(* The process starts, stops and dies.                                      *)

\* Events older than its start, but for a margin, are history.  A journal never
\* followed is followed from a little before its end, if it can be opened there.
Start ==
    /\ pc = "down"
    /\ pc' = "idle"
    /\ notBefore' \in notBefore..written
    /\ position' = stored
    /\ LET from(j) == IF Len(lines[j]) > Back THEN Len(lines[j]) - Back ELSE 0
           new == {j \in Journal : ~stored[j].known} IN
        /\ \A j \in new : from(j) > 0 => readable[j]
        /\ initial' = [j \in Journal |->
               IF j \in new THEN [known |-> TRUE, inode |-> inode[j], offset |-> from(j)] ELSE NoStart]
        /\ skipped' = skipped \cup UNION {Elements(First(lines[j], from(j))) : j \in new}
    /\ UNCHANGED <<journals, base, source, look, read, batch, marked, handled, again, raced, stale, bounds>>

Stop ==
    /\ pc = "idle"
    /\ pc' = "down" /\ Forget
    /\ UNCHANGED <<journals, base, notBefore, ghosts, bounds>>

\* Killed, or an error of SQLite (no OSError: nothing catches it).
Die ==
    /\ pc # "down" /\ crashes < MaxCrashes
    /\ crashes' = crashes + 1
    /\ pc' = "down" /\ Forget
    /\ UNCHANGED <<journals, base, notBefore, ghosts, changes, failures>>

-----------------------------------------------------------------------------
(* A turn: follow_once, one journal after the other, then the engine.       *)

Current == Sources[source]

BeginTurn ==
    /\ pc = "idle"
    /\ pc' = "looking"
    /\ UNCHANGED <<journals, base, memory, notBefore, ghosts, bounds>>

\* _resolve_start needs the first bytes of the file the position is about.
Compares(j) ==
    LET p == position[j] IN
    p.known /\ p.inode = inode[j] /\ Len(lines[j]) >= p.offset /\ p.length > 0 /\ Len(lines[j]) >= p.length

\* Mutant of ResolveStart: the first bytes are not compared.
ResolveStartBySize(j) ==
    LET p == position[j] s == initial[j] size == Len(lines[j]) IN
    IF ~p.known
    THEN IF s.known /\ s.inode = inode[j] /\ size >= s.offset THEN s.offset ELSE 0
    ELSE IF p.inode # inode[j] \/ size < p.offset THEN 0 ELSE p.offset

\* _resolve_start: from the beginning when the journal was replaced, truncated,
\* or begins with something else than it did.
ResolveStart(j) ==
    LET p == position[j] s == initial[j] size == Len(lines[j]) IN
    IF ~p.known
    THEN IF s.known /\ s.inode = inode[j] /\ size >= s.offset THEN s.offset ELSE 0
    ELSE IF p.inode # inode[j] \/ size < p.offset \/ (Compares(j) /\ First(lines[j], p.length) # p.print)
    THEN 0 ELSE p.offset

Look ==
    /\ pc = "looking"
    /\ Compares(Current) => readable[Current]
    /\ look' = [inode |-> inode[Current], size |-> Len(lines[Current]), offset |-> ResolveStart(Current)]
    /\ pc' = "reading"
    /\ UNCHANGED <<journals, base, source, position, initial, read, batch, notBefore, ghosts, bounds>>

\* The file is opened again: what is there now, up to the size seen by stat.
Read ==
    /\ pc = "reading"
    /\ look.size > look.offset => readable[Current]
    /\ read' = SubSeq(lines[Current], look.offset + 1,
                      Least(Least(look.size, look.offset + Chunk), Len(lines[Current])))
    /\ look' = [look EXCEPT !.offset = @ + Len(read')]
    /\ pc' = "remembering"
    /\ UNCHANGED <<journals, base, source, position, initial, batch, notBefore, ghosts, bounds>>

\* The position after the chunk.
Reached(j) ==
    LET length == Least(Prefix, look.size) IN
    [inode |-> look.inode, offset |-> look.offset, length |-> length, known |-> TRUE,
     print |-> IF KeepsPrint(j, length) THEN position[j].print ELSE First(lines[j], length)]

CanRemember(j) ==
    look.size > 0 /\ ~KeepsPrint(j, Least(Prefix, look.size)) => readable[j]

\* The reading has just started again from the beginning, since the file does not
\* begin as the position says, and the position keeps saying so.
KeepsStalePrint(j) ==
    LET length == Least(Prefix, look.size) IN
    /\ KeepsPrint(j, length) /\ position[j].print # First(lines[j], length)
    /\ look.offset = Len(read)

NoteStale == stale' = IF KeepsStalePrint(Current) THEN stale \cup {Current} ELSE stale \ {Current}

\* What stat said is of no use any more, nor the start of a first follow.
LookAway == look' = NoLook /\ initial' = [initial EXCEPT ![Current] = NoStart]

\* Mutant of Remember: the position is saved before the events are marked.
RememberAndSave ==
    /\ pc = "remembering" /\ CanRemember(Current)
    /\ position' = [position EXCEPT ![Current] = Reached(Current)]
    /\ stored' = position'
    /\ pc' = "marking" /\ LookAway /\ NoteStale
    /\ UNCHANGED <<journals, seen, source, read, batch, notBefore, marked, handled, again, skipped, raced, bounds>>

Remember ==
    /\ pc = "remembering" /\ CanRemember(Current)
    /\ position' = [position EXCEPT ![Current] = Reached(Current)]
    /\ pc' = "marking" /\ LookAway /\ NoteStale
    /\ UNCHANGED <<journals, base, source, read, batch, notBefore, marked, handled, again, skipped, raced, bounds>>

\* OSError out of the reading of a journal: the turn is over, the loop goes on.
FailTurn ==
    /\ \/ pc = "looking" /\ Compares(Current)
       \/ pc = "reading" /\ look.size > look.offset
       \/ pc = "remembering" /\ look.size > 0 /\ ~KeepsPrint(Current, Least(Prefix, look.size))
    /\ ~readable[Current]
    /\ pc' = "idle" /\ source' = 1 /\ look' = NoLook /\ read' = <<>> /\ batch' = {}
    /\ UNCHANGED <<journals, base, position, initial, notBefore, ghosts, bounds>>

\* Mutant of MarkLine: an event seen before is new again.
MarkLineAnyway ==
    LET e == Head(read) new == e > notBefore IN
    /\ pc = "marking" /\ read # <<>>
    /\ read' = Tail(read)
    /\ IF new
       THEN seen' = seen \cup {e} /\ marked' = marked \cup {e} /\ batch' = batch \cup {e}
       ELSE UNCHANGED <<seen, marked, batch>>
    /\ UNCHANGED <<journals, stored, pc, source, position, initial, look, notBefore,
                   handled, again, skipped, raced, stale, bounds>>

\* Mutant of MarkLine: a new event takes the place of those before it.
MarkLineAlone ==
    LET e == Head(read) new == e > notBefore /\ e \notin seen IN
    /\ pc = "marking" /\ read # <<>>
    /\ read' = Tail(read)
    /\ IF new
       THEN seen' = seen \cup {e} /\ marked' = marked \cup {e} /\ batch' = {e}
       ELSE UNCHANGED <<seen, marked, batch>>
    /\ UNCHANGED <<journals, stored, pc, source, position, initial, look, notBefore,
                   handled, again, skipped, raced, stale, bounds>>

\* A line of history, or seen before, is dropped; the others are marked as seen.
MarkLine ==
    LET e == Head(read) new == e > notBefore /\ e \notin seen IN
    /\ pc = "marking" /\ read # <<>>
    /\ read' = Tail(read)
    /\ IF new
       THEN seen' = seen \cup {e} /\ marked' = marked \cup {e} /\ batch' = batch \cup {e}
       ELSE UNCHANGED <<seen, marked, batch>>
    /\ UNCHANGED <<journals, stored, pc, source, position, initial, look, notBefore,
                   handled, again, skipped, raced, stale, bounds>>

\* Mutant of SavePosition: off by one, a turn goes on after the last journal.
SavePositionPastTheLast ==
    /\ pc = "marking" /\ read = <<>>
    /\ stored' = [stored EXCEPT ![Current] = position[Current]]
    /\ source' = source + 1
    /\ pc' = IF source <= Len(Sources) THEN "looking" ELSE "handling"
    /\ UNCHANGED <<journals, seen, position, initial, look, read, batch, notBefore, ghosts, bounds>>

SavePosition ==
    /\ pc = "marking" /\ read = <<>>
    /\ stored' = [stored EXCEPT ![Current] = position[Current]]
    /\ IF source < Len(Sources)
       THEN source' = source + 1 /\ pc' = "looking"
       ELSE UNCHANGED source /\ pc' = "handling"
    /\ UNCHANGED <<journals, seen, position, initial, look, read, batch, notBefore, ghosts, bounds>>

\* RiposteEngine.handle takes the events of the turn in the order of their dates.
Handle ==
    /\ pc = "handling"
    /\ \E e \in batch :
        /\ \A f \in batch : e <= f
        /\ batch' = batch \ {e}
        /\ handled' = handled \cup {e}
        /\ again' = IF e \in handled THEN again \cup {e} ELSE again
    /\ UNCHANGED <<journals, base, pc, source, position, initial, look, read, notBefore,
                   marked, skipped, raced, stale, bounds>>

\* The hourly maintenance drops the events seen for more than two days.
PurgeSeen ==
    \E last \in 0..written :
        /\ ShortJournals => \A j \in Journal : \A e \in Elements(lines[j]) : e > last
        /\ seen' = {e \in seen : e > last}

EndTurn ==
    /\ pc = "handling" /\ batch = {}
    /\ pc' = "idle" /\ source' = 1
    /\ PurgeSeen
    /\ UNCHANGED <<journals, stored, position, initial, look, read, batch, notBefore, ghosts, bounds>>

-----------------------------------------------------------------------------
Turn == BeginTurn \/ Look \/ Read \/ Remember \/ FailTurn \/ MarkLine \/ SavePosition \/ Handle \/ EndTurn

Environment ==
    \E j \in Journal : Write(j) \/ Rotate(j) \/ Replace(j) \/ LoseAccess(j) \/ RegainAccess(j)

Next == Start \/ Stop \/ Die \/ Turn \/ Environment

Spec == Init /\ [][Next]_vars

\* The supervisor starts the process again, its loop never stops by itself, and
\* it is not stopped for ever before its first turn.
FairSpec == Spec /\ WF_vars(Start) /\ WF_vars(Turn) /\ SF_vars(BeginTurn)

-----------------------------------------------------------------------------
(* Properties.                                                              *)

Position == [inode : Inode \cup {0}, offset : Nat, length : Nat, print : Seq(Event), known : BOOLEAN]

TypeOK ==
    /\ inode \in [Journal -> Inode] /\ lines \in [Journal -> Seq(Event)]
    /\ readable \in [Journal -> BOOLEAN] /\ written \in 0..MaxLines
    /\ stored \in [Journal -> Position] /\ seen \in SUBSET Event
    /\ pc \in {"down", "idle", "looking", "reading", "remembering", "marking", "handling"}
    /\ source \in DOMAIN Sources
    /\ position \in [Journal -> Position]
    /\ initial \in [Journal -> [known : BOOLEAN, inode : Inode \cup {0}, offset : Nat]]
    /\ look \in [inode : Inode \cup {0}, size : Nat, offset : Nat]
    /\ read \in Seq(Event) /\ batch \in SUBSET Event /\ notBefore \in 0..written
    /\ {marked, handled, again, skipped} \subseteq SUBSET Event
    /\ raced \in SUBSET Journal /\ stale \in SUBSET Journal
    /\ {changes, failures, crashes} \subseteq Nat

\* No event is handled twice, whatever is read again after a rotation, a
\* replacement, a failure or a death: the promise of follow_journals.
HandledOnce == again = {}

\* What is owed to the engine: an event marked as seen is handled, or is in the
\* batch of the turn, as the order of the steps is meant to ensure.
SeenIsHandled == marked \subseteq handled \cup batch

\* It is so as long as no turn was cut by a death or an unreadable journal.
QuietTurnsLoseNothing == crashes = 0 /\ failures = 0 => SeenIsHandled

\* A saved position is never ahead of the events marked: as long as it still is
\* about the file, every line before it was marked, or is history.
PositionBehindMarks ==
    \A j \in Journal :
        LET p == stored[j] IN
        /\ p.known /\ p.inode = inode[j] /\ Len(lines[j]) >= p.offset
        /\ First(lines[j], p.length) = p.print /\ j \notin raced
        => \A n \in 1..p.offset : lines[j][n] \in marked \cup skipped \cup 1..notBefore

\* A line that stays in a journal is seen in the end, as log_follower promises: no
\* rotation, replacement or death makes the follower pass over it, but a change it
\* cannot see.  The code does not keep it: see SeenUnlessStuck.
EveryLineIsSeen ==
    (\A j \in Journal : <>[]readable[j]) =>
        \A j \in Journal, e \in Event :
            e \in Elements(lines[j]) ~>
                \/ e \notin Elements(lines[j]) \/ j \in raced
                \/ e \in marked \cup skipped \cup 1..notBefore

\* What the code does keep of it.  A follower that has started again from the
\* beginning and kept the fingerprint of the old file (_remember compares the
\* offsets alone) starts again at every turn: the lines of the first chunk are
\* seen even so, those after it may never be.  In every other case, the line is
\* seen; and it is due again once the fingerprint is taken anew.
SeenUnlessStuck ==
    (\A j \in Journal : <>[]readable[j]) =>
        \A j \in Journal, e \in Event :
            e \in Elements(lines[j]) ~>
                \/ e \notin Elements(lines[j]) \/ j \in raced
                \/ j \in stale /\ e \notin Elements(First(lines[j], Chunk))
                \/ e \in marked \cup skipped \cup 1..notBefore
=============================================================================
