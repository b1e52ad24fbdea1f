------------------------------- MODULE Restore -------------------------------
(***************************************************************************)
(* Restoring a backup that holds SQLite bases: the server must be stopped, *)
(* the files of the bases are set aside, the archive is extracted over the *)
(* project and the record of the backup is written.  The command line and  *)
(* the terminal interface may do it at once, and die at any step.          *)
(*                                                                         *)
(* The main file and the -wal of a base are the number of the base they    *)
(* belong to, 0 when absent (-shm goes with -wal).  Base number b is the   *)
(* one in place at first; every base created or extracted is a new one.    *)
(* The backup is one, so is the directory its restorations set aside to.   *)
(***************************************************************************)
EXTENDS Naturals, Sequences, FiniteSets

CONSTANTS
    Restorer,          \* processes of the operators
    NumBases,          \* bases in the archive, in its order
    MaxMade,           \* bound: bases created or extracted
    MaxStarts,         \* bound: starts of the server
    MaxRestoreFaults   \* bound: errors of the disk, kills of the server and deaths of the operators

ASSUME RestoreAssumption ==
    {NumBases, MaxMade, MaxStarts, MaxRestoreFaults} \subseteq Nat /\ 1 <= NumBases /\ NumBases <= MaxMade

Database == 1..NumBases

VARIABLES
    server,       \* "down", "opening": no PID file yet, "up", "stopping"
    main, wal,    \* the files of each base in the project
    asideMain, asideWal,
    stage,        \* of each restorer
    todoFiles,    \* files it has still to set aside, then bases to extract
    managed,      \* it stops and restarts the service
    \* history variables and bounds
    intruded,    \* the server opened the bases while they were replaced
    made, starts, restoreFaults

projectVars == <<main, wal, made>>
asideVars   == <<asideMain, asideWal>>
stepVars    == <<stage, todoFiles, managed>>
boundVars   == <<starts, restoreFaults>>
restoreVars == <<server, projectVars, asideVars, stepVars, intruded, boundVars>>

RestoreInit ==
    /\ server = "down"
    /\ main = [b \in Database |-> b] /\ wal = [b \in Database |-> 0] /\ made = NumBases
    /\ asideMain = [b \in Database |-> 0] /\ asideWal = [b \in Database |-> 0]
    /\ stage = [r \in Restorer |-> "idle"] /\ todoFiles = [r \in Restorer |-> <<>>]
    /\ managed = [r \in Restorer |-> FALSE]
    /\ intruded = FALSE /\ starts = 0 /\ restoreFaults = 0

MissesOne == restoreFaults < MaxRestoreFaults /\ restoreFaults' = restoreFaults + 1

-----------------------------------------------------------------------------
(* The server, and SQLite under it.                                         *)

\* server_running: a PID file and a process that lives.
SeenRunning == server \in {"up", "stopping"}

Replacing(r) == stage[r] \in {"setting", "extracting"}

Fresh(b) == made + Cardinality({c \in 1..b : main[c] = 0})

\* A base without a main file is created, and a -wal found beside it deleted.
Opens ==
    /\ server = "down" /\ starts < MaxStarts
    /\ server' = "opening" /\ starts' = starts + 1
    /\ made' = Fresh(NumBases) /\ made' <= MaxMade
    /\ main' = [b \in Database |-> IF main[b] = 0 THEN Fresh(b) ELSE main[b]]
    /\ wal' = main'
    /\ intruded' = (intruded \/ \E r \in Restorer : Replacing(r))

ServerStarts ==
    /\ Opens
    /\ UNCHANGED <<asideVars, stepVars, restoreFaults>>

\* write_pid_file comes after the bases are open.
ServerListens ==
    /\ server = "opening"
    /\ server' = "up"
    /\ UNCHANGED <<projectVars, asideVars, stepVars, intruded, boundVars>>

\* The last connection closed takes the -wal with it, before remove_pid_file.
ServerStops ==
    /\ SeenRunning
    /\ server' = "down" /\ wal' = [b \in Database |-> 0]
    /\ UNCHANGED <<main, made, asideVars, stepVars, intruded, boundVars>>

\* Killed: the -wal stay.
ServerKilled ==
    /\ server # "down" /\ MissesOne
    /\ server' = "down"
    /\ UNCHANGED <<projectVars, asideVars, stepVars, intruded, starts>>

-----------------------------------------------------------------------------
(* restore_backup.                                                          *)

\* Mutant of FilesOf: the -wal of a base is left in place.
MainOnly(b) == << <<b, "main">> >>

\* _set_aside_databases: the main file first.
FilesOf(b) == << <<b, "main">>, <<b, "wal">> >>

\* Base after base.
AllFiles ==
    LET parts == Len(FilesOf(1)) IN
    [i \in 1..(NumBases * parts) |-> FilesOf(1 + (i - 1) \div parts)[1 + ((i - 1) % parts)]]

Reaches(r, step) == stage' = [stage EXCEPT ![r] = step]

BeginsSetting(r) ==
    /\ Reaches(r, "setting")
    /\ todoFiles' = [todoFiles EXCEPT ![r] = AllFiles]
    /\ intruded' = (intruded \/ server # "down")

\* Refused while the server runs.
Restores(r) ==
    /\ stage[r] = "idle" /\ ~SeenRunning
    /\ BeginsSetting(r)
    /\ managed' = [managed EXCEPT ![r] = FALSE]
    /\ UNCHANGED <<server, projectVars, asideVars, boundVars>>

\* A file that exists is moved, over the one set aside before.
SetsAside(r) ==
    /\ stage[r] = "setting" /\ todoFiles[r] # <<>>
    /\ LET b == Head(todoFiles[r])[1]
           part == Head(todoFiles[r])[2] IN
        IF part = "main"
        THEN /\ IF main[b] # 0 THEN asideMain' = [asideMain EXCEPT ![b] = main[b]] ELSE UNCHANGED asideMain
             /\ main' = [main EXCEPT ![b] = 0]
             /\ UNCHANGED <<wal, asideWal>>
        ELSE /\ IF wal[b] # 0 THEN asideWal' = [asideWal EXCEPT ![b] = wal[b]] ELSE UNCHANGED asideWal
             /\ wal' = [wal EXCEPT ![b] = 0]
             /\ UNCHANGED <<main, asideMain>>
    /\ todoFiles' = [todoFiles EXCEPT ![r] = Tail(@)]
    /\ UNCHANGED <<server, made, stage, managed, intruded, boundVars>>

BeginsExtraction(r) ==
    /\ stage[r] = "setting" /\ todoFiles[r] = <<>>
    /\ Reaches(r, "extracting")
    /\ todoFiles' = [todoFiles EXCEPT ![r] = [b \in Database |-> b]]
    /\ UNCHANGED <<server, projectVars, asideVars, managed, intruded, boundVars>>

\* extractall: a base is written over the file in place.
ExtractsBase(r) ==
    /\ stage[r] = "extracting" /\ todoFiles[r] # <<>> /\ made < MaxMade
    /\ made' = made + 1
    /\ main' = [main EXCEPT ![Head(todoFiles[r])] = made + 1]
    /\ todoFiles' = [todoFiles EXCEPT ![r] = Tail(@)]
    /\ UNCHANGED <<server, wal, asideVars, stage, managed, intruded, boundVars>>

Concludes(r) ==
    /\ Reaches(r, "recording")
    /\ todoFiles' = [todoFiles EXCEPT ![r] = <<>>]
    /\ UNCHANGED <<server, projectVars, asideVars, managed, intruded, starts>>

EndsExtraction(r) ==
    /\ stage[r] = "extracting" /\ todoFiles[r] = <<>>
    /\ Concludes(r) /\ UNCHANGED restoreFaults

\* A move or the extraction fails: the files stay as they are, one maybe partly written.
RestoreFails(r) == Replacing(r) /\ MissesOne /\ Concludes(r)

\* BackupMetadataStore.save.
Records(r) ==
    /\ stage[r] = "recording"
    /\ Reaches(r, IF managed[r] THEN "starting" ELSE "idle")
    /\ UNCHANGED <<server, projectVars, asideVars, todoFiles, managed, intruded, boundVars>>

Quits(r) ==
    /\ stage' = [stage EXCEPT ![r] = "idle"] /\ todoFiles' = [todoFiles EXCEPT ![r] = <<>>]
    /\ managed' = [managed EXCEPT ![r] = FALSE]

\* The record cannot be written, and its OSError leaves the whole operation; or the process dies.
OperationStops(r) ==
    /\ stage[r] # "idle" /\ MissesOne
    /\ Quits(r)
    /\ UNCHANGED <<server, projectVars, asideVars, intruded, starts>>

-----------------------------------------------------------------------------
(* restore_stopping_service.                                                *)

\* The manager has stopped the service, or stopped nothing: a server launched by hand.
AsksToStop(r) ==
    /\ stage[r] = "idle"
    /\ \/ server = "up" /\ server' = "stopping"
       \/ UNCHANGED server
    /\ Reaches(r, "waiting")
    /\ managed' = [managed EXCEPT ![r] = TRUE]
    /\ UNCHANGED <<projectVars, asideVars, todoFiles, intruded, boundVars>>

SeesItStopped(r) ==
    /\ stage[r] = "waiting" /\ ~SeenRunning
    /\ BeginsSetting(r)
    /\ UNCHANGED <<server, projectVars, asideVars, managed, boundVars>>

WaitsTooLong(r) ==
    /\ stage[r] = "waiting" /\ SeenRunning
    /\ Reaches(r, "starting")
    /\ UNCHANGED <<server, projectVars, asideVars, todoFiles, managed, intruded, boundVars>>

\* start_service: refused by the manager, or nothing to do when the server runs.
StartsService(r) ==
    /\ stage[r] = "starting"
    /\ \/ Opens /\ UNCHANGED restoreFaults
       \/ server # "down" /\ UNCHANGED <<server, projectVars, intruded, boundVars>>
       \/ MissesOne /\ UNCHANGED <<server, projectVars, intruded, starts>>
    /\ Reaches(r, "idle") /\ managed' = [managed EXCEPT ![r] = FALSE]
    /\ UNCHANGED <<asideVars, todoFiles>>

RestoreNext ==
    \/ ServerStarts \/ ServerListens \/ ServerStops \/ ServerKilled
    \/ \E r \in Restorer :
        \/ Restores(r) \/ SetsAside(r) \/ BeginsExtraction(r) \/ ExtractsBase(r)
        \/ EndsExtraction(r) \/ RestoreFails(r) \/ Records(r) \/ OperationStops(r)
        \/ AsksToStop(r) \/ SeesItStopped(r) \/ WaitsTooLong(r) \/ StartsService(r)

RestoreSpec == RestoreInit /\ [][RestoreNext]_restoreVars

-----------------------------------------------------------------------------
(* Properties.                                                              *)

RestoreTypeOK ==
    /\ server \in {"down", "opening", "up", "stopping"}
    /\ main \in [Database -> 0..MaxMade] /\ wal \in [Database -> 0..MaxMade]
    /\ asideMain \in [Database -> 0..MaxMade] /\ asideWal \in [Database -> 0..MaxMade]
    /\ stage \in [Restorer -> {"idle", "waiting", "setting", "extracting", "recording", "starting"}]
    /\ todoFiles = [r \in Restorer |-> todoFiles[r]]
    /\ \A r \in Restorer :
          todoFiles[r] \in IF stage[r] = "setting" THEN Seq(Database \X {"main", "wal"}) ELSE Seq(Database)
    /\ managed \in [Restorer -> BOOLEAN]
    /\ intruded \in BOOLEAN /\ made \in NumBases..MaxMade
    /\ starts \in 0..MaxStarts /\ restoreFaults \in 0..MaxRestoreFaults

\* The -wal beside a base is its own, also with failures, deaths and two restorations at once:
\* SQLite would replay another one on it.  Unless the server opened the bases while they were replaced.
NoForeignWal == ~intruded => \A b \in Database : 0 \in {main[b], wal[b]} \/ wal[b] = main[b]

\* Once nobody restores, the files set aside are those of one base, which can be put back, as
\* _set_aside_databases states it.
WayBack ==
    ~intruded /\ (\A r \in Restorer : stage[r] = "idle") =>
        \A b \in Database : 0 \in {asideMain[b], asideWal[b]} \/ asideWal[b] = asideMain[b]
=============================================================================
