---------------------------- MODULE StoreUpgrade ----------------------------
(***************************************************************************)
(* What the start of the backend does to the tables runs and run_events:   *)
(* initialize_run_store_schema and migrate_legacy_rows.  A release of old  *)
(* kept each run in a column payload_json; a later one had the tables of   *)
(* today with fewer columns.  sqlite3 commits each statement on a table's  *)
(* shape by itself and the new rows of all runs together.  The backend may *)
(* die in between and start again.                                         *)
(***************************************************************************)
EXTENDS Integers, Sequences

CONSTANTS
    OldRuns,       \* runs that the older release has stored
    DamagedRuns,   \* those among them whose payload cannot be read
    MaxDeaths      \* bound: deaths of the backend

ASSUME DamagedAssumption == DamagedRuns \subseteq OldRuns

BaseColumns == {"run_id", "status", "summary"}          \* and the others it always had
LaterColumns == {"executor", "pending_human_unblock_json"}
EventColumns == {"event_id", "event_json"}              \* later ones of run_events

VARIABLES
    runsTable,    \* its columns, {} if there is no table
    runRows,      \* runs stored in it
    eventsTable,  \* whether run_events exists, and its later columns
    eventRows,    \* runs whose events run_events holds
    readRows,     \* legacy_rows, in memory
    upgrade,      \* the next statement
    deaths,
    hadRuns,      \* history: the backend had runs before
    cut           \* history: the backend died with runs in memory only

upgradeVars == <<runsTable, runRows, eventsTable, eventRows, readRows, upgrade, deaths, hadRuns, cut>>

Payload == {"run_id", "payload_json"}
NoTable == [there |-> FALSE, columns |-> {}]

\* a new installation, one of the release with payloads, or a later one
UpgradeInit ==
    /\ \/ runsTable = {} /\ runRows = {} /\ eventsTable = NoTable /\ eventRows = {}
       \/ runsTable = Payload /\ runRows = OldRuns /\ eventsTable = NoTable /\ eventRows = {}
       \/ \E some \in SUBSET LaterColumns, more \in SUBSET EventColumns :
             /\ runsTable = BaseColumns \cup some /\ runRows = OldRuns \ DamagedRuns
             /\ eventsTable = [there |-> TRUE, columns |-> more] /\ eventRows = OldRuns \ DamagedRuns
    /\ hadRuns = (runRows # {})
    /\ readRows = {} /\ upgrade = "read" /\ deaths = 0 /\ cut = FALSE

---------------------------------------------------------------------------
ReadRows ==
    /\ upgrade = "read"
    /\ IF "payload_json" \in runsTable
       THEN readRows' = runRows /\ upgrade' = "drop"
       ELSE readRows' = {} /\ upgrade' = "create"
    /\ UNCHANGED <<runsTable, runRows, eventsTable, eventRows, deaths, hadRuns, cut>>

DropRuns ==
    /\ upgrade = "drop"
    /\ runsTable' = {} /\ runRows' = {}
    /\ upgrade' = "create"
    /\ UNCHANGED <<eventsTable, eventRows, readRows, deaths, hadRuns, cut>>

\* CREATE TABLE IF NOT EXISTS
CreateRuns ==
    /\ upgrade = "create"
    /\ runsTable' = IF runsTable = {} THEN BaseColumns \cup LaterColumns ELSE runsTable
    /\ upgrade' = "alter"
    /\ UNCHANGED <<runRows, eventsTable, eventRows, readRows, deaths, hadRuns, cut>>

\* looked up column by column, in this order
MissingColumns == LaterColumns \ runsTable
AlterRuns ==
    /\ upgrade = "alter"
    /\ IF MissingColumns = {} THEN upgrade' = "events" /\ runsTable' = runsTable
       ELSE /\ runsTable' = runsTable \cup {IF "executor" \in MissingColumns THEN "executor" ELSE "pending_human_unblock_json"}
            /\ upgrade' = upgrade
    /\ UNCHANGED <<runRows, eventsTable, eventRows, readRows, deaths, hadRuns, cut>>

\* run_events is made and completed in the same way.
CreateEvents ==
    /\ upgrade = "events"
    /\ eventsTable' = IF eventsTable.there THEN eventsTable ELSE [there |-> TRUE, columns |-> EventColumns]
    /\ upgrade' = "alterEvents"
    /\ UNCHANGED <<runsTable, runRows, eventRows, readRows, deaths, hadRuns, cut>>

AlterEvents ==
    LET missing == EventColumns \ eventsTable.columns
    IN /\ upgrade = "alterEvents"
       /\ IF missing = {} THEN upgrade' = "migrate" /\ eventsTable' = eventsTable
          ELSE /\ eventsTable' = [eventsTable EXCEPT !.columns = @ \cup {IF "event_id" \in missing THEN "event_id" ELSE "event_json"}]
               /\ upgrade' = upgrade
       /\ UNCHANGED <<runsTable, runRows, eventRows, readRows, deaths, hadRuns, cut>>

MigratedBug == IF readRows \cap DamagedRuns = {} THEN readRows ELSE {}
\* A payload that cannot be read is passed over.
Migrated == readRows \ DamagedRuns

\* One transaction for all runs and their events.
Migrate ==
    /\ upgrade = "migrate"
    /\ runRows' = runRows \cup Migrated
    /\ eventRows' = eventRows \cup Migrated
    /\ readRows' = {}
    /\ upgrade' = "ready"
    /\ UNCHANGED <<runsTable, eventsTable, deaths, hadRuns, cut>>

\* The backend dies, in the middle of this or later, and starts again.
Die ==
    /\ deaths < MaxDeaths
    /\ deaths' = deaths + 1
    /\ cut' = (cut \/ (readRows # {} /\ upgrade # "drop"))
    /\ readRows' = {}
    /\ upgrade' = "read"
    /\ UNCHANGED <<runsTable, runRows, eventsTable, eventRows, hadRuns>>

UpgradeNext == \/ ReadRows \/ DropRuns \/ CreateRuns \/ AlterRuns \/ CreateEvents \/ AlterEvents \/ Migrate
               \/ Die
UpgradeSpec == UpgradeInit /\ [][UpgradeNext]_upgradeVars

---------------------------------------------------------------------------
(* Properties.                                                             *)

\* Whatever release stored them and wherever starts were cut off, a backend
\* that is up has all columns it uses, and its runs have their events.
StoreIsUpToDate ==
    upgrade = "ready" => /\ BaseColumns \cup LaterColumns \subseteq runsTable
                         /\ "payload_json" \notin runsTable
                         /\ eventsTable = [there |-> TRUE, columns |-> EventColumns]
                         /\ runRows = eventRows

\* No run that can be read is lost, not by one that cannot be read either,
\* unless the backend died after it had dropped the old table and before it
\* had stored the runs anew: then all are lost.
RunsSurviveUpgrade == hadRuns /\ ~cut => OldRuns \ DamagedRuns \subseteq runRows \cup readRows

\* The upgrade completes the tables and loses no run, wherever it is cut off.
UpgradeIsSafe == StoreIsUpToDate /\ RunsSurviveUpgrade

=============================================================================
