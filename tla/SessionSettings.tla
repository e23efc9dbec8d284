-------------------------- MODULE SessionSettings --------------------------
(***************************************************************************)
(* The settings of one session: a row of session_context that patches,     *)
(* slash commands and the cd of a shell run rewrite, and to which runs add *)
(* how the latest of them stands.                                          *)
(*                                                                         *)
(* A setting has an executor and an id.  Three settings have, beside their *)
(* place in runtime_settings_json, a column from the time before there was *)
(* a JSON column.  A change reads the row, merges and writes all of these  *)
(* columns back, without a lock in between.                                *)
(***************************************************************************)
EXTENDS Integers, FiniteSets

CONSTANTS
    SettingCallers,   \* request threads and shell workers
    SessionDirs,      \* working directories
    SettingValues,    \* values of a setting
    NoSetting,        \* NULL, or no value
    Unset,            \* a field that a request does not name
    DefaultExecutor,
    MaxChanges,       \* bound: changes asked for
    MaxLatest         \* bound: runs that end

SessionExecutors == {"codex", "claude", "shell"}
ASSUME ExecutorAssumption == DefaultExecutor \in SessionExecutors

\* The settings by executor and id.  Both agents have settings without a column.
LegacyKeys == {<<"codex", "model">>, <<"codex", "reasoning_effort">>, <<"claude", "model">>}
SettingKeys == LegacyKeys \cup {<<"codex", "profile_memory">>, <<"claude", "profile_memory">>}

\* a field that is left out is no value of that field, and NULL is none either
ASSUME SettingAssumption ==
    /\ NoSetting \notin SettingValues \cup SessionDirs
    /\ Unset \notin SettingValues \cup SessionDirs \cup {NoSetting}
    /\ Unset \notin [SettingKeys -> SettingValues \cup {NoSetting}]

VARIABLES
    row,           \* the row of session_context
    change,        \* what each caller is doing
    changes,       \* changes asked for so far
    wanted,        \* history: the settings after all changes, made one after the other
    latest,        \* history: the last run that ended
    mixed          \* history: two changes have overlapped

settingVars == <<row, change, changes, wanted, latest, mixed>>

---------------------------------------------------------------------------
(* The row and the settings in it.                                         *)

\* load_row_values: a column wins over the JSON, also when it is NULL.
LoadValues(r) == [k \in SettingKeys |-> IF k \in LegacyKeys THEN r.columns[k] ELSE r.json[k]]

SettingsOf(r) == [executor |-> r.executor, dir |-> r.dir, values |-> LoadValues(r)]

\* upsert_session_context: leaves what runs have written
StoredRow(r, s, before) ==
    [executor |-> s.executor, dir |-> s.dir, json |-> s.values,
     columns |-> [k \in LegacyKeys |-> s.values[k]], latest |-> r.latest]

---------------------------------------------------------------------------
(* Changes.                                                                *)

NoChange == [executor |-> Unset, dir |-> Unset, single |-> [k \in LegacyKeys |-> Unset], all |-> Unset]
OnlySetting(k, v) == [j \in SettingKeys |-> IF j = k THEN v ELSE NoSetting]

\* What apply_session_context_patch, /cwd, /executor and cd ask for.
Patches ==
    {[NoChange EXCEPT !.executor = e] : e \in SessionExecutors \cup {NoSetting}}
    \cup {[NoChange EXCEPT !.dir = d] : d \in SessionDirs \cup {NoSetting}}
    \cup {[NoChange EXCEPT !.single[k] = v] : k \in LegacyKeys, v \in SettingValues \cup {NoSetting}}
    \cup {[NoChange EXCEPT !.all = OnlySetting(k, v)] : k \in SettingKeys, v \in SettingValues}
    \cup {[NoChange EXCEPT !.single[k] = v, !.all = OnlySetting(<<"claude", "profile_memory">>, v)] :
              k \in LegacyKeys, v \in SettingValues}

Given(new, old) == IF new = Unset THEN old ELSE new
\* update_session_context: the list of settings replaces all of them, the
\* single ones of the same request included
MergedSettings(s, c) ==
    [executor |-> Given(c.executor, s.executor), dir |-> Given(c.dir, s.dir),
     values |-> IF c.all # Unset THEN c.all
                ELSE [k \in SettingKeys |-> IF k \in LegacyKeys THEN Given(c.single[k], s.values[k]) ELSE s.values[k]]]

\* A slash command on a setting works on the executor of the session.
SlashExecutor(s) == IF s.executor = NoSetting THEN DefaultExecutor ELSE s.executor
SlashMergedBug(s, id, v) == [NoChange EXCEPT !.all = OnlySetting(<<SlashExecutor(s), id>>, v)]
\* It sends back all settings that it has read.
SlashMerged(s, id, v) == [NoChange EXCEPT !.all = [s.values EXCEPT ![<<SlashExecutor(s), id>>] = v]]

Resting == [pc |-> "idle", ask |-> NoChange, slash |-> Unset, read |-> Unset]
NoSettings == [executor |-> NoSetting, dir |-> NoSetting, values |-> [k \in SettingKeys |-> NoSetting]]

\* The row of an older release may have columns and no JSON.
SettingsInit ==
    /\ \E v \in SettingValues, old \in {{}, {<<"codex", "model">>}} :
          LET columns == [k \in LegacyKeys |-> IF k \in old THEN v ELSE NoSetting] IN
          /\ row = [executor |-> NoSetting, dir |-> NoSetting, json |-> [k \in SettingKeys |-> NoSetting],
                    columns |-> columns, latest |-> 0]
          /\ wanted = [NoSettings EXCEPT !.values = [k \in SettingKeys |-> IF k \in LegacyKeys THEN columns[k] ELSE NoSetting]]
    /\ change = [c \in SettingCallers |-> Resting]
    /\ changes = 0 /\ latest = 0 /\ mixed = FALSE

Busy == {c \in SettingCallers : change[c].pc # "idle"}

AskPatch(c) ==
    /\ change[c].pc = "idle" /\ changes < MaxChanges
    /\ \E patch \in Patches : change' = [change EXCEPT ![c] = [Resting EXCEPT !.pc = "update", !.ask = patch]]
    /\ changes' = changes + 1
    /\ mixed' = (mixed \/ Busy # {})
    /\ UNCHANGED <<row, wanted, latest>>

\* execute_slash_command, up to the update of the row: it is refused if the
\* executor of the session has no such setting
AskSlash(c) ==
    /\ change[c].pc = "idle" /\ changes < MaxChanges
    /\ \E id \in {"model", "reasoning_effort", "profile_memory"}, v \in SettingValues \cup {NoSetting} :
          /\ <<SlashExecutor(SettingsOf(row)), id>> \in SettingKeys
          /\ change' = [change EXCEPT ![c] = [Resting EXCEPT !.pc = "update", !.slash = [id |-> id, value |-> v],
                                                             !.ask = SlashMerged(SettingsOf(row), id, v)]]
    /\ changes' = changes + 1
    /\ mixed' = (mixed \/ Busy # {})
    /\ UNCHANGED <<row, wanted, latest>>

\* update_session_context reads the row ..
ReadRow(c) ==
    /\ change[c].pc = "update"
    /\ change' = [change EXCEPT ![c].pc = "write", ![c].read = row]
    /\ UNCHANGED <<row, changes, wanted, latest, mixed>>

\* .. and writes what it has merged.
WriteRow(c) ==
    LET me == change[c]
        wish == IF me.slash = Unset THEN MergedSettings(wanted, me.ask)
                ELSE [wanted EXCEPT !.values[<<SlashExecutor(wanted), me.slash.id>>] = me.slash.value]
    IN /\ me.pc = "write"
       /\ row' = StoredRow(row, MergedSettings(SettingsOf(me.read), me.ask), me.read)
       /\ wanted' = IF mixed THEN wanted ELSE wish
       /\ change' = [change EXCEPT ![c] = Resting]
       /\ UNCHANGED <<changes, latest, mixed>>

\* update_session_latest_run
RunReports ==
    /\ latest < MaxLatest
    /\ latest' = latest + 1
    /\ row' = [row EXCEPT !.latest = latest + 1]
    /\ UNCHANGED <<change, changes, wanted, mixed>>

SettingsNext == \/ \E c \in SettingCallers : AskPatch(c) \/ AskSlash(c) \/ ReadRow(c) \/ WriteRow(c)
                \/ RunReports

SettingsSpec == SettingsInit /\ [][SettingsNext]_settingVars

---------------------------------------------------------------------------
(* Properties.                                                             *)

\* Changes that do not overlap have the effect of one after the other: a
\* setting that was cleared does not come back from its old column, a change
\* of one setting leaves the others, a slash command sets the one of its
\* executor.  Only an overlap may lose a change.
SettingsAreAsAsked == ~mixed => SettingsOf(row) = wanted

\* The columns of an older release agree with the JSON of this one from the
\* first change on, overlapping or not.
ColumnsAgree == [][row' # row /\ latest' = latest => \A k \in LegacyKeys : row'.columns[k] = row'.json[k]]_settingVars

\* A change of settings that read the row before a run reported does not
\* take the report back.
ReportIsKept == row.latest = latest

\* Whatever it overlaps with, a patch is in the row when it is written.
OwnPatchIsWritten ==
    [][\A c \in SettingCallers : change[c].pc = "write" /\ change'[c].pc = "idle" =>
           LET ask == change[c].ask
               now == SettingsOf(row')
           IN /\ Given(ask.executor, now.executor) = now.executor
              /\ Given(ask.dir, now.dir) = now.dir
              /\ ask.all # Unset => now.values = ask.all
              /\ ask.all = Unset => \A k \in LegacyKeys : Given(ask.single[k], now.values[k]) = now.values[k]]_settingVars

\* The row of a session has what was asked for and what was reported, except
\* for what overlapping changes cost.
SettingsAreKept == [](SettingsAreAsAsked /\ ReportIsKept) /\ ColumnsAgree /\ OwnPatchIsWritten

=============================================================================
