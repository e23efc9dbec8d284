---------------------------- MODULE ChatFindings ----------------------------
(***************************************************************************)
(* What chat_envelope.py finds in the text of an assistant beside its      *)
(* sections: artifacts that can be opened, files that changed, commands    *)
(* and tests that ran, warnings.  An agent may state some of it itself, in *)
(* a manifest; what it states stands, the text is read for the rest.       *)
(*                                                                         *)
(* What is read is not the message: a summary is made of its first lines,  *)
(* which are joined, and the lines of a verification are rewritten.        *)
(* A line is a record of what the patterns of the code see in it.          *)
(***************************************************************************)
EXTENDS Selection, SequencesExt

CONSTANTS
    MaxFindLines,      \* bound: lines of a text
    MaxFileChanges,    \* 30 in the code
    MaxRan,            \* 12 in the code: commands, and tests
    MaxWarned          \* 8 in the code: warnings of the text

ASSUME FindingsAssumption == {MaxFileChanges, MaxRan, MaxWarned} \subseteq Nat

\* How a line may refer to a file, and what it is taken for by the pattern of
\* links, by that of backticks, by that of absolute paths and by that of
\* relative ones, which takes the words before it with it.
Linked == [link |-> "/repo/a.py"]
Quoted == [quoted |-> "src/b.py"]
Absolute == [absolute |-> "/repo/a.py", link |-> "/repo/a.py", loose |-> "/b.py"]
Relative == [loose |-> "in src/b.py"]
References == {"absolute", "link", "quoted", "loose"}
\* _looks_like_file_reference
FilePaths == {"/repo/a.py", "/b.py", "src/b.py", "in src/b.py"}

\* says tells lines apart; stop: it ends with a full stop; quoted: its command
\* is in backticks, the bare words of a command are one only under a heading
\* for checks; warns: it has a word like "failed" or "could not" in it, which
\* an outcome may have ("failed") or not ("error").
Silent == [says |-> <<>>, stop |-> FALSE, refs |-> <<>>, status |-> "unknown", command |-> <<>>, quoted |-> FALSE,
           outcome |-> "unknown", warns |-> FALSE]
FileLine(ref, status) == [Silent EXCEPT !.says = <<ref, status>>, !.refs = <<ref>>, !.status = status]
Check(words, command, quoted, outcome, warns) ==
    [Silent EXCEPT !.says = <<words>>, !.command = command, !.quoted = quoted, !.outcome = outcome, !.warns = warns]
Fails == Check("fails", <<"pytest">>, TRUE, "failed", TRUE)
Passes == Check("passes", <<"pytest">>, TRUE, "passed", FALSE)
PassesLate == [Check("passes, though what comes after timed out", <<"pytest">>, TRUE, "passed", TRUE) EXCEPT !.refs = <<"link">>]
Lints == Check("ruff has an error", <<"ruff">>, FALSE, "failed", FALSE)
Skips == Check("the rest is skipped", <<>>, FALSE, "skipped", TRUE)
Builds == Check("the build is ok", <<>>, FALSE, "passed", FALSE)
Remark == [Check("could not reach it", <<>>, FALSE, "unknown", TRUE) EXCEPT !.stop = TRUE]
\* The lines of a text, by the title they stand under: one title of each kind
\* that is asked for, and "result" for what stands under none of them.
LinesUnder ==
    [result |-> {FileLine("absolute", "created"), FileLine("loose", "modified"), Fails, Remark},
     files |-> {FileLine("quoted", "unknown"), FileLine("link", "created")},
     verification |-> {Fails, Passes, PassesLate, Lints, Skips, Builds},
     warnings |-> {Remark, Lints}]

NoManifest == [artifacts |-> <<>>, changes |-> <<>>, commands |-> <<>>, tests |-> <<>>, warnings |-> <<>>]
Manifests ==
    {NoManifest,
     [NoManifest EXCEPT !.changes = <<[path |-> "src/b.py", status |-> "modified", opens |-> ""],
                                      [path |-> "the build", status |-> "modified", opens |-> ""]>>],
     [NoManifest EXCEPT !.artifacts = <<[path |-> "/repo/a.py", title |-> "src/b.py"], [path |-> "/repo/a.py", title |-> "file"]>>,
                        !.commands = <<[name |-> <<"pytest">>, outcome |-> "passed"]>>],
     [NoManifest EXCEPT !.tests = <<[name |-> <<"unit tests">>, outcome |-> "passed"]>>],
     [NoManifest EXCEPT !.warnings = <<[name |-> [says |-> <<"failed", "pytest">>, stop |-> FALSE], level |-> "warning"]>>]}

VARIABLES
    findText,    \* the lines of a message, each with the title it stands under
    given,       \* its manifest
    opening,     \* its summary
    found        \* what is found

findVars == <<findText, given, opening, found>>

---------------------------------------------------------------------------
(* The text.                                                               *)

\* The first of the items that agree in a field, or in all.
Agree(a, b, field) == IF field = "all" THEN a = b ELSE a[field] = b[field]
Firsts(items, field) == {i \in DOMAIN items : \A j \in 1 .. (i - 1) : ~ Agree(items[j], items[i], field)}
Deduped(items, field) == Picked(items, Firsts(items, field))
Those(items, Test(_)) == Picked(items, {i \in DOMAIN items : Test(items[i])})
First(items, n) == SubSeq(items, 1, IF n < Len(items) THEN n ELSE Len(items))

\* What is seen of a file or of an outcome in a line that says several: the
\* first of them in the order that the code asks for them.
FirstOf(order, said) ==
    LET there == {i \in DOMAIN order : order[i] \in said}
    IN IF there = {} THEN "unknown" ELSE order[Place(there, 1)]
FileStatuses == <<"deleted", "created", "modified">>      \* _file_status_from_text
Outcomes == <<"skipped", "failed", "passed">>             \* _run_status_from_text

\* The first command in backticks; in a summary bare words are none.
CommandIn(lines) ==
    LET named == {i \in DOMAIN lines : lines[i].quoted}
    IN IF named = {} THEN <<>> ELSE lines[Place(named, 1)].command
\* Lines as one line (_clean_summary).
OneLine(lines) ==
    [says |-> FlattenSeq([i \in DOMAIN lines |-> lines[i].says]),
     stop |-> lines[Len(lines)].stop,
     refs |-> FlattenSeq([i \in DOMAIN lines |-> lines[i].refs]),
     status |-> FirstOf(FileStatuses, {lines[i].status : i \in DOMAIN lines}),
     command |-> CommandIn(lines),
     quoted |-> CommandIn(lines) # <<>>,
     outcome |-> FirstOf(Outcomes, {lines[i].outcome : i \in DOMAIN lines}),
     warns |-> \E i \in DOMAIN lines : lines[i].warns]

\* _normalize_verification_line: of a line that names a command and its outcome
\* nothing else is left.
IsShortened(p) == p.under = "verification" /\ p.line.command # <<>> /\ p.line.outcome # "unknown"
Shortened(line) ==
    [Silent EXCEPT !.says = <<line.outcome>> \o line.command, !.command = line.command, !.quoted = TRUE,
                   !.outcome = line.outcome, !.warns = line.outcome \in {"failed", "skipped"}]
\* "Ran" for what failed
RewrittenBug(p) == IF IsShortened(p) THEN [Shortened(p.line) EXCEPT !.outcome = IF @ = "failed" THEN "unknown" ELSE @] ELSE p.line
\* _normalize_chat_sections; the lines of a list become sentences
Rewritten(p) ==
    IF IsShortened(p) THEN Shortened(p.line)
    ELSE IF p.under = "result" THEN p.line
    ELSE [p.line EXCEPT !.stop = TRUE]

\* _envelope_text: the summary, before any heading, and the sections
EnvelopeText(text, summary) ==
    <<[under |-> "", line |-> summary]>> \o [i \in DOMAIN text |-> [text[i] EXCEPT !.line = Rewritten(text[i])]]

\* _normalize_envelope_summary: the manifest's summary, or the first sentence of
\* the first paragraph of a section, as it was written or rewritten; which one
\* depends on its words.
Sentences(lines) ==
    {OneLine(SubSeq(lines, 1, n)) : n \in {m \in DOMAIN lines : \A i \in 1 .. (m - 1) : ~ lines[i].stop}}
Written(text) == [i \in DOMAIN text |-> text[i].line]
Under(text, title) == Picked(text, {i \in DOMAIN text : text[i].under = title})
Openings(text) ==
    {Silent, Fails} \cup Sentences(Written(Under(text, text[1].under)))
    \cup UNION {Sentences([i \in DOMAIN Under(text, title) |-> Rewritten(Under(text, title)[i])]) : title \in DOMAIN LinesUnder}

---------------------------------------------------------------------------
(* What is found.                                                          *)

\* extract_artifacts_from_text: links first, then what is seen as an absolute
\* path
SeenBy(pass, refs) ==
    LET kept == Only(refs, DOMAIN pass) IN [k \in DOMAIN kept |-> pass[kept[k]]]
ArtifactsOf(text) ==
    LET refs == FlattenSeq([i \in DOMAIN text |-> text[i].line.refs])
        paths == SeenBy(Linked, refs) \o SeenBy(Absolute, refs)
    IN Deduped([i \in DOMAIN paths |-> [path |-> paths[i], title |-> "file"]], "path")

\* _artifacts_by_reference: by path and by title, the last one wins
ByReference(artifacts, path) ==
    LET named == {i \in DOMAIN artifacts : path \in {artifacts[i].path, artifacts[i].title}}
    IN IF named = {} THEN "" ELSE artifacts[CHOOSE i \in named : \A j \in named : j <= i].path

\* _extract_file_references_from_line
PathsIn(refs) ==
    Deduped(SeenBy(Linked, refs) \o SeenBy(Quoted, refs) \o SeenBy(Absolute, refs) \o SeenBy(Relative, refs), "all")

\* extract_file_changes_from_text: files that a line says something of, or
\* that stand under a heading for files, then the other artifacts
SaysOfFiles(p) == p.line.status # "unknown" \/ p.under = "files"
ChangesOfLine(line, artifacts) ==
    LET paths == PathsIn(line.refs)
    IN [k \in DOMAIN paths |-> [path |-> paths[k], status |-> line.status, opens |-> ByReference(artifacts, paths[k])]]
ChangesOf(text, artifacts) ==
    LET told == Those(text, SaysOfFiles)
        others == [i \in DOMAIN artifacts |-> [path |-> artifacts[i].path, status |-> "unknown", opens |-> artifacts[i].path]]
    IN First(Deduped(FlattenSeq([i \in DOMAIN told |-> ChangesOfLine(told[i].line, artifacts)]) \o others, "path"), MaxFileChanges)

\* _with_actionable_file_change_artifacts: a change without an artifact gets
\* one, if its path looks like a file
ActionableBug(changes, artifacts) ==
    LET opens(c) == IF c.opens # "" THEN c.opens ELSE IF c.path \in FilePaths THEN c.path ELSE ByReference(artifacts, c.path)
    IN [changes |-> [i \in DOMAIN changes |-> [changes[i] EXCEPT !.opens = opens(changes[i])]], artifacts |-> artifacts]
Opened(c, artifacts) ==
    IF c.opens # "" THEN c.opens
    ELSE IF ByReference(artifacts, c.path) # "" THEN ByReference(artifacts, c.path)
    ELSE IF c.path \in FilePaths THEN c.path
    ELSE ""
WithArtifact(artifacts, path) ==
    IF path = "" THEN artifacts ELSE Deduped(Append(artifacts, [path |-> path, title |-> "file"]), "path")
Actionable(changes, artifacts) ==
    LET after[n \in 0 .. Len(changes)] ==     \* the artifacts after n changes
            IF n = 0 THEN Deduped(artifacts, "path") ELSE WithArtifact(after[n - 1], Opened(changes[n], after[n - 1]))
    IN [changes |-> [i \in DOMAIN changes |-> [changes[i] EXCEPT !.opens = Opened(changes[i], after[i - 1])]],
        artifacts |-> after[Len(changes)]]

\* extract_command_runs_from_text: in backticks anywhere, else under a heading
\* for checks
NamesCommand(p) == p.line.command # <<>> /\ (p.line.quoted \/ p.under = "verification")
CommandsOf(text) ==
    LET ran == Those(text, NamesCommand)
    IN First(Deduped([i \in DOMAIN ran |-> [name |-> ran[i].line.command, outcome |-> ran[i].line.outcome]], "name"), MaxRan)

TestCommands == {<<"pytest">>}
IsTest(c) == c.name \in TestCommands
TellsOutcome(p) == p.under = "verification" /\ p.line.outcome # "unknown" /\ p.line.command = <<>>
\* extract_test_runs_from_text: commands that test, and lines under such a
\* heading that are no commands
TestsOf(text, commands) ==
    LET told == Those(text, TellsOutcome)
    IN First(Those(commands, IsTest)
             \o Deduped([i \in DOMAIN told |-> [name |-> told[i].line.says, outcome |-> told[i].line.outcome]], "name"), MaxRan)

\* extract_warnings_from_text: what stands under a heading for warnings, then
\* what sounds like one; the same words with and without a full stop are two
UnderWarnings(p) == p.under = "warnings"
SoundsLikeWarning(p) == p.line.warns
Warning(line) == [says |-> line.says, stop |-> line.stop]
WarningsOf(text) ==
    LET under == Those(text, UnderWarnings)
        sounds == Those(text, SoundsLikeWarning)
    IN First(Deduped([i \in DOMAIN under |-> [name |-> Warning(under[i].line), level |-> "warning"]]
                     \o [i \in DOMAIN sounds |-> [name |-> Warning(sounds[i].line), level |-> "error"]], "name"), MaxWarned)

\* what an agent states stands
Or(stated, extracted) == IF stated # <<>> THEN stated ELSE extracted
\* enhance_chat_envelope
Enhanced(envelope, lines, summary) ==
    LET text == EnvelopeText(lines, summary)
        artifacts == Deduped(envelope.artifacts \o ArtifactsOf(text), "path")
        actionable == Actionable(Or(envelope.changes, ChangesOf(text, artifacts)), artifacts)
        commands == Or(envelope.commands, CommandsOf(text))
    IN [artifacts |-> actionable.artifacts,
        changes |-> actionable.changes,
        commands |-> commands,
        tests |-> Or(envelope.tests, TestsOf(text, commands)),
        warnings |-> Deduped(envelope.warnings \o WarningsOf(text), "all")]

---------------------------------------------------------------------------
FindInit == findText = <<>> /\ given = NoManifest /\ opening = Silent /\ found = NoManifest

Titles(text) == {text[i].under : i \in DOMAIN text}
\* A line may follow under the last title, or under another one: sections of one
\* title are joined.
MayFollow(text, title) == title \in Titles(text) => title = text[Len(text)].under

\* coerce_assistant_text_to_envelope, for a text with one more line, and any
\* manifest.  A longer text has a summary of its own: it is enough to go on from
\* one of the shorter text.
Finds ==
    /\ Len(findText) < MaxFindLines
    /\ opening = Silent
    /\ \E title \in DOMAIN LinesUnder : \E line \in LinesUnder[title] :
         /\ MayFollow(findText, title)
         /\ findText' = Append(findText, [under |-> title, line |-> line])
    /\ given' \in IF findText = <<>> THEN Manifests ELSE {given}
    /\ opening' \in Openings(findText')
    /\ found' = Enhanced([given' EXCEPT !.artifacts = Deduped(@ \o ArtifactsOf(findText'), "path")], findText', opening')

FindNext == Finds
FindSpec == FindInit /\ [][FindNext]_findVars

---------------------------------------------------------------------------
(* Properties.                                                             *)

\* Every file that a message says has changed can be opened from it: its
\* change has an artifact, which is among those of the message, whether the
\* change comes from the text, from the manifest or from an artifact.
ChangesCanBeOpened ==
    \A i \in DOMAIN found.changes :
        /\ found.changes[i].path \in FilePaths => found.changes[i].opens # ""
        /\ found.changes[i].opens # "" => \E k \in DOMAIN found.artifacts : found.artifacts[k].path = found.changes[i].opens

\* What the text and the opening say of how a command ended.
SaidOf(command) ==
    {findText[i].line.outcome : i \in {j \in DOMAIN findText : NamesCommand(findText[j]) /\ findText[j].line.command = command}}
    \cup (IF opening.quoted /\ opening.command = command THEN {opening.outcome} ELSE {})
Reported(reports, name, outcomes) == \E k \in DOMAIN reports : reports[k].name = name /\ reports[k].outcome \in outcomes

\* What a line under a heading for checks says of an outcome is reported, of a
\* command or else as a test, and a command that tests is reported as a test
\* that ended as the command did, unless the agent stated its own list, or the
\* list is full.  A command is reported with an outcome that a line which names
\* it says; or with that of the opening, which is right when the opening is one
\* line, and may be that of another command when it joins two.  No test is
\* made up.
ChecksAreReported ==
    /\ \A i \in DOMAIN findText :
         LET p == findText[i]
         IN p.under = "verification" /\ p.line.outcome # "unknown" =>
              IF p.line.command # <<>>
              THEN given.commands = <<>> /\ Len(found.commands) < MaxRan =>
                       Reported(found.commands, p.line.command, SaidOf(p.line.command))
              ELSE given.tests = <<>> /\ Len(found.tests) < MaxRan =>
                       Reported(found.tests, p.line.says, {p.line.outcome})
    /\ given.tests = <<>> =>
         /\ Len(found.tests) < MaxRan =>
              \A k \in DOMAIN found.commands : IsTest(found.commands[k]) => found.commands[k] \in Range(found.tests)
         /\ \A k \in DOMAIN found.tests :
              \/ IsTest(found.tests[k]) /\ found.tests[k] \in Range(found.commands)
              \/ \E i \in DOMAIN findText : TellsOutcome(findText[i]) /\ found.tests[k] = [name |-> findText[i].line.says, outcome |-> findText[i].line.outcome]

\* What an assistant warns of, under a heading for warnings or by the words of
\* a line, is reported as a warning while the list is not full, and so is
\* every check that names a command and failed or was skipped, though its line
\* does not say it in those words.  Only what is said beside the outcome of a
\* check that passed is lost.
WarningsAreReported ==
    Len(found.warnings) < MaxWarned =>
        \A i \in DOMAIN findText :
            LET p == findText[i]
                told(says) == \E k \in DOMAIN found.warnings : found.warnings[k].name.says = says
            IN IF IsShortened(p) THEN p.line.outcome # "passed" => told(<<p.line.outcome>> \o p.line.command)
               ELSE UnderWarnings(p) \/ SoundsLikeWarning(p) => told(p.line.says)

\* What a message says beside its sections gets into the lists that a phone
\* shows: how its checks ended, and what it warns of.
FindingsAreReported == ChecksAreReported /\ WarningsAreReported

=============================================================================
